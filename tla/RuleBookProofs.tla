--------------------------- MODULE RuleBookProofs ----------------------------
(***************************************************************************)
(* Proofs about RuleBook, and about the table's operators in               *)
(* ClearanceRules, for any shipped table and any candidates.               *)
(***************************************************************************)
EXTENDS RuleBook, FiniteSetTheorems, WellFoundedInduction, TLAPS

(* A non-empty set of naturals has a least member: among the intervals 0..n *)
(* of its members n, finite sets all, one contains no smaller one.          *)
LEMMA NatMin ==
  ASSUME NEW T, T \subseteq Nat, T # {}
  PROVE  \E x \in T : \A y \in T : x <= y
<1> DEFINE U == {0..n : n \in T}
<1>1. ASSUME NEW n \in T PROVE IsFiniteSet(0..n) /\ 0..n \in SUBSET Nat
  BY FS_Interval
<1>2. U \subseteq FiniteSubsetsOf(Nat) /\ U # {}
  BY <1>1 DEF FiniteSubsetsOf
<1>3. IsWellFoundedOn(StrictSubsetOrdering(Nat), FiniteSubsetsOf(Nat))
  BY FS_StrictSubsetOrderingWellFounded
<1>4. PICK X \in U : \A Y \in U : <<Y, X>> \notin StrictSubsetOrdering(Nat)
  <2> HIDE DEF U
  <2> QED BY <1>2, <1>3, WFMin
<1>5. PICK x \in T : X = 0..x
  OBVIOUS
<1>6. ASSUME NEW y \in T, y < x PROVE FALSE
  <2>1. 0..y \subseteq 0..x /\ x \in 0..x /\ x \notin 0..y /\ 0..y \in U
    BY <1>6
  <2>2. 0..y # 0..x
    BY <2>1
  <2>3. <<0..y, X>> \in StrictSubsetOrdering(Nat)
    BY <1>1, <1>5, <2>1, <2>2 DEF StrictSubsetOrdering
  <2> QED BY <1>4, <2>1, <2>3
<1> QED BY <1>6

(* The strictest of a non-empty table is a rule of it that outranks all.    *)
LEMMA StrictestOutranks ==
  ASSUME NEW S \in SUBSET AllRules, S # {}
  PROVE  strictest(S) \in S /\ \A s \in S : outranks(strictest(S), s)
<1> USE RuleBookAssumption DEF AllRules, Rules
<1>1. PICK r1 \in S : \A s \in S : s.gap <= r1.gap
  <2>1. ASSUME NEW r \in S PROVE r.gap \in Nat /\ MaxGap - r.gap \in Nat
    OBVIOUS
  <2>2. PICK x \in {MaxGap - r.gap : r \in S} : \A y \in {MaxGap - r.gap : r \in S} : x <= y
    <3> DEFINE T == {MaxGap - r.gap : r \in S}
    <3>1. T \subseteq Nat /\ T # {}
      BY <2>1
    <3> HIDE DEF T
    <3>2. \E x \in T : \A y \in T : x <= y
      BY <3>1, NatMin
    <3> QED BY <3>2 DEF T
  <2>3. PICK r \in S : x = MaxGap - r.gap
    BY <2>2
  <2>4. ASSUME NEW s \in S PROVE s.gap <= r.gap
    <3>1. x <= MaxGap - s.gap
      BY <2>2
    <3> QED BY <2>1, <2>3, <3>1
  <2> QED BY <2>4
<1>2. PICK r \in S : r.gap = r1.gap /\ \A s \in S : s.gap = r1.gap => r.place <= s.place
  <2> DEFINE T == {s.place : s \in {t \in S : t.gap = r1.gap}}
  <2>1. T \subseteq Nat /\ T # {}
    OBVIOUS
  <2>2. \E x \in T : \A y \in T : x <= y
    <3> HIDE DEF T
    <3> QED BY <2>1, NatMin
  <2> QED BY <2>2
<1>3. \A s \in S : outranks(r, s)
  BY <1>1, <1>2 DEF outranks
<1> QED BY <1>3 DEF strictest

(* resolve_precedence picks a rule of the tier at least as wide as every    *)
(* other, and a project rule only if it is wider than every code rule.      *)
LEMMA PrecedenceIsAFloor ==
  ASSUME NEW S \in SUBSET AllRules, S # {}
  PROVE  /\ resolve_precedence(S) \in S
         /\ \A r \in S : resolve_precedence(S).gap >= r.gap
         /\ resolve_precedence(S).precedence = "project_spec" =>
              \A r \in S : r.precedence = "code" => resolve_precedence(S).gap > r.gap
<1> DEFINE C == of_precedence(S, "code")
           P == of_precedence(S, "project_spec")
<1>1. C \in SUBSET AllRules /\ P \in SUBSET AllRules /\ S = C \cup P
  BY DEF of_precedence, AllRules, Rules, VALID_PRECEDENCE
<1>2. ASSUME NEW r \in S PROVE r.gap \in Nat
  BY RuleBookAssumption DEF AllRules, Rules
<1>3. C # {} => strictest(C) \in C /\ \A s \in C : strictest(C).gap >= s.gap
  BY <1>1, <1>2, StrictestOutranks DEF outranks
<1>4. P # {} => strictest(P) \in P /\ \A s \in P : strictest(P).gap >= s.gap
  BY <1>1, <1>2, StrictestOutranks DEF outranks
<1>5. resolve_precedence(S) = IF C = {} THEN strictest(P)
                              ELSE IF P # {} /\ strictest(P).gap > strictest(C).gap
                                   THEN strictest(P) ELSE strictest(C)
  BY DEF resolve_precedence
<1>6. /\ \A r \in C : r.precedence = "code" /\ r \in S
      /\ \A r \in P : r.precedence = "project_spec" /\ r \in S
      /\ \A r \in S : r.precedence = "code" => r \in C
  BY DEF of_precedence
<1> HIDE DEF C, P
<1>7. CASE C = {}
  BY <1>1, <1>4, <1>5, <1>6, <1>7
<1>8. CASE C # {} /\ P # {} /\ strictest(P).gap > strictest(C).gap
  <2>1. resolve_precedence(S) = strictest(P)
    BY <1>5, <1>8
  <2>2. ASSUME NEW r \in C PROVE strictest(P).gap > r.gap
    BY <1>1, <1>2, <1>3, <1>4, <1>6, <1>8
  <2>3. strictest(P) \in S /\ strictest(P).gap \in Nat
    BY <1>2, <1>4, <1>6, <1>8
  <2>4. ASSUME NEW r \in S PROVE strictest(P).gap >= r.gap
    <3>1. r \in C => strictest(P).gap > r.gap
      BY <2>2
    <3>2. r \in P => strictest(P).gap >= r.gap
      BY <1>4
    <3> QED BY <1>1, <1>2, <2>3, <3>1, <3>2
  <2>5. ASSUME NEW r \in S, r.precedence = "code" PROVE strictest(P).gap > r.gap
    BY <1>6, <2>2, <2>5
  <2> QED BY <2>1, <2>3, <2>4, <2>5
<1>9. CASE C # {} /\ ~(P # {} /\ strictest(P).gap > strictest(C).gap)
  <2>1. resolve_precedence(S) = strictest(C)
    BY <1>5, <1>9
  <2>2. ASSUME NEW r \in P PROVE strictest(C).gap >= r.gap
    BY <1>1, <1>2, <1>3, <1>4, <1>6, <1>9
  <2> QED BY <1>1, <1>3, <1>6, <1>9, <2>1, <2>2
<1> QED BY <1>7, <1>8, <1>9

(* Where a rule matches, some rule is of the most specific tier.            *)
LEMMA TierIsFound ==
  ASSUME NEW S \in SUBSET AllRules, NEW a, NEW b, governed(S, a, b, "any")
  PROVE  /\ tier(S, a, b, "any") \in SUBSET AllRules /\ tier(S, a, b, "any") # {}
         /\ tier(S, a, b, "any") \subseteq matching(S, a, b, "any")
<1> DEFINE M == matching(S, a, b, "any")
<1>1. M \subseteq S /\ M # {}
  BY DEF matching, governed
<1>2. \A r \in M : specificity(r) \in Nat
  BY DEF specificity, wildcards
<1> DEFINE T == {specificity(r) : r \in M}
<1>3. T \subseteq Nat /\ T # {}
  BY <1>1, <1>2
<1>4. \E x \in T : \A y \in T : x <= y
  <2> HIDE DEF T
  <2> QED BY <1>3, NatMin
<1>5. PICK r \in M : \A s \in M : specificity(r) <= specificity(s)
  BY <1>4
<1> QED BY <1>1, <1>5 DEF tier

(* What find_applicable_rule returns where a rule matches.                  *)
LEMMA GoverningRule ==
  ASSUME NEW S \in SUBSET AllRules, NEW a, NEW b, governed(S, a, b, "any")
  PROVE  LET g == find_applicable_rule(S, a, b, "any") IN
         /\ g \in matching(S, a, b, "any") /\ g \in S /\ g.gap \in Nat
         /\ specificity(g) \in Nat
         /\ \A r \in matching(S, a, b, "any") :
              /\ specificity(g) <= specificity(r)
              /\ specificity(g) = specificity(r) =>
                   /\ g.gap >= r.gap
                   /\ g.precedence = "project_spec" /\ r.precedence = "code" => g.gap > r.gap
<1> DEFINE M == matching(S, a, b, "any")
           T == tier(S, a, b, "any")
<1>1. T \in SUBSET AllRules /\ T # {} /\ T \subseteq M
  BY TierIsFound
<1>2. \A r \in M : specificity(r) \in Nat
  BY DEF specificity, wildcards
<1>3. \A r \in T : \A s \in M : specificity(r) <= specificity(s)
  BY DEF tier
<1>4. ASSUME NEW r \in T, NEW s \in M, specificity(r) = specificity(s) PROVE s \in T
  BY <1>3, <1>4 DEF tier
<1>5. PICK g : g = find_applicable_rule(S, a, b, "any")
  OBVIOUS
<1>6. /\ g \in T
      /\ \A r \in T : g.gap >= r.gap
      /\ g.precedence = "project_spec" => \A r \in T : r.precedence = "code" => g.gap > r.gap
  BY <1>1, <1>5, PrecedenceIsAFloor DEF find_applicable_rule
<1>7. M \subseteq S
  BY DEF matching
<1>8. g \in M /\ g \in S /\ g.gap \in Nat
  BY <1>1, <1>6, <1>7, RuleBookAssumption DEF AllRules, Rules
<1> HIDE DEF M, T
<1> QED BY <1>1, <1>2, <1>3, <1>4, <1>5, <1>6, <1>8 DEF M

------------------------------------------------------------------------------
(* What a named person signed, by candidate, and what the columns say of it.*)
Signed(i) == \E k \in DOMAIN ledger :
  ledger[k].rule_id = Extracted[i].rule_id /\ ledger[k].to = "approved" /\ ledger[k].actor # BLANK

(* The inductive invariant: only the first candidate with an id is ever     *)
(* decided; what is approved, written or loaded was signed; the pad is the  *)
(* one the table and the model give.                                        *)
IInv ==
  /\ TypeOK
  /\ \A i \in Candidates : status[i] # "pending_approval" => by_id(Extracted[i].rule_id, i)
  /\ \A i \in Candidates : status[i] = "approved" => Signed(i)
  /\ \A i \in file : by_id(Extracted[i].rule_id, i) /\ Signed(i)
  /\ SignedRulesOnly
  /\ LedgerIsLastWord
  /\ pad = max_rule_gap(applicable_rules(book, present))

(* A candidate's rule is a rule.                                            *)
LEMMA ExtractedAreRules ==
  ASSUME NEW i \in Candidates
  PROVE  Extracted[i] \in AllRules /\ Extracted[i].rule_id \in Ids
<1>1. Extracted \in Seq(AllRules) /\ i \in DOMAIN Extracted
  BY RuleBookAssumption DEF Candidates
<1>2. Extracted[i] \in AllRules
  BY <1>1
<1> QED BY <1>2 DEF AllRules, Rules

(* The pad of a table is within what any table asks for.                    *)
LEMMA PadIsTyped ==
  ASSUME NEW S \in SUBSET AllRules
  PROVE  max_rule_gap(S) \in 0..MaxGap /\ \A r \in S : r.gap <= max_rule_gap(S)
<1>1. ASSUME NEW r \in S PROVE r.gap \in 1..MaxGap
  BY DEF AllRules, Rules
<1>2. CASE S = {}
  BY <1>2, RuleBookAssumption DEF max_rule_gap
<1>3. CASE S # {}
  <2>1. strictest(S) \in S /\ \A s \in S : outranks(strictest(S), s)
    BY <1>3, StrictestOutranks
  <2>2. \A s \in S : s.gap <= strictest(S).gap
    BY <1>1, <2>1 DEF outranks
  <2> QED BY <1>1, <1>3, <2>1, <2>2, RuleBookAssumption DEF max_rule_gap
<1> QED BY <1>2, <1>3

LEMMA InitHolds == Init => IInv
<1> SUFFICES ASSUME Init PROVE IInv
  OBVIOUS
<1>1. TypeOK
  BY RuleBookAssumption DEF Init, TypeOK, STATUS
<1>2. applicable_rules(book, present) = {}
  BY DEF Init, applicable_rules
<1>3. SignedRulesOnly /\ LedgerIsLastWord
  BY DEF Init, SignedRulesOnly, LedgerIsLastWord
<1> QED BY <1>1, <1>2, <1>3 DEF Init, IInv, max_rule_gap

(* A decision appends the row that says what the candidate now says, and    *)
(* leaves what was signed signed.                                           *)
LEMMA DecideKeeps ==
  ASSUME IInv, NEW i \in Candidates, NEW v \in {"approved", "rejected"}, NEW p \in Reviewers,
         Decide(i, v, p)
  PROVE  IInv'
<1> DEFINE row == [rule_id |-> Extracted[i].rule_id, to |-> v, actor |-> p]
<1>1. /\ p # BLANK /\ by_id(Extracted[i].rule_id, i)
      /\ status' = [status EXCEPT ![i] = v]
      /\ decided_by' = [decided_by EXCEPT ![i] = p]
      /\ ledger' = Append(ledger, row)
      /\ UNCHANGED <<file, book, present, pad>>
  BY DEF Decide, judged
<1>2. row \in Decision
  BY <1>1, ExtractedAreRules DEF Decision
<1>3. TypeOK'
  BY <1>1, <1>2 DEF IInv, TypeOK, STATUS
<1>4. /\ ledger \in Seq(Decision) /\ Len(ledger') = Len(ledger) + 1
      /\ DOMAIN ledger \subseteq DOMAIN ledger' /\ Len(ledger) + 1 \in DOMAIN ledger'
      /\ \A k \in DOMAIN ledger : ledger'[k] = ledger[k]
      /\ ledger'[Len(ledger) + 1] = row
  <2>1. ledger \in Seq(Decision)
    BY DEF IInv, TypeOK
  <2> HIDE DEF row
  <2> QED BY <1>1, <1>2, <2>1
<1>5. ASSUME NEW j \in Candidates, Signed(j) PROVE Signed(j)'
  BY <1>4, <1>5 DEF Signed
<1>6. \A j \in Candidates : status'[j] # "pending_approval" => by_id(Extracted[j].rule_id, j)
  BY <1>1 DEF IInv, TypeOK
<1>7. ASSUME NEW j \in Candidates, status'[j] = "approved" PROVE Signed(j)'
  <2>1. CASE j = i
    <3>1. v = "approved"
      BY <1>1, <1>7, <2>1 DEF IInv, TypeOK
    <3> QED BY <1>1, <1>4, <2>1, <3>1 DEF Signed
  <2>2. CASE j # i
    BY <1>1, <1>5, <1>7, <2>2 DEF IInv, TypeOK
  <2> QED BY <2>1, <2>2
<1>8. \A j \in file' : by_id(Extracted[j].rule_id, j) /\ Signed(j)'
  BY <1>1, <1>5 DEF IInv, TypeOK
<1>9. SignedRulesOnly'
  <2> SUFFICES ASSUME NEW r \in book PROVE signed(r)'
    BY <1>1 DEF SignedRulesOnly
  <2>1. signed(r)
    BY DEF IInv, SignedRulesOnly
  <2> QED BY <1>4, <2>1 DEF signed
<1>10. LedgerIsLastWord'
  <2> SUFFICES ASSUME NEW j \in Candidates, status'[j] # "pending_approval"
               PROVE  \E k \in DOMAIN ledger' :
                        /\ ledger'[k] = [rule_id |-> Extracted[j].rule_id, to |-> status'[j], actor |-> decided_by'[j]]
                        /\ \A l \in (k + 1)..Len(ledger') : ledger'[l].rule_id # Extracted[j].rule_id
    BY DEF LedgerIsLastWord
  <2>1. CASE j = i
    <3>1. status'[j] = v /\ decided_by'[j] = p
      BY <1>1, <2>1 DEF IInv, TypeOK
    <3> QED BY <1>4, <2>1, <3>1
  <2>2. CASE j # i
    <3>1. status'[j] = status[j] /\ decided_by'[j] = decided_by[j] /\ status[j] # "pending_approval"
      BY <1>1, <2>2 DEF IInv, TypeOK
    <3>2. by_id(Extracted[j].rule_id, j)
      BY <3>1 DEF IInv
    <3>3. Extracted[j].rule_id # Extracted[i].rule_id
      <4>1. i \in Nat \ {0} /\ j \in Nat \ {0} /\ (i < j \/ j < i)
        BY <2>2, RuleBookAssumption DEF Candidates
      <4> QED BY <1>1, <3>2, <4>1 DEF by_id
    <3>4. PICK k \in DOMAIN ledger :
            /\ ledger[k] = [rule_id |-> Extracted[j].rule_id, to |-> status[j], actor |-> decided_by[j]]
            /\ \A l \in (k + 1)..Len(ledger) : ledger[l].rule_id # Extracted[j].rule_id
      BY <3>1 DEF IInv, LedgerIsLastWord
    <3>5. ASSUME NEW l \in (k + 1)..Len(ledger') PROVE ledger'[l].rule_id # Extracted[j].rule_id
      <4>1. CASE l = Len(ledger) + 1
        BY <1>4, <3>3, <4>1
      <4>2. CASE l # Len(ledger) + 1
        BY <1>4, <3>4, <4>2
      <4> QED BY <4>1, <4>2
    <3> QED BY <1>4, <3>1, <3>4, <3>5
  <2> QED BY <2>1, <2>2
<1>11. (pad = max_rule_gap(applicable_rules(book, present)))'
  BY <1>1 DEF IInv
<1> QED BY <1>3, <1>6, <1>7, <1>8, <1>9, <1>10, <1>11 DEF IInv

LEMMA WriteKeeps ==
  ASSUME IInv, WriteRuleFile
  PROVE  IInv'
<1>1. file' = approved_rules /\ UNCHANGED <<status, decided_by, ledger, book, present, pad>>
  BY DEF WriteRuleFile, candidacy, judged
<1>2. TypeOK'
  BY <1>1 DEF IInv, TypeOK, approved_rules
<1>3. \A j \in Candidates : Signed(j) => Signed(j)'
  BY <1>1 DEF Signed
<1>4. \A j \in file' : by_id(Extracted[j].rule_id, j) /\ Signed(j)'
  BY <1>1, <1>3 DEF IInv, approved_rules
<1>5. SignedRulesOnly' /\ LedgerIsLastWord'
  BY <1>1 DEF IInv, SignedRulesOnly, signed, LedgerIsLastWord
<1> QED BY <1>1, <1>2, <1>3, <1>4, <1>5 DEF IInv

LEMMA IngestKeeps ==
  ASSUME IInv, NEW systems \in SUBSET Systems, Ingest(systems)
  PROVE  IInv'
<1>1. /\ book' = Shipped \cup written /\ present' = systems
      /\ pad' = max_rule_gap(applicable_rules(book', present'))
      /\ UNCHANGED <<status, decided_by, ledger, file>>
  BY DEF Ingest, candidacy
<1>2. written \in SUBSET AllRules
  BY ExtractedAreRules DEF written, IInv, TypeOK
<1>3. book' \in SUBSET AllRules
  BY <1>1, <1>2, RuleBookAssumption
<1>4. applicable_rules(book', present') \in SUBSET AllRules
  BY <1>3 DEF applicable_rules
<1>5. TypeOK'
  BY <1>1, <1>3, <1>4, PadIsTyped DEF IInv, TypeOK
<1>6. \A j \in Candidates : Signed(j) => Signed(j)'
  BY <1>1 DEF Signed
<1>7. SignedRulesOnly'
  <2> SUFFICES ASSUME NEW r \in book' PROVE signed(r)'
    BY DEF SignedRulesOnly
  <2>1. CASE r \in Shipped
    BY <2>1 DEF signed
  <2>2. CASE r \in written
    <3>1. PICK i \in file : r = Extracted[i]
      BY <2>2 DEF written
    <3>2. i \in Candidates /\ by_id(Extracted[i].rule_id, i) /\ Signed(i)
      BY DEF IInv, TypeOK
    <3> QED BY <1>1, <3>1, <3>2 DEF signed, Signed
  <2> QED BY <1>1, <2>1, <2>2
<1>8. LedgerIsLastWord'
  BY <1>1 DEF IInv, LedgerIsLastWord
<1>9. \A j \in file' : by_id(Extracted[j].rule_id, j) /\ Signed(j)'
  BY <1>1, <1>6 DEF IInv, TypeOK
<1>10. \A j \in Candidates : /\ status'[j] # "pending_approval" => by_id(Extracted[j].rule_id, j)
                             /\ status'[j] = "approved" => Signed(j)'
  BY <1>1, <1>6 DEF IInv
<1> QED BY <1>1, <1>5, <1>7, <1>8, <1>9, <1>10 DEF IInv

LEMMA Inductive == Spec => []IInv
<1>1. IInv /\ [Next]_vars => IInv'
  <2> SUFFICES ASSUME IInv, [Next]_vars PROVE IInv'
    OBVIOUS
  <2>1. ASSUME NEW i \in Candidates, NEW v \in {"approved", "rejected"}, NEW p \in Reviewers,
               Decide(i, v, p)
        PROVE  IInv'
    BY <2>1, DecideKeeps
  <2>2. CASE WriteRuleFile
    BY <2>2, WriteKeeps
  <2>3. ASSUME NEW systems \in SUBSET Systems, Ingest(systems) PROVE IInv'
    BY <2>3, IngestKeeps
  <2>4. CASE UNCHANGED vars
    <3>1. UNCHANGED <<status, decided_by, ledger, file, book, present, pad>>
      BY <2>4 DEF vars, candidacy, judged
    <3>2. TypeOK'
      BY <3>1 DEF IInv, TypeOK
    <3>3. \A j \in Candidates : Signed(j) => Signed(j)'
      BY <3>1 DEF Signed
    <3>4. SignedRulesOnly' /\ LedgerIsLastWord'
      BY <3>1 DEF IInv, SignedRulesOnly, signed, LedgerIsLastWord
    <3>5. \A j \in file' : by_id(Extracted[j].rule_id, j) /\ Signed(j)'
      BY <3>1, <3>3 DEF IInv, TypeOK
    <3>6. \A j \in Candidates : /\ status'[j] # "pending_approval" => by_id(Extracted[j].rule_id, j)
                                /\ status'[j] = "approved" => Signed(j)'
      BY <3>1, <3>3 DEF IInv
    <3>7. (pad = max_rule_gap(applicable_rules(book, present)))'
      BY <3>1 DEF IInv
    <3> QED BY <3>2, <3>4, <3>5, <3>6, <3>7 DEF IInv
  <2> QED BY <2>1, <2>2, <2>3, <2>4 DEF Next
<1> QED BY <1>1, InitHolds, PTL DEF Spec

------------------------------------------------------------------------------
(* The types hold: no pad is wider than the widest rule there can be.       *)
THEOREM RuleBookTypeCorrect == Spec => []TypeOK
<1>1. IInv => TypeOK
  BY DEF IInv
<1> QED BY <1>1, Inductive, PTL

(* No rule of the table came from a candidate nobody named signed for.      *)
THEOREM OnlySignedRulesAreLoaded == Spec => []SignedRulesOnly
<1>1. IInv => SignedRulesOnly
  BY DEF IInv
<1> QED BY <1>1, Inductive, PTL

(* The ledger's last row on a candidate agrees with its columns.            *)
THEOREM LedgerHasTheLastWord == Spec => []LedgerIsLastWord
<1>1. IInv => LedgerIsLastWord
  BY DEF IInv
<1> QED BY <1>1, Inductive, PTL

(* Within a tier, the code rules are a floor.                               *)
THEOREM CodeIsAFloor == Spec => []CodeStandsInItsTier
<1>1. TypeOK => CodeStandsInItsTier
  <2> SUFFICES ASSUME TypeOK, NEW a \in categories, NEW b \in categories, NEW r \in book,
                      r.precedence = "code", names(r, a, b), r.axis = "any"
               PROVE  LET g == find_applicable_rule(book, a, b, "any") IN
                      /\ governed(book, a, b, "any") /\ specificity(g) <= specificity(r)
                      /\ specificity(g) = specificity(r) =>
                           g.gap >= r.gap /\ (g.precedence = "project_spec" => g.gap > r.gap)
    BY DEF CodeStandsInItsTier
  <2>1. r \in matching(book, a, b, "any")
    BY DEF matching, matches_pair, side_matches, matches_axis, names
  <2>2. governed(book, a, b, "any")
    BY <2>1 DEF governed
  <2> QED BY <2>1, <2>2, GoverningRule DEF TypeOK
<1> QED BY <1>1, RuleBookTypeCorrect, PTL

(* The pass looks as far as every pair of the model needs.                  *)
THEOREM PadIsWideEnough == Spec => []PadLosesNoFinding
<1>1. IInv => PadLosesNoFinding
  <2> SUFFICES ASSUME IInv, \A r, s \in book : r.rule_id = s.rule_id => r = s,
                      NEW a \in categories, NEW b \in categories, governed(book, a, b, "any")
               PROVE  find_applicable_rule(book, a, b, "any").gap <= pad
    BY DEF PadLosesNoFinding
  <2>1. PICK g : g = find_applicable_rule(book, a, b, "any")
    OBVIOUS
  <2>2. g \in book /\ g \in matching(book, a, b, "any")
    BY <2>1, GoverningRule DEF IInv, TypeOK
  <2>3. g.system_a \in categories /\ g.system_b \in categories
    BY <2>2 DEF matching, matches_pair, side_matches, categories
  <2>4. ~absent(g, present)
    BY <2>3 DEF absent, categories
  <2>5. g \in applicable_rules(book, present)
    BY <2>2, <2>4 DEF applicable_rules, unreachable_rules
  <2>6. applicable_rules(book, present) \in SUBSET AllRules
    BY DEF IInv, TypeOK, applicable_rules
  <2> QED BY <2>1, <2>5, <2>6, PadIsTyped DEF IInv
<1> QED BY <1>1, Inductive, PTL

(* More rules never let a pair come closer, unless one of them is more      *)
(* specific to the pair than the rule that governed it.                     *)
THEOREM TablesOnlyTighten == Spec => NeverRelaxed
<1>1. TypeOK /\ TypeOK' =>
        (book \subseteq book' /\ present' = present =>
          \A a, b \in categories : governed(book, a, b, "any") =>
            LET old == find_applicable_rule(book, a, b, "any")
                new == find_applicable_rule(book', a, b, "any") IN
            new.gap >= old.gap \/ specificity(new) < specificity(old))
  <2> SUFFICES ASSUME TypeOK, TypeOK', book \subseteq book',
                      NEW a \in categories, NEW b \in categories, governed(book, a, b, "any")
               PROVE  LET old == find_applicable_rule(book, a, b, "any")
                          new == find_applicable_rule(book', a, b, "any") IN
                      new.gap >= old.gap \/ specificity(new) < specificity(old)
    OBVIOUS
  <2>1. PICK B : B = book'
    OBVIOUS
  <2>2. B \in SUBSET AllRules /\ book \in SUBSET AllRules
    BY <2>1 DEF TypeOK
  <2>3. matching(book, a, b, "any") \subseteq matching(B, a, b, "any")
    BY <2>1 DEF matching
  <2>4. governed(B, a, b, "any")
    BY <2>3 DEF governed
  <2>5. PICK old : old = find_applicable_rule(book, a, b, "any")
    OBVIOUS
  <2>6. PICK new : new = find_applicable_rule(B, a, b, "any")
    OBVIOUS
  <2>7. old \in matching(B, a, b, "any") /\ specificity(old) \in Nat /\ old.gap \in Nat
    BY <2>2, <2>3, <2>5, GoverningRule
  <2>8. /\ specificity(new) \in Nat /\ new.gap \in Nat
        /\ specificity(new) <= specificity(old)
        /\ specificity(new) = specificity(old) => new.gap >= old.gap
    BY <2>2, <2>4, <2>6, <2>7, GoverningRule
  <2> QED BY <2>1, <2>5, <2>6, <2>7, <2>8
<1> QED BY <1>1, RuleBookTypeCorrect, PTL DEF NeverRelaxed
==============================================================================
