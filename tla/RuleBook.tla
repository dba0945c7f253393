------------------------------ MODULE RuleBook -------------------------------
(***************************************************************************)
(* How a clearance rule reaches the table the building is judged by:       *)
(* candidates extracted from a specification (app/llm/rule_extraction) are *)
(* decided one at a time by a named reviewer (app/rules/approval), the     *)
(* approved ones are written out, and an ingest loads them after the       *)
(* shipped tables and judges the model with the result                     *)
(* (coordinator.load_project_rules, kit/engine.full_pass).                 *)
(***************************************************************************)
EXTENDS ClearanceRules, Sequences

CONSTANTS
  Systems,      \* the rule vocabulary
  Ids,          \* rule ids
  MaxGap,       \* the widest gap any table asks for, millimetres in steps
  Places,       \* positions of the longest table
  Shipped,      \* the kit's seed table and the public one
  Extracted,    \* the candidates' rules, in the order they were read
  Reviewers,    \* names a reviewer may give
  BLANK,        \* the empty name
  MaxDecisions  \* bound on decisions, so that the ledger is finite

Candidates == DOMAIN Extracted
AllRules == Rules(Systems, Ids, MaxGap, Places)

ASSUME RuleBookAssumption ==
  /\ MaxGap \in Nat \ {0} /\ Places \in Nat \ {0} /\ MaxDecisions \in Nat
  /\ WILDCARD \notin Systems
  /\ Extracted \in Seq(AllRules)
  /\ Shipped \in SUBSET {r \in AllRules : r.loads}
  /\ \A r, s \in Shipped \cup {Extracted[i] : i \in Candidates} : r.place = s.place => r = s
  /\ \A i \in Candidates : Extracted[i] \notin Shipped
  /\ \A i, j \in Candidates : Extracted[i] = Extracted[j] => i = j

STATUS == {"pending_approval", "approved", "rejected"}
Decision == [rule_id : Ids, to : {"approved", "rejected"}, actor : Reviewers \ {BLANK}]

VARIABLES
  status,    \* status[i]: of candidate i
  decided_by,\* its decider
  ledger,    \* the rule_candidate rows, in order
  file,      \* the candidates in the project's rule file
  book,      \* the table the last ingest judged with
  present,   \* the systems its model had
  pad        \* its pre-filter pad

candidacy == <<status, decided_by, ledger>>
judged == <<book, present, pad>>
vars == <<candidacy, file, judged>>

(* Everything arrives pending; nothing arrives applied.                     *)
Init ==
  /\ status = [i \in Candidates |-> "pending_approval"]
  /\ decided_by = [i \in Candidates |-> BLANK]
  /\ ledger = <<>>
  /\ file = {}
  /\ book = {} /\ present = {} /\ pad = 0

(* CandidateSet.by_id: the first with the id.                               *)
by_id(id, i) == Extracted[i].rule_id = id /\ \A j \in 1..(i - 1) : Extracted[j].rule_id # id

(* Mutant: the row is written for an approval only.                         *)
Decide_quietly(i, verdict, reviewer) ==
  /\ reviewer # BLANK /\ by_id(Extracted[i].rule_id, i)
  /\ Len(ledger) < MaxDecisions
  /\ status' = [status EXCEPT ![i] = verdict]
  /\ decided_by' = [decided_by EXCEPT ![i] = reviewer]
  /\ ledger' = IF verdict = "approved"
               THEN Append(ledger, [rule_id |-> Extracted[i].rule_id, to |-> verdict, actor |-> reviewer])
               ELSE ledger
  /\ UNCHANGED <<file, judged>>

(* Mutant: an anonymous decision is taken.                                  *)
Decide_blank(i, verdict, reviewer) ==
  /\ by_id(Extracted[i].rule_id, i)
  /\ Len(ledger) < MaxDecisions
  /\ status' = [status EXCEPT ![i] = verdict]
  /\ decided_by' = [decided_by EXCEPT ![i] = reviewer]
  /\ ledger' = Append(ledger, [rule_id |-> Extracted[i].rule_id, to |-> verdict, actor |-> reviewer])
  /\ UNCHANGED <<file, judged>>

(* decide: nothing stops a second decision on the same candidate.           *)
Decide(i, verdict, reviewer) ==
  /\ reviewer # BLANK /\ by_id(Extracted[i].rule_id, i)
  /\ Len(ledger) < MaxDecisions
  /\ status' = [status EXCEPT ![i] = verdict]
  /\ decided_by' = [decided_by EXCEPT ![i] = reviewer]
  /\ ledger' = Append(ledger, [rule_id |-> Extracted[i].rule_id, to |-> verdict, actor |-> reviewer])
  /\ UNCHANGED <<file, judged>>

(* Mutant: whatever was not rejected is written.                            *)
approved_rules_unrejected == {i \in Candidates : status[i] # "rejected"}

approved_rules == {i \in Candidates : status[i] = "approved"}

(* The project's rule file is replaced by the approved candidates.  No code *)
(* of the service does it: the tests write the file with json.dumps.        *)
WriteRuleFile ==
  /\ file # approved_rules
  /\ file' = approved_rules
  /\ UNCHANGED <<candidacy, judged>>

written == {Extracted[i] : i \in file}

(* load_project_rules, then full_pass.  One rule that does not parse raises *)
(* out of the load, and the ingest writes nothing.                          *)
Ingest(systems) ==
  LET rules == Shipped \cup written IN
  /\ \A r \in written : r.loads
  /\ book' = rules /\ present' = systems
  /\ pad' = max_rule_gap(applicable_rules(rules, systems))
  /\ UNCHANGED <<candidacy, file>>

Next ==
  \/ \E i \in Candidates, v \in {"approved", "rejected"}, p \in Reviewers : Decide(i, v, p)
  \/ WriteRuleFile
  \/ \E systems \in SUBSET Systems : Ingest(systems)

Spec == Init /\ [][Next]_vars

------------------------------------------------------------------------------
TypeOK ==
  /\ status \in [Candidates -> STATUS]
  /\ decided_by \in [Candidates -> Reviewers \cup {BLANK}]
  /\ ledger \in Seq(Decision)
  /\ file \in SUBSET Candidates
  /\ book \in SUBSET AllRules /\ present \in SUBSET Systems /\ pad \in 0..MaxGap

(* What the elements of the judged model are: a system it has, or none.     *)
categories == present \cup {WILDCARD}

(* A rule in the table is a shipped one, or the very candidate a named      *)
(* person approved: none gets there undecided (approval.py, "A candidate is *)
(* inert"), and the row that says who approved it stays in the ledger.      *)
signed(r) ==
  \/ r \in Shipped
  \/ \E i \in Candidates, k \in DOMAIN ledger :
       /\ Extracted[i] = r /\ by_id(r.rule_id, i)
       /\ ledger[k].rule_id = r.rule_id /\ ledger[k].to = "approved" /\ ledger[k].actor # BLANK
SignedRulesOnly == \A r \in book : signed(r)

(* The last row on a rule id says what the candidate's status says and who  *)
(* gave it, after any number of changes of mind.                            *)
LedgerIsLastWord ==
  \A i \in Candidates : status[i] # "pending_approval" =>
    \E k \in DOMAIN ledger :
      /\ ledger[k] = [rule_id |-> Extracted[i].rule_id, to |-> status[i], actor |-> decided_by[i]]
      /\ \A l \in (k + 1)..Len(ledger) : ledger[l].rule_id # Extracted[i].rule_id

(* Wherever a rule governs, no equally specific code rule that names the    *)
(* pair, in either order, asks for more, and a project rule governs only by *)
(* asking for more than all of them (clearance_rules.py, "PRECEDENCE").     *)
names(r, a, b) ==
  \E pair \in {<<a, b>>, <<b, a>>} :
    r.system_a \in {pair[1], WILDCARD} /\ r.system_b \in {pair[2], WILDCARD}
CodeStandsInItsTier ==
  \A a, b \in categories, r \in book :
    r.precedence = "code" /\ names(r, a, b) /\ r.axis = "any" =>
      LET g == find_applicable_rule(book, a, b, "any") IN
      /\ governed(book, a, b, "any") /\ specificity(g) <= specificity(r)
      /\ specificity(g) = specificity(r) =>
           g.gap >= r.gap /\ (g.precedence = "project_spec" => g.gap > r.gap)

(* The pass looks as far as any rule that governs a pair of the model asks, *)
(* so that no pair closer than its gap is left out (engine.py,              *)
(* max_rule_gap_m), as long as no two rules share an id.                    *)
PadLosesNoFinding ==
  (\A r, s \in book : r.rule_id = s.rule_id => r = s) =>
    \A a, b \in categories :
      governed(book, a, b, "any") => find_applicable_rule(book, a, b, "any").gap <= pad

(* A longer table never lowers what a pair has to keep, unless a rule more  *)
(* specific to that pair has come in.                                       *)
NeverRelaxed ==
  [][ book \subseteq book' /\ present' = present =>
      \A a, b \in categories : governed(book, a, b, "any") =>
        LET old == find_applicable_rule(book, a, b, "any")
            new == find_applicable_rule(book', a, b, "any") IN
        new.gap >= old.gap \/ specificity(new) < specificity(old) ]_vars

==============================================================================
