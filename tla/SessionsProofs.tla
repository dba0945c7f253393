--------------------------- MODULE SessionsProofs ----------------------------
(* What overlapping sessions can and cannot do to a row, for any sessions   *)
(* and clashes.  A session's copy is where the ledger says the row stood    *)
(* when it was read; so the ledger accounts for the column whatever         *)
(* overlapped, and a commit to a row nobody wrote since it was read         *)
(* continues the history and leaves the verdict its state claims.           *)
EXTENDS Sessions, FiniteSetTheorems, TLAPS

RowStates == ZONE_STATES \cup CLASH_STATES
States == RowStates \cup {"none"}
Event == [from : States, to : States, read : Nat, at : Nat]
LiveRow == [name : Nat, verdict : Verdicts]

Types ==
  /\ clock \in Nat
  /\ column \in [Rows -> RowStates]
  /\ live \in [Clashes -> LiveRow]
  /\ history \in [Rows -> Seq(Event)]
  /\ \A e \in Rows : Len(history[e]) > 0
  /\ pc \in [Sessions -> {"idle", "zone", "clashes", "ready", "done"}]
  /\ work \in [Sessions -> Work]
  /\ read \in [Sessions -> [Rows -> Nat]]
  /\ copy \in [Sessions -> [Rows -> States]]
  /\ proposal \in [Sessions -> [Clashes -> LiveRow]]

(* The session has read the row.                                            *)
holds(s, e) == pc[s] \in {"clashes", "ready"} \/ (pc[s] = "zone" /\ e = Zone)

(* Nobody has written the row since.                                        *)
fresh(s, e) == \A i \in DOMAIN history[e] : history[e][i].at <= read[s][e]

Dated ==
  /\ \A e \in Rows : \A i \in DOMAIN history[e] :
       history[e][i].at <= clock /\ history[e][i].read <= clock
  /\ \A s \in Sessions, e \in Rows : read[s][e] <= clock

Held == \A s \in Sessions, e \in Rows : holds(s, e) => stoodAt(e, copy[s][e], read[s][e])

FreshProposals ==
  \A s \in Sessions, c \in Clashes : pc[s] = "ready" /\ fresh(s, c) => proposal[s][c] = live[c]

(* Nobody committed to the row between a session's read and its commit.     *)
unlapped(e) == \A i \in DOMAIN history[e] : clean(e, i)

(* Then its history is one unbroken chain that ends at its column.          *)
Chain(e) ==
  /\ \A i \in 2..Len(history[e]) : history[e][i].from = history[e][i - 1].to
  /\ column[e] = Last(history[e]).to
HistoryIsAChain == \A e \in Rows : unlapped(e) => Chain(e)

(* A zone ends a session settled, a clash past its approval; commits are    *)
(* counted by the sessions that are done.                                   *)
Settled ==
  /\ column[Zone] \in ZONE_STATES \ {"active"}
  /\ \A c \in Clashes : column[c] \in CLASH_STATES \ {"approved"}
Counted == clock <= Cardinality({s \in Sessions : pc[s] = "done"})

IInv ==
  /\ Types /\ Dated /\ Held /\ FreshProposals
  /\ LedgerAccountsForColumn /\ HistoryIsAChain /\ MergedOnAcceptance
  /\ Settled /\ Counted

------------------------------------------------------------------------------
(* A row taken through several states ends with a change, one that the      *)
(* column is written for.                                                   *)
Changing(s, e, to) ==
  Len(to) > 1 => to[Len(to) - 1] # to[Len(to)] /\ (e = Zone \/ to[Len(to)] # copy[s][e])

(* What every plan keeps to: rows go through states of theirs, a clash is   *)
(* merged right after its approval, and a proposal is touched only with its *)
(* clash.                                                                   *)
Sound(s, p) ==
  /\ p.to \in [Rows -> Seq(RowStates)]
  /\ \A e \in Rows : Changing(s, e, p.to[e])
  /\ Len(p.to[Zone]) > 0 => p.to[Zone][Len(p.to[Zone])] \in ZONE_STATES \ {"active"}
  /\ \A c \in Clashes :
       /\ Len(p.to[c]) > 0 => p.to[c][Len(p.to[c])] \in CLASH_STATES \ {"approved"}
       /\ c \in DOMAIN p.added => Len(p.to[c]) > 0 /\ p.added[c] \in Verdicts
       /\ c \in DOMAIN p.judged => Len(p.to[c]) > 0 /\ p.judged[c] \in Verdicts

(* The verdict the clash's live proposal has after the session, if the      *)
(* proposal that was read is still the live one.                            *)
verdictAfter(s, p, c) ==
  IF c \in DOMAIN p.added THEN p.added[c]
  ELSE IF c \in DOMAIN p.judged THEN p.judged[c] ELSE proposal[s][c].verdict

(* ... and what the state it leaves claims of that verdict.                 *)
Claims(s, p) ==
  \A c \in Clashes : Len(p.to[c]) > 0 =>
    LET state == p.to[c][Len(p.to[c])] IN
    /\ state \in Accepted => verdictAfter(s, p, c) = state
    /\ state = "merged" => /\ Len(p.to[c]) = 2 /\ copy[s][c] \in Accepted
                           /\ c \notin DOMAIN p.added \cup DOMAIN p.judged

LEMMA ZoneIsNoClash == Zone \notin Clashes /\ Zone \in Rows /\ Clashes \subseteq Rows
BY SessionsAssumption DEF Rows

LEMMA Passages ==
  /\ <<>> \in Seq(RowStates) /\ Len(<<>>) = 0 /\ DOMAIN <<>> = {}
  /\ \A x \in RowStates : <<x>> \in Seq(RowStates) /\ Len(<<x>>) = 1 /\ <<x>>[1] = x
  /\ \A x, y \in RowStates :
       <<x, y>> \in Seq(RowStates) /\ Len(<<x, y>>) = 2 /\ <<x, y>>[1] = x /\ <<x, y>>[2] = y
OBVIOUS

LEMMA Vocabulary ==
  /\ Accepted \subseteq CLASH_STATES \ {"approved", "merged"} /\ Accepted \subseteq Verdicts
  /\ {"open", "proposed", "escalated", "resolved", "regressed"} \subseteq CLASH_STATES \ ({"approved", "merged"} \cup Accepted)
  /\ {"rejected", "escalated"} \subseteq Verdicts \ Accepted
  /\ {"approved", "merged"} \subseteq CLASH_STATES \ Accepted
  /\ {"queued", "awaiting_review", "merged"} \subseteq ZONE_STATES \ {"active"} /\ "active" \in ZONE_STATES
  /\ "approved" # "merged" /\ "queued" # "awaiting_review"
BY DEF Accepted, CLASH_STATES, Verdicts, ZONE_STATES

(* The forms the plans come in.                                             *)
Shape(s, p) ==
  /\ p.to = [e \in Rows |-> p.to[e]]
  /\ \/ p.to[Zone] = <<>>
     \/ \E x \in {"queued", "awaiting_review", "merged"} : p.to[Zone] = <<x>>
     \/ p.to[Zone] = <<"active", "awaiting_review">>
  /\ \A c \in Clashes :
       /\ c \in DOMAIN p.added => p.added[c] \in Verdicts
       /\ c \in DOMAIN p.judged => p.judged[c] \in Verdicts
       /\ \/ p.to[c] = <<>> /\ c \notin DOMAIN p.added \cup DOMAIN p.judged
          \/ \E x \in {"open", "proposed", "escalated", "resolved", "regressed"} : p.to[c] = <<x>>
          \/ /\ verdictAfter(s, p, c) \in Accepted
             /\ p.to[c] = <<verdictAfter(s, p, c)>>
          \/ /\ p.to[c] = <<"approved", "merged">> /\ copy[s][c] \in Accepted
             /\ c \notin DOMAIN p.added \cup DOMAIN p.judged

LEMMA ShapeIsSound ==
  ASSUME NEW s \in Sessions, NEW p, Shape(s, p) PROVE Sound(s, p) /\ Claims(s, p)
<1>1. /\ p.to[Zone] \in Seq(RowStates) /\ Changing(s, Zone, p.to[Zone])
      /\ Len(p.to[Zone]) > 0 => p.to[Zone][Len(p.to[Zone])] \in ZONE_STATES \ {"active"}
  <2>1. CASE p.to[Zone] = <<>> BY <2>1, Passages DEF Changing
  <2>2. CASE \E x \in {"queued", "awaiting_review", "merged"} : p.to[Zone] = <<x>>
    BY <2>2, Passages, Vocabulary DEF RowStates, Changing
  <2>3. CASE p.to[Zone] = <<"active", "awaiting_review">>
    BY <2>3, Passages, Vocabulary DEF RowStates, Changing
  <2> QED BY <2>1, <2>2, <2>3 DEF Shape
<1>2. ASSUME NEW c \in Clashes
      PROVE  /\ p.to[c] \in Seq(RowStates) /\ Changing(s, c, p.to[c])
             /\ Len(p.to[c]) > 0 => p.to[c][Len(p.to[c])] \in CLASH_STATES \ {"approved"}
             /\ c \in DOMAIN p.added \cup DOMAIN p.judged => Len(p.to[c]) > 0
             /\ Len(p.to[c]) > 0 =>
                  /\ p.to[c][Len(p.to[c])] \in Accepted =>
                       verdictAfter(s, p, c) = p.to[c][Len(p.to[c])]
                  /\ p.to[c][Len(p.to[c])] = "merged" =>
                       /\ Len(p.to[c]) = 2 /\ copy[s][c] \in Accepted
                       /\ c \notin DOMAIN p.added \cup DOMAIN p.judged
  <2>1. CASE p.to[c] = <<>> /\ c \notin DOMAIN p.added \cup DOMAIN p.judged
    BY <2>1, Passages DEF Changing
  <2>2. CASE \E x \in {"open", "proposed", "escalated", "resolved", "regressed"} : p.to[c] = <<x>>
    BY <2>2, Passages, Vocabulary DEF RowStates, Changing
  <2>3. CASE verdictAfter(s, p, c) \in Accepted /\ p.to[c] = <<verdictAfter(s, p, c)>>
    <3> DEFINE x == verdictAfter(s, p, c)
    <3>1. x \in RowStates /\ x \in CLASH_STATES \ {"approved", "merged"}
      BY <2>3, Vocabulary DEF RowStates
    <3> HIDE DEF x
    <3>2. p.to[c] = <<x>> BY <2>3 DEF x
    <3>3. p.to[c] \in Seq(RowStates) /\ Len(p.to[c]) = 1 /\ p.to[c][1] = x
      BY <3>1, <3>2, Passages
    <3> QED BY <3>1, <3>3 DEF x, Changing
  <2>4. CASE /\ p.to[c] = <<"approved", "merged">> /\ copy[s][c] \in Accepted
             /\ c \notin DOMAIN p.added \cup DOMAIN p.judged
    BY <2>4, Passages, Vocabulary DEF RowStates, Changing
  <2> QED BY <2>1, <2>2, <2>3, <2>4 DEF Shape
<1>3. p.to \in [Rows -> Seq(RowStates)]
  <2>1. \A e \in Rows : p.to[e] \in Seq(RowStates) BY <1>1, <1>2 DEF Rows
  <2> QED BY <2>1 DEF Shape
<1>6. \A e \in Rows : Changing(s, e, p.to[e]) BY <1>1, <1>2 DEF Rows
<1>4. Sound(s, p) BY <1>6, <1>1, <1>2, <1>3 DEF Sound, Shape
<1>5. Claims(s, p) BY <1>2 DEF Claims
<1> QED BY <1>4, <1>5

LEMMA StateOfAVerdict ==
  ASSUME NEW v PROVE IF v \in Accepted THEN stateOf(v) = v ELSE stateOf(v) = "escalated"
BY DEF stateOf

LEMMA ResolvesHaveShape == ASSUME NEW s \in Sessions, NEW p \in resolves(s) PROVE Shape(s, p)
<1>1. PICK v \in [found(s, {"open", "proposed"}) -> Accepted \cup {"escalated"}] :
        p = plan([e \in Rows |-> IF e = Zone THEN <<"active", "awaiting_review">>
                        ELSE IF e \notin DOMAIN v THEN <<>>
                        ELSE IF e \in Shared /\ v[e] \in Accepted THEN <<"proposed">>
                        ELSE <<stateOf(v[e])>>], v, <<>>)
  BY DEF resolves
<1>2. p.added = v /\ DOMAIN p.judged = {} BY <1>1, Passages DEF plan
<1>3. p.to[Zone] = <<"active", "awaiting_review">> BY <1>1, ZoneIsNoClash DEF plan
<1>4. \A c \in DOMAIN v : v[c] \in Verdicts BY Vocabulary
<1>5. ASSUME NEW c \in Clashes
      PROVE  \/ p.to[c] = <<>> /\ c \notin DOMAIN v
             \/ \E x \in {"open", "proposed", "escalated", "resolved", "regressed"} : p.to[c] = <<x>>
             \/ c \in DOMAIN v /\ v[c] \in Accepted /\ p.to[c] = <<v[c]>>
  BY <1>1, ZoneIsNoClash, StateOfAVerdict DEF plan
<1>6. p.to = [e \in Rows |-> p.to[e]] BY <1>1 DEF plan
<1> QED BY <1>2, <1>3, <1>4, <1>5, <1>6 DEF Shape, verdictAfter

LEMMA ArbitratesHaveShape == ASSUME NEW s \in Sessions, NEW p \in arbitrates(s) PROVE Shape(s, p)
<1>1. PICK v \in UNION {[{c} -> Accepted \cup {"rejected"}] : c \in proposed(s) \cap Shared} :
        p = plan([e \in Rows |-> IF e \in DOMAIN v THEN <<stateOf(v[e])>> ELSE <<>>], <<>>, v)
  BY DEF arbitrates
<1>0. PICK d \in Clashes : v \in [{d} -> Accepted \cup {"rejected"}] BY DEF proposed
<1>2. DOMAIN p.added = {} /\ p.judged = v BY <1>1, Passages DEF plan
<1>3. p.to[Zone] = <<>> BY <1>0, <1>1, ZoneIsNoClash DEF plan
<1>4. \A c \in DOMAIN v : v[c] \in Verdicts BY <1>0, Vocabulary
<1>5. ASSUME NEW c \in Clashes
      PROVE  \/ p.to[c] = <<>> /\ c \notin DOMAIN v
             \/ \E x \in {"open", "proposed", "escalated", "resolved", "regressed"} : p.to[c] = <<x>>
             \/ c \in DOMAIN v /\ v[c] \in Accepted /\ p.to[c] = <<v[c]>>
  BY <1>0, <1>1, ZoneIsNoClash, StateOfAVerdict DEF plan
<1>6. p.to = [e \in Rows |-> p.to[e]] BY <1>1 DEF plan
<1> QED BY <1>0, <1>2, <1>3, <1>4, <1>5, <1>6 DEF Shape, verdictAfter

LEMMA RebasesHaveShape == ASSUME NEW s \in Sessions, NEW p \in rebases(s) PROVE Shape(s, p)
<1>1. PICK bad \in SUBSET (found(s, Accepted) \cap proposed(s)) :
        p = plan([e \in Rows |-> IF e \in bad THEN <<"proposed">>
              ELSE IF e = Zone /\ bad # {} /\ copy[s][Zone] # "queued" THEN <<"queued">>
              ELSE <<>>], <<>>, [c \in bad |-> "rejected"])
  BY DEF rebases
<1>2. DOMAIN p.added = {} /\ p.judged = [c \in bad |-> "rejected"] BY <1>1, Passages DEF plan
<1>3. p.to[Zone] = <<>> \/ p.to[Zone] = <<"queued">>
  BY <1>1, ZoneIsNoClash DEF plan, proposed
<1>4. "rejected" \in Verdicts BY Vocabulary
<1>5. ASSUME NEW c \in Clashes
      PROVE  (p.to[c] = <<>> /\ c \notin bad) \/ (p.to[c] = <<"proposed">> /\ c \in bad)
  BY <1>1, ZoneIsNoClash DEF plan
<1>6. p.to = [e \in Rows |-> p.to[e]] BY <1>1 DEF plan
<1> QED BY <1>2, <1>3, <1>4, <1>5, <1>6 DEF Shape

LEMMA ApprovesHaveShape == ASSUME NEW s \in Sessions, NEW p \in approves(s) PROVE Shape(s, p)
<1>1. DOMAIN p.added = {} /\ DOMAIN p.judged = {} BY Passages DEF approves, plan
<1>2. p.to[Zone] = <<"merged">> BY ZoneIsNoClash DEF approves, plan
<1>3. ASSUME NEW c \in Clashes
      PROVE  p.to[c] = <<>> \/ (p.to[c] = <<"approved", "merged">> /\ copy[s][c] \in Accepted)
  BY ZoneIsNoClash DEF approves, plan
<1>4. p.to = [e \in Rows |-> p.to[e]] BY DEF approves, plan
<1> QED BY <1>1, <1>2, <1>3, <1>4 DEF Shape

LEMMA RejectsHaveShape == ASSUME NEW s \in Sessions, NEW p \in rejects(s) PROVE Shape(s, p)
<1>1. DOMAIN p.added = {} /\ DOMAIN p.judged = {} BY Passages DEF rejects, plan
<1>2. p.to[Zone] = <<"queued">> BY ZoneIsNoClash DEF rejects, plan
<1>3. ASSUME NEW c \in Clashes PROVE p.to[c] = <<>> \/ p.to[c] = <<"open">>
  BY ZoneIsNoClash DEF rejects, plan
<1>4. p.to = [e \in Rows |-> p.to[e]] BY DEF rejects, plan
<1> QED BY <1>1, <1>2, <1>3, <1>4 DEF Shape

LEMMA EditsHaveShape == ASSUME NEW s \in Sessions, NEW p \in edits(s) PROVE Shape(s, p)
<1>1. PICK v \in UNION {[cs -> Accepted \cup {"rejected"}] : cs \in (SUBSET proposed(s)) \ {{}}} :
        p = plan([e \in Rows |-> IF e \in DOMAIN v THEN <<stateOf(v[e])>>
                        ELSE IF e = Zone /\ copy[s][Zone] # "awaiting_review"
                        THEN <<"awaiting_review">> ELSE <<>>], v, <<>>)
  BY DEF edits
<1>0. PICK cs \in SUBSET proposed(s) : v \in [cs -> Accepted \cup {"rejected"}] OBVIOUS
<1>2. p.added = v /\ DOMAIN p.judged = {} BY <1>1, Passages DEF plan
<1>3. p.to[Zone] = <<>> \/ p.to[Zone] = <<"awaiting_review">>
  BY <1>0, <1>1, ZoneIsNoClash DEF plan, proposed
<1>4. \A c \in DOMAIN v : v[c] \in Verdicts BY <1>0, Vocabulary
<1>5. ASSUME NEW c \in Clashes
      PROVE  \/ p.to[c] = <<>> /\ c \notin DOMAIN v
             \/ \E x \in {"open", "proposed", "escalated", "resolved", "regressed"} : p.to[c] = <<x>>
             \/ c \in DOMAIN v /\ v[c] \in Accepted /\ p.to[c] = <<v[c]>>
  BY <1>0, <1>1, ZoneIsNoClash, StateOfAVerdict DEF plan
<1>6. p.to = [e \in Rows |-> p.to[e]] BY <1>1 DEF plan
<1> QED BY <1>0, <1>2, <1>3, <1>4, <1>5, <1>6 DEF Shape, verdictAfter

LEMMA DiffsHaveShape == ASSUME NEW s \in Sessions, NEW p \in diffs(s) PROVE Shape(s, p)
<1>1. PICK v \in UNION {[cs -> {"resolved", "regressed"}] : cs \in SUBSET Clashes} :
        p = plan([e \in Rows |->
              IF e \in DOMAIN v /\ v[e] # copy[s][e] THEN <<v[e]>> ELSE <<>>], <<>>, <<>>)
  BY DEF diffs
<1>0. PICK cs \in SUBSET Clashes : v \in [cs -> {"resolved", "regressed"}] OBVIOUS
<1>2. DOMAIN p.added = {} /\ DOMAIN p.judged = {} BY <1>1, Passages DEF plan
<1>3. p.to[Zone] = <<>> BY <1>0, <1>1, ZoneIsNoClash DEF plan
<1>5. ASSUME NEW c \in Clashes
      PROVE  p.to[c] = <<>> \/ p.to[c] = <<"resolved">> \/ p.to[c] = <<"regressed">>
  BY <1>0, <1>1, ZoneIsNoClash DEF plan
<1>6. p.to = [e \in Rows |-> p.to[e]] BY <1>1 DEF plan
<1> QED BY <1>2, <1>3, <1>5, <1>6 DEF Shape

LEMMA PlansAreSound ==
  ASSUME NEW s \in Sessions, work[s] \in Work, NEW p \in plans(s)
  PROVE  Sound(s, p) /\ Claims(s, p)
<1>1. p \in resolves(s) \cup arbitrates(s) \cup rebases(s) \cup approves(s) \cup rejects(s) \cup edits(s)
             \cup diffs(s)
  BY DEF plans, Work
<1>2. Shape(s, p)
  BY <1>1, ResolvesHaveShape, ArbitratesHaveShape, RebasesHaveShape, ApprovesHaveShape,
     RejectsHaveShape, EditsHaveShape, DiffsHaveShape
<1> QED BY <1>2, ShapeIsSound

------------------------------------------------------------------------------
LEMMA TransitionsContinue ==
  ASSUME Types, NEW s \in Sessions, NEW e \in Rows, NEW to \in Seq(RowStates)
  PROVE  /\ transitions(s, e, to) \in Seq(Event) /\ Len(transitions(s, e, to)) = Len(to)
         /\ \A i \in 1..Len(to) :
              /\ transitions(s, e, to)[i].at = clock + 1
              /\ transitions(s, e, to)[i].read = read[s][e]
              /\ transitions(s, e, to)[i].to = to[i]
              /\ transitions(s, e, to)[i].from = IF i = 1 THEN copy[s][e] ELSE to[i - 1]
<1> DEFINE t == transitions(s, e, to)
<1>1. /\ clock + 1 \in Nat /\ read[s][e] \in Nat /\ copy[s][e] \in States
      /\ Len(to) \in Nat /\ DOMAIN to = 1..Len(to)
      /\ \A i \in 1..Len(to) : to[i] \in States
      /\ \A i \in 1..Len(to) : i # 1 => to[i - 1] \in States
  BY DEF Types, States
<1>2. t = [i \in 1..Len(to) |->
            event(IF i = 1 THEN copy[s][e] ELSE to[i - 1], to[i], read[s][e], clock + 1)]
  BY <1>1 DEF transitions
<1>3. \A i \in 1..Len(to) : t[i] \in Event BY <1>1, <1>2 DEF event, Event
<1>4. t \in [1..Len(to) -> Event] BY <1>2, <1>3
<1>5. t \in Seq(Event) /\ Len(t) = Len(to) BY <1>1, <1>4
<1>6. \A i \in 1..Len(to) :
        /\ t[i].at = clock + 1 /\ t[i].read = read[s][e] /\ t[i].to = to[i]
        /\ t[i].from = IF i = 1 THEN copy[s][e] ELSE to[i - 1]
  BY <1>2 DEF event
<1> QED BY <1>5, <1>6

LEMMA Appending ==
  ASSUME NEW h \in Seq(Event), NEW t \in Seq(Event), NEW g, g = h \o t
  PROVE  /\ g \in Seq(Event) /\ Len(g) = Len(h) + Len(t)
         /\ \A i \in 1..Len(h) : g[i] = h[i]
         /\ \A i \in 1..Len(t) : g[Len(h) + i] = t[i]
         /\ \A k \in (Len(h) + 1)..(Len(h) + Len(t)) :
              k - Len(h) \in 1..Len(t) /\ g[k] = t[k - Len(h)]
OBVIOUS

(* stoodAt, of a history on its own.                                        *)
Stood(h, x, t) ==
  \E i \in DOMAIN h :
    /\ h[i].at <= t /\ h[i].from # h[i].to /\ h[i].to = x
    /\ \A k \in DOMAIN h : k > i /\ h[k].at <= t => h[k].from = h[k].to

LEMMA StoodOnce ==
  ASSUME NEW h \in Seq(Event), NEW x, NEW y, NEW t, Stood(h, x, t), Stood(h, y, t) PROVE x = y
<1>1. PICK i \in DOMAIN h :
        /\ h[i].at <= t /\ h[i].from # h[i].to /\ h[i].to = x
        /\ \A k \in DOMAIN h : k > i /\ h[k].at <= t => h[k].from = h[k].to
  BY DEF Stood
<1>2. PICK j \in DOMAIN h :
        /\ h[j].at <= t /\ h[j].from # h[j].to /\ h[j].to = y
        /\ \A k \in DOMAIN h : k > j /\ h[k].at <= t => h[k].from = h[k].to
  BY DEF Stood
<1>3. i \in Int /\ j \in Int OBVIOUS
<1>4. ~(j > i) /\ ~(i > j) BY <1>1, <1>2
<1>5. i = j BY ONLY <1>3, <1>4
<1> QED BY <1>1, <1>2, <1>5

(* Ledger rows dated after t do not change where the row stood at t.        *)
LEMMA StoodStill ==
  ASSUME NEW h, NEW g, NEW t \in Nat, NEW u \in Nat, t <= u,
         DOMAIN h \subseteq DOMAIN g, \A i \in DOMAIN h : g[i] = h[i],
         \A i \in DOMAIN g : i \in DOMAIN h \/ ~(g[i].at <= u),
         \A i \in DOMAIN h : h[i].at \in Nat,
         u = t \/ \A i \in DOMAIN h : h[i].at <= t,
         NEW x, Stood(h, x, t)
  PROVE  Stood(g, x, u)
<1>1. PICK i \in DOMAIN h :
        /\ h[i].at <= t /\ h[i].from # h[i].to /\ h[i].to = x
        /\ \A k \in DOMAIN h : k > i /\ h[k].at <= t => h[k].from = h[k].to
  BY DEF Stood
<1>2. i \in DOMAIN g /\ g[i] = h[i] /\ h[i].at \in Nat /\ h[i].at <= u BY <1>1
<1>3. ASSUME NEW k \in DOMAIN g, k > i, g[k].at <= u PROVE g[k].from = g[k].to
  <2>1. k \in DOMAIN h /\ g[k] = h[k] BY <1>3
  <2>2. h[k].at <= t BY <1>3, <2>1
  <2> QED BY <1>1, <1>3, <2>1, <2>2
<1> QED BY <1>1, <1>2, <1>3 DEF Stood

(* A session that read a row after its last commit holds what the row is.   *)
LEMMA FreshIsCurrent ==
  ASSUME IInv, NEW s \in Sessions, NEW e \in Rows, holds(s, e), fresh(s, e)
  PROVE  copy[s][e] = column[e]
<1> PICK h : h = history[e] OBVIOUS
<1>1. /\ h \in Seq(Event) /\ clock \in Nat /\ read[s][e] \in Nat /\ read[s][e] <= clock
      /\ \A i \in DOMAIN h : h[i].at \in Nat
  <2>1. h \in Seq(Event) BY DEF IInv, Types
  <2>2. \A i \in DOMAIN h : h[i] \in Event BY <2>1
  <2> QED BY <2>1, <2>2 DEF IInv, Types, Dated, Event
<1>2. Stood(h, copy[s][e], read[s][e]) BY DEF IInv, Held, stoodAt, Stood
<1>3. \A i \in DOMAIN h : h[i].at <= read[s][e] BY DEF fresh
<1>4. Stood(h, copy[s][e], clock) BY <1>1, <1>2, <1>3, StoodStill
<1>5. Stood(h, column[e], clock) BY DEF IInv, LedgerAccountsForColumn, stoodAt, Stood
<1> QED BY <1>1, <1>4, <1>5, StoodOnce

(* A row's history g after a session's commit at now + 1: the m ledger rows *)
(* of its plan for the row, to, behind the n rows of the history h it had.  *)
(* The session read the row in the state cp when the clock was r.           *)
Grows(h, g, n, m, to, cp, r, now) ==
  /\ n \in Nat /\ n > 0 /\ m \in Nat /\ now \in Nat /\ r \in Nat /\ r <= now
  /\ DOMAIN h = 1..n /\ DOMAIN g = 1..(n + m)
  /\ \A i \in 1..n : /\ g[i] = h[i] /\ h[i].at \in Nat /\ h[i].at <= now
                     /\ h[i].read \in Nat /\ h[i].read <= now
  /\ \A i \in (n + 1)..(n + m) :
       /\ i - n \in 1..m
       /\ g[i].at = now + 1 /\ g[i].read = r /\ g[i].to = to[i - n]
       /\ g[i].from = IF i - n = 1 THEN cp ELSE to[i - n - 1]

LEMMA CommitGrows ==
  ASSUME Types, Dated, NEW s \in Sessions, NEW e \in Rows, NEW to \in Seq(RowStates),
         NEW g, g = history[e] \o transitions(s, e, to)
  PROVE  /\ g \in Seq(Event) /\ Len(g) = Len(history[e]) + Len(to) /\ Len(g) > 0
         /\ Len(to) = 0 => g = history[e]
         /\ Grows(history[e], g, Len(history[e]), Len(to), to, copy[s][e], read[s][e], clock)
<1> PICK h : h = history[e] OBVIOUS
<1> PICK t : t = transitions(s, e, to) OBVIOUS
<1>1. clock \in Nat /\ read[s][e] \in Nat /\ read[s][e] <= clock BY DEF Types, Dated
<1>2. h \in Seq(Event) /\ Len(h) > 0 BY DEF Types
<1>3. Len(h) \in Nat /\ DOMAIN h = 1..Len(h) BY <1>2
<1>4. t \in Seq(Event) /\ Len(t) = Len(to) BY TransitionsContinue
<1>5. \A i \in 1..Len(h) : /\ h[i].at \in Nat /\ h[i].at <= clock
                           /\ h[i].read \in Nat /\ h[i].read <= clock
  <2>1. \A i \in 1..Len(h) : h[i] \in Event BY <1>2
  <2>2. \A i \in 1..Len(h) : h[i].at \in Nat /\ h[i].read \in Nat BY <2>1 DEF Event
  <2> QED BY <1>3, <2>2 DEF Dated
<1>6. \A i \in 1..Len(to) :
        /\ t[i].at = clock + 1 /\ t[i].read = read[s][e] /\ t[i].to = to[i]
        /\ t[i].from = IF i = 1 THEN copy[s][e] ELSE to[i - 1]
  BY TransitionsContinue
<1>7. h \in Seq(Event) /\ t \in Seq(Event) /\ g = h \o t BY <1>2, <1>4
<1>8. /\ g \in Seq(Event) /\ Len(g) = Len(h) + Len(t)
      /\ \A i \in 1..Len(h) : g[i] = h[i]
      /\ \A k \in (Len(h) + 1)..(Len(h) + Len(t)) :
           k - Len(h) \in 1..Len(t) /\ g[k] = t[k - Len(h)]
  BY <1>7, Appending
<1>9. DOMAIN g = 1..Len(g) BY <1>8
<1>10. Len(to) \in Nat OBVIOUS
<1>11. ASSUME NEW i \in (Len(h) + 1)..(Len(h) + Len(to))
       PROVE  /\ i - Len(h) \in 1..Len(to)
              /\ g[i].at = clock + 1 /\ g[i].read = read[s][e] /\ g[i].to = to[i - Len(h)]
              /\ g[i].from = IF i - Len(h) = 1 THEN copy[s][e] ELSE to[i - Len(h) - 1]
  <2> PICK j : j = i - Len(h) OBVIOUS
  <2>1. j \in 1..Len(to) /\ g[i] = t[j] BY <1>4, <1>8
  <2>2. /\ t[j].at = clock + 1 /\ t[j].read = read[s][e] /\ t[j].to = to[j]
        /\ t[j].from = IF j = 1 THEN copy[s][e] ELSE to[j - 1]
    BY <2>1, <1>6
  <2> QED BY <2>1, <2>2
<1>12. ASSUME Len(to) = 0 PROVE g = h
  <2>1. t = <<>> BY <1>4, <1>12
  <2> QED BY <2>1, <1>7
<1>13. Grows(h, g, Len(h), Len(to), to, copy[s][e], read[s][e], clock)
  BY <1>1, <1>2, <1>3, <1>4, <1>5, <1>8, <1>9, <1>10, <1>11 DEF Grows
<1>14. Len(g) = Len(h) + Len(to) /\ Len(g) > 0 BY <1>2, <1>3, <1>4, <1>8, <1>10
<1> QED BY <1>8, <1>12, <1>13, <1>14

(* clean, and what LedgerAccountsForColumn and Chain say, of a history on   *)
(* its own.                                                                 *)
Clean(h, i) == \A k \in DOMAIN h : h[k].at < h[i].at => h[k].at <= h[i].read
Accounts(h, n) ==
  \A i \in 2..n : IF h[i].at = h[i - 1].at THEN h[i].from = h[i - 1].to
                  ELSE Stood(h, h[i].from, h[i].read)
Whole(h, n, col) == (\A i \in 2..n : h[i].from = h[i - 1].to) /\ h[n].to = col

LEMMA GrownDates ==
  ASSUME NEW h, NEW g, NEW n, NEW m, NEW to, NEW cp, NEW r, NEW now,
         Grows(h, g, n, m, to, cp, r, now)
  PROVE  /\ \A i \in DOMAIN g : g[i].at <= now + 1 /\ g[i].read <= now + 1
         /\ m > 0 => \E i \in DOMAIN g : g[i].at = now + 1
<1>1. ASSUME NEW i \in DOMAIN g PROVE g[i].at <= now + 1 /\ g[i].read <= now + 1
  <2>1. CASE i \in 1..n BY <2>1 DEF Grows
  <2>2. CASE i \in (n + 1)..(n + m)
    <3>1. g[i].at = now + 1 /\ g[i].read = r BY <2>2 DEF Grows
    <3> QED BY <3>1 DEF Grows
  <2> QED BY <2>1, <2>2 DEF Grows
<1>2. ASSUME m > 0 PROVE \E i \in DOMAIN g : g[i].at = now + 1
  <2>1. n + 1 \in DOMAIN g /\ n + 1 \in (n + 1)..(n + m) BY <1>2 DEF Grows
  <2>2. g[n + 1].at = now + 1 BY <2>1 DEF Grows
  <2> QED BY <2>1, <2>2
<1> QED BY <1>1, <1>2

(* A clean commit was made on a row nobody had written since it was read.   *)
LEMMA GrownFresh ==
  ASSUME NEW h, NEW g, NEW n, NEW m, NEW to, NEW cp, NEW r, NEW now,
         Grows(h, g, n, m, to, cp, r, now), m > 0, Clean(g, n + m)
  PROVE  \A i \in DOMAIN h : h[i].at <= r
<1>1. n + m \in (n + 1)..(n + m) BY DEF Grows
<1>2. g[n + m].at = now + 1 /\ g[n + m].read = r BY <1>1 DEF Grows
<1>3. ASSUME NEW i \in DOMAIN h PROVE h[i].at <= r
  <2>1. i \in DOMAIN g /\ g[i] = h[i] /\ h[i].at \in Nat /\ h[i].at <= now /\ now \in Nat
    BY DEF Grows
  <2>2. g[i].at < g[n + m].at BY <1>2, <2>1
  <2> QED BY <1>2, <2>1, <2>2 DEF Clean
<1> QED BY <1>3

LEMMA GrownClean ==
  ASSUME NEW h, NEW g, NEW n, NEW m, NEW to, NEW cp, NEW r, NEW now,
         Grows(h, g, n, m, to, cp, r, now), NEW i \in 1..n, Clean(g, i)
  PROVE  Clean(h, i)
<1>1. \A k \in DOMAIN h : k \in DOMAIN g /\ g[k] = h[k] BY DEF Grows
<1>2. g[i] = h[i] BY DEF Grows
<1> QED BY <1>1, <1>2 DEF Clean

LEMMA GrownStood ==
  ASSUME NEW h, NEW g, NEW n, NEW m, NEW to, NEW cp, NEW r, NEW now,
         Grows(h, g, n, m, to, cp, r, now), NEW t \in Nat, t <= now, NEW x, Stood(h, x, t)
  PROVE  Stood(g, x, t)
<1>1. DOMAIN h \subseteq DOMAIN g /\ \A i \in DOMAIN h : g[i] = h[i] /\ h[i].at \in Nat
  BY DEF Grows
<1>2. ASSUME NEW i \in DOMAIN g PROVE i \in DOMAIN h \/ ~(g[i].at <= t)
  <2>1. CASE i \in 1..n BY <2>1 DEF Grows
  <2>2. CASE i \in (n + 1)..(n + m)
    <3>1. g[i].at = now + 1 /\ now \in Nat BY <2>2 DEF Grows
    <3> QED BY <3>1
  <2> QED BY <2>1, <2>2 DEF Grows
<1>3. t <= t OBVIOUS
<1> QED BY <1>1, <1>2, <1>3, StoodStill

(* A column that is written is where its plan ends, and the plan ends with  *)
(* a change; one that is not written is of a plan that restates the state.  *)
LEMMA GrownColumn ==
  ASSUME NEW h, NEW g, NEW n, NEW m, NEW to, NEW cp, NEW r, NEW now,
         Grows(h, g, n, m, to, cp, r, now), NEW col, NEW col2, Stood(h, col, now),
         \/ /\ m > 0 /\ col2 = to[m]
            /\ (m = 1 => to[m] # cp) /\ (m > 1 => to[m - 1] # to[m])
         \/ m = 0 /\ col2 = col
         \/ m = 1 /\ to[1] = cp /\ col2 = col
  PROVE  Stood(g, col2, now + 1)
<1>0. n \in Nat /\ n > 0 /\ m \in Nat /\ now \in Nat BY DEF Grows
<1>1. CASE /\ m > 0 /\ col2 = to[m]
           /\ (m = 1 => to[m] # cp) /\ (m > 1 => to[m - 1] # to[m])
  <2>1. n + m \in (n + 1)..(n + m) /\ n + m - n = m /\ n + m \in DOMAIN g BY <1>0, <1>1 DEF Grows
  <2>2. /\ g[n + m].at = now + 1 /\ g[n + m].to = to[m]
        /\ g[n + m].from = IF m = 1 THEN cp ELSE to[m - 1]
    BY <2>1 DEF Grows
  <2>3. g[n + m].from # g[n + m].to BY <1>0, <1>1, <2>2
  <2>4. \A k \in DOMAIN g : ~(k > n + m) BY <1>0 DEF Grows
  <2>5. g[n + m].at <= now + 1 BY <1>0, <2>2
  <2> QED BY <1>1, <2>1, <2>2, <2>3, <2>4, <2>5 DEF Stood
<1>2. CASE m <= 1 /\ (m = 1 => to[1] = cp) /\ col2 = col
  <2>1. PICK i \in DOMAIN h :
          /\ h[i].at <= now /\ h[i].from # h[i].to /\ h[i].to = col
          /\ \A k \in DOMAIN h : k > i /\ h[k].at <= now => h[k].from = h[k].to
    BY DEF Stood
  <2>2. i \in DOMAIN g /\ g[i] = h[i] /\ h[i].at \in Nat BY DEF Grows
  <2>3. ASSUME NEW k \in DOMAIN g, k > i PROVE g[k].from = g[k].to
    <3>1. CASE k \in 1..n
      <4>1. k \in DOMAIN h /\ g[k] = h[k] /\ h[k].at <= now BY <3>1 DEF Grows
      <4> QED BY <2>1, <2>3, <4>1
    <3>2. CASE k \in (n + 1)..(n + m)
      <4>1. m = 1 /\ k - n = 1 BY <1>0, <1>2, <3>2
      <4>2. g[k].to = to[1] /\ g[k].from = cp BY <3>2, <4>1 DEF Grows
      <4> QED BY <1>2, <4>1, <4>2
    <3> QED BY <3>1, <3>2 DEF Grows
  <2>4. g[i].at <= now + 1 BY <1>0, <2>1, <2>2
  <2> QED BY <1>2, <2>1, <2>2, <2>3, <2>4 DEF Stood
<1> QED BY <1>0, <1>1, <1>2

LEMMA GrownAccounts ==
  ASSUME NEW h, NEW g, NEW n, NEW m, NEW to, NEW cp, NEW r, NEW now,
         Grows(h, g, n, m, to, cp, r, now), Accounts(h, n), Stood(h, cp, r)
  PROVE  Accounts(g, n + m)
<1>0. n \in Nat /\ n > 0 /\ m \in Nat /\ now \in Nat /\ r \in Nat /\ r <= now BY DEF Grows
<1> SUFFICES ASSUME NEW i \in 2..(n + m)
             PROVE  IF g[i].at = g[i - 1].at THEN g[i].from = g[i - 1].to
                    ELSE Stood(g, g[i].from, g[i].read)
  BY DEF Accounts
<1>1. CASE i <= n
  <2>1. i \in 2..n /\ i \in 1..n /\ i - 1 \in 1..n BY <1>0, <1>1
  <2>2. g[i] = h[i] /\ g[i - 1] = h[i - 1] /\ h[i].read \in Nat /\ h[i].read <= now
    BY <2>1 DEF Grows
  <2>3. IF h[i].at = h[i - 1].at THEN h[i].from = h[i - 1].to
        ELSE Stood(h, h[i].from, h[i].read)
    BY <2>1 DEF Accounts
  <2>4. CASE h[i].at = h[i - 1].at BY <2>2, <2>3, <2>4
  <2>5. CASE h[i].at # h[i - 1].at
    <3>1. Stood(h, h[i].from, h[i].read) BY <2>3, <2>5
    <3>2. Stood(g, h[i].from, h[i].read) BY <2>2, <3>1, GrownStood
    <3> QED BY <2>2, <2>5, <3>2
  <2> QED BY <2>4, <2>5
<1>2. CASE i = n + 1
  <2>1. i \in (n + 1)..(n + m) /\ i - n = 1 /\ i - 1 \in 1..n BY <1>0, <1>2
  <2>2. /\ g[i].at = now + 1 /\ g[i].read = r /\ g[i].from = cp BY <2>1 DEF Grows
  <2>3. g[i - 1].at \in Nat /\ g[i - 1].at <= now BY <2>1 DEF Grows
  <2>4. Stood(g, cp, r) BY <1>0, GrownStood
  <2>5. g[i].at # g[i - 1].at BY <1>0, <2>2, <2>3
  <2> QED BY <2>2, <2>4, <2>5
<1>3. CASE i > n + 1
  <2>1. /\ i \in (n + 1)..(n + m) /\ i - 1 \in (n + 1)..(n + m)
        /\ i - n # 1 /\ (i - 1) - n = i - n - 1
    BY <1>0, <1>3
  <2>2. g[i].from = to[i - n - 1] /\ g[i].at = now + 1 BY <2>1 DEF Grows
  <2>3. g[i - 1].to = to[(i - 1) - n] /\ g[i - 1].at = now + 1 BY <2>1 DEF Grows
  <2> QED BY <2>1, <2>2, <2>3
<1> QED BY <1>0, <1>1, <1>2, <1>3

LEMMA GrownWhole ==
  ASSUME NEW h, NEW g, NEW n, NEW m, NEW to, NEW cp, NEW r, NEW now,
         Grows(h, g, n, m, to, cp, r, now), NEW col, Whole(h, n, col), m > 0, cp = col
  PROVE  Whole(g, n + m, to[m])
<1>0. n \in Nat /\ n > 0 /\ m \in Nat BY DEF Grows
<1>1. ASSUME NEW i \in 2..(n + m) PROVE g[i].from = g[i - 1].to
  <2>1. CASE i <= n
    <3>1. i \in 2..n /\ i \in 1..n /\ i - 1 \in 1..n BY <1>0, <2>1
    <3>2. g[i] = h[i] /\ g[i - 1] = h[i - 1] BY <3>1 DEF Grows
    <3> QED BY <3>1, <3>2 DEF Whole
  <2>2. CASE i = n + 1
    <3>1. i \in (n + 1)..(n + m) /\ i - n = 1 /\ i - 1 = n /\ n \in 1..n BY <1>0, <2>2
    <3>2. g[i].from = cp /\ g[i - 1] = h[n] BY <3>1 DEF Grows
    <3> QED BY <3>2 DEF Whole
  <2>3. CASE i > n + 1
    <3>1. /\ i \in (n + 1)..(n + m) /\ i - 1 \in (n + 1)..(n + m)
          /\ i - n # 1 /\ (i - 1) - n = i - n - 1
      BY <1>0, <2>3
    <3>2. g[i].from = to[i - n - 1] /\ g[i - 1].to = to[(i - 1) - n] BY <3>1 DEF Grows
    <3> QED BY <3>1, <3>2
  <2> QED BY <1>0, <2>1, <2>2, <2>3
<1>2. n + m \in (n + 1)..(n + m) /\ n + m - n = m BY <1>0
<1>3. g[n + m].to = to[m] BY <1>2 DEF Grows
<1> QED BY <1>1, <1>3 DEF Whole

(* What a session at its commit does to one row.                            *)
LEMMA CommitToARow ==
  ASSUME IInv, NEW s \in Sessions, pc[s] = "ready", NEW e \in Rows, NEW to \in Seq(RowStates),
         Changing(s, e, to),
         column'[e] = (IF written(s, e, to) THEN Last(to) ELSE column[e]),
         history'[e] = history[e] \o transitions(s, e, to), clock' = clock + 1
  PROVE  /\ history'[e] \in Seq(Event) /\ Len(history'[e]) = Len(history[e]) + Len(to)
         /\ Len(history'[e]) > 0
         /\ \A i \in DOMAIN history'[e] :
              history'[e][i].at <= clock' /\ history'[e][i].read <= clock'
         /\ column'[e] \in RowStates
         /\ Len(to) = 0 => history'[e] = history[e] /\ column'[e] = column[e]
         /\ Len(to) > 0 => \E i \in DOMAIN history'[e] : history'[e][i].at = clock + 1
         /\ column'[e] \in {column[e], to[Len(to)]}
         /\ Len(to) > 0 /\ Clean(history'[e], Len(history'[e])) =>
              fresh(s, e) /\ column'[e] = to[Len(to)]
         /\ \A i \in 1..Len(history[e]) : Clean(history'[e], i) => clean(e, i)
         /\ \A x, t : t \in Nat /\ t <= clock /\ stoodAt(e, x, t) => Stood(history'[e], x, t)
         /\ Stood(history'[e], column'[e], clock')
         /\ Accounts(history'[e], Len(history'[e]))
         /\ unlapped(e)' => Chain(e)'
<1> PICK c2 : c2 = column'[e] OBVIOUS
<1> PICK g : g = history'[e] OBVIOUS
<1> PICK h : h = history[e] OBVIOUS
<1> PICK n : n = Len(h) OBVIOUS
<1> PICK m : m = Len(to) OBVIOUS
<1>1. /\ g \in Seq(Event) /\ Len(g) = n + m /\ Len(g) > 0 /\ (m = 0 => g = h)
      /\ Grows(h, g, n, m, to, copy[s][e], read[s][e], clock)
  <2>1. Types /\ Dated /\ g = history[e] \o transitions(s, e, to) BY DEF IInv
  <2> QED BY <2>1, CommitGrows
<1>2. /\ clock \in Nat /\ m \in Nat /\ n \in Nat /\ n > 0
      /\ DOMAIN h = 1..n /\ DOMAIN g = 1..(n + m)
  BY <1>1 DEF Grows
<1>3. column[e] \in RowStates BY DEF IInv, Types
<1>4. m > 0 => Last(to) = to[m] /\ to[m] \in RowStates BY <1>2 DEF Last
<1>5. m = 0 => ~written(s, e, to)
  <2>1. ASSUME m = 0 PROVE to = <<>>
    <3>1. to \in Seq(RowStates) /\ Len(to) = 0 BY <2>1
    <3> QED BY ONLY <3>1
  <2> QED BY <2>1 DEF written
<1>6. c2 = column[e] \/ (m > 0 /\ c2 = to[m]) BY <1>2, <1>4, <1>5
<1>7. /\ Stood(h, column[e], clock) /\ Accounts(h, n)
      /\ Stood(h, copy[s][e], read[s][e])
  <2>1. LedgerAccountsForColumn /\ stoodAt(e, copy[s][e], read[s][e]) BY DEF IInv, Held, holds
  <2> QED BY <2>1 DEF LedgerAccountsForColumn, Accounts, stoodAt, Stood
<1>8. \A i : clean(e, i) <=> Clean(h, i) BY DEF clean, Clean
<1>9. ASSUME NEW i PROVE clean(e, i)' <=> Clean(g, i)
  BY DEF clean, Clean
<1>10. ASSUME m > 0, Clean(g, n + m)
       PROVE  fresh(s, e) /\ copy[s][e] = column[e] /\ c2 = to[m]
  <2>1. \A i \in DOMAIN h : h[i].at <= read[s][e] BY <1>1, <1>10, GrownFresh
  <2>2. fresh(s, e) BY <2>1 DEF fresh
  <2>3. copy[s][e] = column[e] BY <2>2, FreshIsCurrent DEF holds
  <2>4. to # <<>> BY <1>10
  <2>5. c2 = to[m] BY <2>3, <2>4, <1>4, <1>10 DEF written
  <2> QED BY <2>2, <2>3, <2>5
<1>11. Stood(g, c2, clock + 1)
  <2>1. CASE m > 0 /\ written(s, e, to)
    <3>1. c2 = to[m] BY <2>1, <1>4
    <3>2. m = 1 => to[m] # copy[s][e] BY <2>1, <1>4 DEF written
    <3>3. m > 1 => to[m - 1] # to[m] BY DEF Changing
    <3> QED BY <2>1, <3>1, <3>2, <3>3, <1>1, <1>7, GrownColumn
  <2>2. CASE m > 0 /\ ~written(s, e, to)
    <3>1. to # <<>> BY <2>2
    <3>2. to[m] = copy[s][e] /\ ~(m > 1 /\ e = Zone) BY <2>2, <3>1, <1>4 DEF written
    <3>3. m = 1 BY <2>2, <3>2, <1>2 DEF Changing
    <3>4. to[1] = copy[s][e] /\ c2 = column[e] BY <2>2, <3>2, <3>3
    <3> QED BY <3>3, <3>4, <1>1, <1>7, GrownColumn
  <2>3. CASE m = 0
    <3>1. c2 = column[e] BY <2>3, <1>5
    <3> QED BY <2>3, <3>1, <1>1, <1>7, GrownColumn
  <2> QED BY <1>2, <2>1, <2>2, <2>3
<1>12. ASSUME unlapped(e)' PROVE Chain(e)'
  <2>1. \A i \in DOMAIN g : Clean(g, i) BY <1>9, <1>12 DEF unlapped
  <2>2. \A i \in DOMAIN h : Clean(h, i) BY <2>1, <1>1, <1>2, GrownClean
  <2>3. unlapped(e) BY <2>2, <1>8 DEF unlapped
  <2>4. Whole(h, n, column[e]) BY <2>3 DEF IInv, HistoryIsAChain, Chain, Whole, Last
  <2>5. Whole(g, n + m, c2)
    <3>1. CASE m = 0
      <4>1. g = h /\ n + m = n /\ c2 = column[e] BY <3>1, <1>1, <1>2, <1>5
      <4> QED BY <4>1, <2>4
    <3>2. CASE m > 0
      <4>1. Clean(g, n + m) BY <2>1, <1>2, <3>2
      <4>2. copy[s][e] = column[e] /\ c2 = to[m] BY <4>1, <3>2, <1>10
      <4>3. Whole(g, n + m, to[m])
        <5>1. Grows(h, g, n, m, to, copy[s][e], read[s][e], clock) BY <1>1
        <5>2. Whole(h, n, column[e]) /\ copy[s][e] = column[e] /\ m > 0 BY <2>4, <3>2, <4>2
        <5> QED BY ONLY <5>1, <5>2, GrownWhole
      <4> QED BY <4>2, <4>3
    <3> QED BY <3>1, <3>2, <1>2
  <2> QED BY <2>5, <1>1 DEF Whole, Chain, Last
<1>13. ASSUME NEW x, NEW t, t \in Nat, t <= clock, stoodAt(e, x, t) PROVE Stood(g, x, t)
  <2>1. Stood(h, x, t) BY <1>13 DEF stoodAt, Stood
  <2> QED BY <2>1, <1>13, <1>1, GrownStood
<1>14. ASSUME NEW i \in 1..n, Clean(g, i) PROVE clean(e, i)
  BY <1>1, <1>8, <1>14, GrownClean
<1>15. /\ \A i \in DOMAIN g : g[i].at <= clock' /\ g[i].read <= clock'
       /\ m > 0 => \E i \in DOMAIN g : g[i].at = clock + 1
  <2>1. Grows(h, g, n, m, to, copy[s][e], read[s][e], clock) BY <1>1
  <2>2. /\ \A i \in DOMAIN g : g[i].at <= clock + 1 /\ g[i].read <= clock + 1
        /\ m > 0 => \E i \in DOMAIN g : g[i].at = clock + 1
    BY ONLY <2>1, GrownDates
  <2> QED BY <2>2
<1>16. Accounts(g, Len(g)) BY <1>1, <1>7, GrownAccounts
<1>17. m > 0 /\ Clean(g, Len(g)) => fresh(s, e) /\ c2 = to[m] BY <1>1, <1>10
<1>18. c2 \in RowStates /\ c2 \in {column[e], to[m]} BY <1>3, <1>4, <1>6
<1>19. m = 0 => g = h /\ c2 = column[e] BY <1>1, <1>5
<1> QED BY <1>1, <1>11, <1>12, <1>13, <1>14, <1>15, <1>16, <1>17, <1>18, <1>19
------------------------------------------------------------------------------
LEMMA CountedFinite ==
  /\ IsFiniteSet(Sessions) /\ Cardinality(Sessions) \in Nat
  /\ \A S \in SUBSET Sessions :
       IsFiniteSet(S) /\ Cardinality(S) \in Nat /\ Cardinality(S) <= Cardinality(Sessions)
  /\ \A S, T \in SUBSET Sessions : S \subseteq T => Cardinality(S) <= Cardinality(T)
  /\ \A S \in SUBSET Sessions, s \in Sessions : s \notin S => Cardinality(S \cup {s}) = Cardinality(S) + 1
<1>1. IsFiniteSet(Sessions) BY SessionsAssumption
<1>2. Cardinality(Sessions) \in Nat BY <1>1, FS_CardinalityType
<1>3. \A S \in SUBSET Sessions :
        IsFiniteSet(S) /\ Cardinality(S) \in Nat /\ Cardinality(S) <= Cardinality(Sessions)
  BY <1>1, FS_Subset, FS_CardinalityType
<1>4. \A S, T \in SUBSET Sessions : S \subseteq T => Cardinality(S) <= Cardinality(T)
  BY <1>3, FS_Subset
<1>5. \A S \in SUBSET Sessions, s \in Sessions : s \notin S => Cardinality(S \cup {s}) = Cardinality(S) + 1
  BY <1>3, FS_AddElement
<1> QED BY <1>1, <1>2, <1>3, <1>4, <1>5

LEMMA TheStart == Init => IInv
<1> SUFFICES ASSUME Init PROVE IInv
  OBVIOUS
<1>1. \A e \in Rows : column[e] \in {"queued", "open"} BY DEF Init
<1>2. {"queued", "open"} \subseteq RowStates /\ {"none", "queued", "open"} \subseteq States
  BY DEF RowStates, States, ZONE_STATES, CLASH_STATES
<1>3. ASSUME NEW e \in Rows
      PROVE  /\ history[e] \in Seq(Event) /\ Len(history[e]) = 1 /\ DOMAIN history[e] = {1}
             /\ history[e][1].at = 0 /\ history[e][1].to = column[e]
             /\ history[e][1].read = 0 /\ history[e][1].from # column[e]
  <2>1. history[e] = <<event("none", column[e], 0, 0)>> BY DEF Init
  <2>2. event("none", column[e], 0, 0) \in Event BY <1>1, <1>2 DEF event, Event
  <2> QED BY <1>1, <2>1, <2>2 DEF event
<1>4. NoProposal \in LiveRow /\ NoProposal.verdict = "none" BY DEF NoProposal, LiveRow, Verdicts
<1>5. Types
  <2>1. clock \in Nat BY DEF Init
  <2>2. column \in [Rows -> RowStates] BY <1>1, <1>2 DEF Init
  <2>3. live \in [Clashes -> LiveRow] BY <1>4 DEF Init
  <2>4. history \in [Rows -> Seq(Event)]
    <3>1. history = [e \in Rows |-> history[e]] BY DEF Init
    <3> QED BY <3>1, <1>3
  <2>5. /\ pc \in [Sessions -> {"idle", "zone", "clashes", "ready", "done"}]
        /\ work \in [Sessions -> Work]
    BY DEF Init, Work
  <2>6. read \in [Sessions -> [Rows -> Nat]] BY DEF Init
  <2>7. copy \in [Sessions -> [Rows -> States]] BY <1>2 DEF Init
  <2>8. proposal \in [Sessions -> [Clashes -> LiveRow]] BY <1>4 DEF Init
  <2> QED BY <2>1, <2>2, <2>3, <2>4, <2>5, <2>6, <2>7, <2>8, <1>3 DEF Types
<1>6. Dated BY <1>3 DEF Dated, Init
<1>7. Held /\ FreshProposals BY DEF Held, FreshProposals, Init, holds
<1>12. LedgerAccountsForColumn
  <2> SUFFICES ASSUME NEW e \in Rows
               PROVE  stoodAt(e, column[e], clock) /\ 2..Len(history[e]) = {}
    BY DEF LedgerAccountsForColumn
  <2>1. clock = 0 /\ 2..1 = {} BY DEF Init
  <2>2. /\ 1 \in DOMAIN history[e] /\ history[e][1].at <= clock
        /\ \A k \in DOMAIN history[e] : ~(k > 1)
    BY <2>1, <1>3
  <2>3. stoodAt(e, column[e], clock) BY <2>2, <1>3 DEF stoodAt
  <2> QED BY <2>1, <2>3, <1>3
<1>8. HistoryIsAChain BY <1>3 DEF HistoryIsAChain, Chain, Last
<1>9. MergedOnAcceptance BY ZoneIsNoClash DEF MergedOnAcceptance, Init, Accepted
<1>10. Settled BY ZoneIsNoClash DEF Settled, Init, ZONE_STATES, CLASH_STATES
<1>11. Counted
  <2>1. Cardinality({s \in Sessions : pc[s] = "done"}) \in Nat BY CountedFinite
  <2> QED BY <2>1 DEF Counted, Init
<1> QED BY <1>5, <1>6, <1>7, <1>8, <1>9, <1>10, <1>11, <1>12 DEF IInv

(* A step that commits nothing: the session's copies are what they were, or *)
(* what the rows are.                                                       *)
LEMMA Reading ==
  ASSUME IInv, NEW s \in Sessions, UNCHANGED base, pc[s] # "done",
         NEW p \in {"idle", "zone", "clashes", "ready", "done"}, NEW w \in Work,
         NEW r \in [Rows -> Nat], NEW k \in [Rows -> States], NEW q \in [Clashes -> LiveRow],
         pc' = [pc EXCEPT ![s] = p], work' = [work EXCEPT ![s] = w],
         read' = [read EXCEPT ![s] = r], copy' = [copy EXCEPT ![s] = k],
         proposal' = [proposal EXCEPT ![s] = q],
         \A e \in Rows : r[e] <= clock,
         \A e \in Rows : p \in {"clashes", "ready"} \/ (p = "zone" /\ e = Zone)
                         => stoodAt(e, k[e], r[e]),
         \A c \in Clashes : p = "ready" => q[c] = live[c]
  PROVE  IInv'
<1> USE DEF base
<1>1. Types' BY DEF IInv, Types
<1>2. Dated' BY DEF IInv, Types, Dated
<1>3. Held'
  <2> SUFFICES ASSUME NEW s2 \in Sessions, NEW e \in Rows, holds(s2, e)'
               PROVE  Stood(history'[e], copy'[s2][e], read'[s2][e])
    BY DEF Held, stoodAt, Stood
  <2>1. CASE s2 = s
    <3>1. stoodAt(e, k[e], r[e]) BY <2>1 DEF IInv, Types, holds
    <3>2. copy'[s2] = k /\ read'[s2] = r BY <2>1 DEF IInv, Types
    <3> QED BY <3>1, <3>2 DEF stoodAt, Stood
  <2>2. CASE s2 # s
    <3>1. holds(s2, e) /\ copy'[s2] = copy[s2] /\ read'[s2] = read[s2]
      BY <2>2 DEF IInv, Types, holds
    <3>2. stoodAt(e, copy[s2][e], read[s2][e]) BY <3>1 DEF IInv, Held
    <3> QED BY <3>1, <3>2 DEF stoodAt, Stood
  <2> QED BY <2>1, <2>2
<1>8. FreshProposals'
  <2> SUFFICES ASSUME NEW s2 \in Sessions, NEW c \in Clashes, pc'[s2] = "ready", fresh(s2, c)'
               PROVE  proposal'[s2][c] = live'[c]
    BY DEF FreshProposals
  <2>1. CASE s2 = s BY <2>1 DEF IInv, Types
  <2>2. CASE s2 # s
    <3>1. pc[s2] = "ready" /\ fresh(s2, c) /\ proposal'[s2] = proposal[s2]
      BY <2>2 DEF IInv, Types, fresh
    <3> QED BY <3>1 DEF IInv, FreshProposals
  <2> QED BY <2>1, <2>2
<1>9. LedgerAccountsForColumn'
  <2>1. LedgerAccountsForColumn /\ UNCHANGED <<column, history, clock>> BY DEF IInv
  <2>2. ASSUME NEW e, NEW x, NEW t, stoodAt(e, x, t) PROVE Stood(history'[e], x, t)
    BY <2>1, <2>2 DEF stoodAt, Stood
  <2>3. ASSUME NEW e \in Rows
        PROVE  Stood(history'[e], column'[e], clock') /\ Accounts(history'[e], Len(history'[e]))
    <3>1. Stood(history'[e], column[e], clock)
      BY <2>1, <2>2 DEF LedgerAccountsForColumn
    <3>2. Accounts(history'[e], Len(history[e]))
      BY <2>1, <2>2 DEF LedgerAccountsForColumn, Accounts
    <3> QED BY <2>1, <3>1, <3>2
  <2> QED BY <2>3 DEF LedgerAccountsForColumn, Accounts, stoodAt, Stood
<1>4. HistoryIsAChain' BY DEF IInv, HistoryIsAChain, Chain, unlapped, clean
<1>5. MergedOnAcceptance' BY DEF IInv, MergedOnAcceptance, clean
<1>6. Settled' BY DEF IInv, Settled
<1>7. Counted'
  <2> DEFINE D == {s2 \in Sessions : pc[s2] = "done"}
             E == {s2 \in Sessions : pc'[s2] = "done"}
  <2>1. D \subseteq E /\ D \in SUBSET Sessions /\ E \in SUBSET Sessions BY DEF IInv, Types
  <2>2. clock <= Cardinality(D) /\ clock \in Nat BY DEF IInv, Counted, Types
  <2>3. Cardinality(D) <= Cardinality(E) /\ Cardinality(D) \in Nat /\ Cardinality(E) \in Nat
    BY <2>1, CountedFinite
  <2>4. clock' <= Cardinality(E) 
    <3> HIDE DEF D, E
    <3> QED BY <2>2, <2>3
  <2> QED BY <2>4 DEF Counted
<1> QED BY <1>1, <1>2, <1>3, <1>4, <1>5, <1>6, <1>7, <1>8, <1>9 DEF IInv

LEMMA BeginStep == ASSUME IInv, NEW s \in Sessions, NEW w \in Work, Begin(s, w) PROVE IInv'
<1> DEFINE r == [read[s] EXCEPT ![Zone] = clock]
           k == [copy[s] EXCEPT ![Zone] = column[Zone]]
           q == proposal[s]
<1>1. r \in [Rows -> Nat] /\ k \in [Rows -> States] /\ q \in [Clashes -> LiveRow]
  BY ZoneIsNoClash DEF IInv, Types, States
<1>2. /\ pc[s] = "idle" /\ pc' = [pc EXCEPT ![s] = "zone"] /\ work' = [work EXCEPT ![s] = w]
      /\ read' = [read EXCEPT ![s] = r] /\ copy' = [copy EXCEPT ![s] = k]
      /\ UNCHANGED base
  BY DEF Begin
<1>3. proposal' = [proposal EXCEPT ![s] = q] BY DEF Begin, IInv, Types
<1>4. \A e \in Rows : r[e] <= clock BY DEF IInv, Types, Dated
<1>5. stoodAt(Zone, k[Zone], r[Zone])
  <2>1. k[Zone] = column[Zone] /\ r[Zone] = clock BY ZoneIsNoClash DEF IInv, Types
  <2> QED BY <2>1, ZoneIsNoClash DEF IInv, LedgerAccountsForColumn
<1>6. "zone" \in {"idle", "zone", "clashes", "ready", "done"} /\ pc[s] # "done" BY <1>2
<1>7. \A e \in Rows : "zone" \in {"clashes", "ready"} \/ ("zone" = "zone" /\ e = Zone)
                      => stoodAt(e, k[e], r[e])
  BY <1>5
<1>8. \A c \in Clashes : "zone" = "ready" => q[c] = live[c] OBVIOUS
<1> HIDE DEF r, k, q
<1> QED BY <1>1, <1>2, <1>3, <1>4, <1>6, <1>7, <1>8, Reading

LEMMA ReadClashesStep == ASSUME IInv, NEW s \in Sessions, ReadClashes(s) PROVE IInv'
<1> DEFINE r == [e \in Rows |-> IF e = Zone THEN read[s][e] ELSE clock]
           k == [e \in Rows |-> IF e = Zone THEN copy[s][e] ELSE column[e]]
           q == proposal[s]
           w == work[s]
<1>1. /\ r \in [Rows -> Nat] /\ k \in [Rows -> States] /\ q \in [Clashes -> LiveRow]
      /\ w \in Work
  BY DEF IInv, Types, States
<1>2. /\ pc[s] = "zone" /\ pc' = [pc EXCEPT ![s] = "clashes"]
      /\ read' = [read EXCEPT ![s] = r] /\ copy' = [copy EXCEPT ![s] = k]
      /\ UNCHANGED base
  BY DEF ReadClashes, IInv, Types
<1>3. proposal' = [proposal EXCEPT ![s] = q] /\ work' = [work EXCEPT ![s] = w]
  BY DEF ReadClashes, IInv, Types
<1>4. \A e \in Rows : r[e] <= clock BY DEF IInv, Types, Dated
<1>5. ASSUME NEW e \in Rows PROVE stoodAt(e, k[e], r[e])
  <2>1. CASE e = Zone
    <3>1. holds(s, e) /\ k[e] = copy[s][e] /\ r[e] = read[s][e] BY <2>1, <1>2 DEF holds
    <3> QED BY <3>1 DEF IInv, Held
  <2>2. CASE e # Zone
    <3>1. k[e] = column[e] /\ r[e] = clock BY <2>2
    <3> QED BY <3>1 DEF IInv, LedgerAccountsForColumn
  <2> QED BY <2>1, <2>2
<1> HIDE DEF r, k, q, w
<1> QED BY <1>1, <1>2, <1>3, <1>4, <1>5, Reading

LEMMA ReadProposalsStep == ASSUME IInv, NEW s \in Sessions, ReadProposals(s) PROVE IInv'
<1> DEFINE r == read[s]
           k == copy[s]
           w == work[s]
<1>1. r \in [Rows -> Nat] /\ k \in [Rows -> States] /\ live \in [Clashes -> LiveRow] /\ w \in Work
  BY DEF IInv, Types
<1>2. /\ pc[s] = "clashes" /\ pc' = [pc EXCEPT ![s] = "ready"]
      /\ proposal' = [proposal EXCEPT ![s] = live] /\ UNCHANGED base
  BY DEF ReadProposals
<1>3. /\ read' = [read EXCEPT ![s] = r] /\ copy' = [copy EXCEPT ![s] = k]
      /\ work' = [work EXCEPT ![s] = w]
  BY DEF ReadProposals, IInv, Types
<1>4. \A e \in Rows : r[e] <= clock BY DEF IInv, Dated
<1>5. \A e \in Rows : stoodAt(e, k[e], r[e]) BY <1>2 DEF IInv, Held, holds
<1> HIDE DEF r, k, w
<1> QED BY <1>1, <1>2, <1>3, <1>4, <1>5, Reading

LEMMA RollbackStep == ASSUME IInv, NEW s \in Sessions, Rollback(s) PROVE IInv'
<1> DEFINE r == [e \in Rows |-> 0]
           k == [e \in Rows |-> "none"]
           q == [c \in Clashes |-> NoProposal]
<1>1. r \in [Rows -> Nat] /\ k \in [Rows -> States] /\ q \in [Clashes -> LiveRow]
  BY DEF States, NoProposal, LiveRow, Verdicts
<1>2. /\ pc[s] # "done" /\ pc' = [pc EXCEPT ![s] = "done"] /\ work' = [work EXCEPT ![s] = "resolve"]
      /\ read' = [read EXCEPT ![s] = r] /\ copy' = [copy EXCEPT ![s] = k]
      /\ proposal' = [proposal EXCEPT ![s] = q] /\ UNCHANGED base
  BY DEF Rollback, close
<1>3. "resolve" \in Work BY DEF Work
<1>4. \A e \in Rows : r[e] <= clock BY DEF IInv, Types
<1> HIDE DEF r, k, q
<1> QED BY <1>1, <1>2, <1>3, <1>4, Reading

(* A commit: every row continues its own history, and the copies of the     *)
(* sessions still running of a row that was written are stale.              *)
LEMMA CommitStep == ASSUME IInv, NEW s \in Sessions, Commit(s) PROVE IInv'
<1>1. /\ pc[s] = "ready" /\ clock' = clock + 1 /\ clock \in Nat
      /\ pc' = [pc EXCEPT ![s] = "done"] /\ work' = [work EXCEPT ![s] = "resolve"]
      /\ read' = [read EXCEPT ![s] = [e \in Rows |-> 0]]
      /\ copy' = [copy EXCEPT ![s] = [e \in Rows |-> "none"]]
      /\ proposal' = [proposal EXCEPT ![s] = [c \in Clashes |-> NoProposal]]
  BY DEF Commit, close, IInv, Types
<1>2. PICK p \in plans(s) :
        /\ column' = [e \in Rows |-> IF written(s, e, p.to[e]) THEN Last(p.to[e]) ELSE column[e]]
        /\ history' = [e \in Rows |-> history[e] \o transitions(s, e, p.to[e])]
        /\ live' = [c \in Clashes |->
             IF c \in DOMAIN p.added THEN [name |-> clock + 1, verdict |-> p.added[c]]
             ELSE IF rejudged(s, c, p.judged) THEN [live[c] EXCEPT !.verdict = p.judged[c]]
             ELSE live[c]]
  BY DEF Commit
<1>3. work[s] \in Work BY DEF IInv, Types
<1>4. Sound(s, p) /\ Claims(s, p) BY <1>3, PlansAreSound
<1>5. ASSUME NEW e \in Rows
      PROVE  /\ history'[e] \in Seq(Event) /\ Len(history'[e]) = Len(history[e]) + Len(p.to[e])
             /\ Len(history'[e]) > 0
             /\ \A i \in DOMAIN history'[e] :
                  history'[e][i].at <= clock' /\ history'[e][i].read <= clock'
             /\ column'[e] \in RowStates
             /\ Len(p.to[e]) = 0 => history'[e] = history[e] /\ column'[e] = column[e]
             /\ Len(p.to[e]) > 0 => \E i \in DOMAIN history'[e] : history'[e][i].at = clock + 1
             /\ column'[e] \in {column[e], p.to[e][Len(p.to[e])]}
             /\ Len(p.to[e]) > 0 /\ Clean(history'[e], Len(history'[e])) =>
                  fresh(s, e) /\ column'[e] = p.to[e][Len(p.to[e])]
             /\ \A i \in 1..Len(history[e]) : Clean(history'[e], i) => clean(e, i)
             /\ \A x, t : t \in Nat /\ t <= clock /\ stoodAt(e, x, t) => Stood(history'[e], x, t)
             /\ Stood(history'[e], column'[e], clock')
             /\ Accounts(history'[e], Len(history'[e]))
             /\ unlapped(e)' => Chain(e)'
  <2> PICK to \in Seq(RowStates) : to = p.to[e] BY <1>4 DEF Sound
  <2>1. /\ column'[e] = (IF written(s, e, to) THEN Last(to) ELSE column[e])
        /\ history'[e] = history[e] \o transitions(s, e, to)
    BY <1>2
  <2>2. Changing(s, e, to) BY <1>4 DEF Sound
  <2> QED BY <1>1, <2>1, <2>2, CommitToARow
<1>6. \A e \in Rows : Len(p.to[e]) \in Nat BY <1>4 DEF Sound
<1>18. \A e \in Rows :
        /\ Len(p.to[e]) = 0 => history'[e] = history[e] /\ column'[e] = column[e]
        /\ Len(p.to[e]) > 0 => \E i \in DOMAIN history'[e] : history'[e][i].at = clock + 1
  BY <1>5
<1>19. \A e \in Rows :
        /\ Len(history'[e]) = Len(history[e]) + Len(p.to[e])
        /\ column'[e] \in {column[e], p.to[e][Len(p.to[e])]}
  BY <1>5
<1>20. \A e \in Rows : Len(p.to[e]) > 0 /\ Clean(history'[e], Len(history'[e])) =>
                       fresh(s, e) /\ column'[e] = p.to[e][Len(p.to[e])]
  BY <1>5
<1>21. \A e \in Rows : \A i \in 1..Len(history[e]) : Clean(history'[e], i) => clean(e, i)
  BY <1>5
<1>7. ASSUME NEW c \in Clashes
      PROVE  /\ live'[c] \in LiveRow
             /\ Len(p.to[c]) = 0 => live'[c] = live[c]
             /\ proposal[s][c] = live[c] => live'[c].verdict = verdictAfter(s, p, c)
  <2>1. live[c] \in LiveRow BY DEF IInv, Types
  <2>2. /\ c \in DOMAIN p.added => Len(p.to[c]) > 0 /\ p.added[c] \in Verdicts
        /\ c \in DOMAIN p.judged => Len(p.to[c]) > 0 /\ p.judged[c] \in Verdicts
    BY <1>4 DEF Sound
  <2>3. CASE c \in DOMAIN p.added
    <3>1. live'[c] = [name |-> clock + 1, verdict |-> p.added[c]] BY <1>2, <2>3
    <3>2. clock + 1 \in Nat BY <1>1
    <3> QED BY <3>1, <3>2, <2>2, <2>3, <1>6, ZoneIsNoClash DEF LiveRow, verdictAfter
  <2>4. CASE c \notin DOMAIN p.added /\ rejudged(s, c, p.judged)
    <3>1. live'[c] = [live[c] EXCEPT !.verdict = p.judged[c]] BY <1>2, <2>4
    <3>2. c \in DOMAIN p.judged BY <2>4 DEF rejudged
    <3>3. live'[c] \in LiveRow /\ live'[c].verdict = p.judged[c]
      BY <2>1, <2>2, <3>1, <3>2 DEF LiveRow
    <3> QED BY <3>2, <3>3, <2>2, <2>4, <1>6, ZoneIsNoClash DEF verdictAfter
  <2>5. CASE c \notin DOMAIN p.added /\ ~rejudged(s, c, p.judged)
    <3>1. live'[c] = live[c] BY <1>2, <2>5
    <3>2. proposal[s][c] = live[c] /\ c \in DOMAIN p.judged => p.judged[c] = live[c].verdict
      BY <2>5 DEF rejudged
    <3> QED BY <2>1, <2>5, <3>1, <3>2 DEF verdictAfter
  <2> QED BY <2>3, <2>4, <2>5
<1>8. Types'
  <2>1. clock' \in Nat BY <1>1
  <2>2. column' \in [Rows -> RowStates] BY <1>2, <1>5
  <2>3. live' \in [Clashes -> LiveRow]
    <3>1. live' = [c \in Clashes |-> live'[c]] BY <1>2
    <3> QED BY <3>1, <1>7
  <2>4. history' \in [Rows -> Seq(Event)] BY <1>2, <1>5
  <2>5. pc' \in [Sessions -> {"idle", "zone", "clashes", "ready", "done"}]
    BY <1>1 DEF IInv, Types
  <2>6. work' \in [Sessions -> Work] BY <1>1 DEF IInv, Types, Work
  <2>7. read' \in [Sessions -> [Rows -> Nat]] BY <1>1 DEF IInv, Types
  <2>8. copy' \in [Sessions -> [Rows -> States]] BY <1>1 DEF IInv, Types, States
  <2>9. NoProposal \in LiveRow BY DEF NoProposal, LiveRow, Verdicts
  <2>10. proposal' \in [Sessions -> [Clashes -> LiveRow]] BY <1>1, <2>9 DEF IInv, Types
  <2> QED BY <2>1, <2>2, <2>3, <2>4, <2>5, <2>6, <2>7, <2>8, <2>10, <1>5 DEF Types
<1>9. Dated'
  <2>1. \A s2 \in Sessions, e \in Rows : read'[s2][e] <= clock'
    BY <1>1 DEF IInv, Types, Dated
  <2> QED BY <2>1, <1>5 DEF Dated
<1>10. ASSUME NEW s2 \in Sessions, NEW e \in Rows, fresh(s2, e)', s2 # s
       PROVE  Len(p.to[e]) = 0 /\ history'[e] = history[e] /\ column'[e] = column[e] /\ fresh(s2, e)
  <2>1. read'[s2] = read[s2] BY <1>1, <1>10 DEF IInv, Types
  <2>2. read[s2][e] <= clock /\ read[s2][e] \in Nat BY DEF IInv, Types, Dated
  <2>3. \A i \in DOMAIN history'[e] : history'[e][i].at # clock + 1
    BY <1>1, <1>10, <2>1, <2>2 DEF fresh
  <2>4. Len(p.to[e]) = 0 BY <1>6, <1>18, <2>3
  <2>5. history'[e] = history[e] /\ column'[e] = column[e] BY <2>4, <1>18
  <2> QED BY <1>10, <2>1, <2>4, <2>5 DEF fresh
<1>11. Held' /\ FreshProposals'
  <2>0. pc'[s] = "done" BY <1>1 DEF IInv, Types
  <2>1. ASSUME NEW s2 \in Sessions, NEW e \in Rows, holds(s2, e)'
        PROVE  Stood(history'[e], copy'[s2][e], read'[s2][e])
    <3>1. s2 # s BY <2>0, <2>1 DEF holds
    <3>2. pc'[s2] = pc[s2] /\ copy'[s2] = copy[s2] /\ read'[s2] = read[s2]
      BY <3>1, <1>1 DEF IInv, Types
    <3>3. read[s2][e] \in Nat /\ read[s2][e] <= clock BY DEF IInv, Types, Dated
    <3>4. stoodAt(e, copy[s2][e], read[s2][e]) BY <2>1, <3>2 DEF IInv, Held, holds
    <3> QED BY <3>2, <3>3, <3>4, <1>5
  <2>2. ASSUME NEW s2 \in Sessions, NEW c \in Clashes, pc'[s2] = "ready", fresh(s2, c)'
        PROVE  proposal'[s2][c] = live'[c]
    <3>1. s2 # s BY <2>0, <2>2
    <3>2. pc'[s2] = pc[s2] /\ proposal'[s2] = proposal[s2] BY <3>1, <1>1 DEF IInv, Types
    <3>3. c \in Rows BY ZoneIsNoClash
    <3>4. Len(p.to[c]) = 0 /\ fresh(s2, c) BY <2>2, <3>1, <3>3, <1>10
    <3>5. live'[c] = live[c] BY <3>4, <1>7
    <3>6. proposal[s2][c] = live[c] BY <2>2, <3>2, <3>4 DEF IInv, FreshProposals
    <3> QED BY <3>2, <3>5, <3>6
  <2>3. Held' BY <2>1 DEF Held, stoodAt, Stood
  <2>4. FreshProposals' BY <2>2 DEF FreshProposals
  <2> QED BY <2>3, <2>4
<1>17. LedgerAccountsForColumn' BY <1>5 DEF LedgerAccountsForColumn, Accounts, stoodAt, Stood
<1>12. HistoryIsAChain' BY <1>5 DEF HistoryIsAChain
<1>13. ASSUME NEW c \in Clashes, Clean(history'[c], Len(history'[c]))
       PROVE  /\ column'[c] \in Accepted => live'[c].verdict = column'[c]
              /\ column'[c] = "merged" /\ Clean(history'[c], Len(history'[c]) - 2) =>
                   live'[c].verdict \in Accepted
  <2> PICK n : n = Len(history[c]) OBVIOUS
  <2> PICK m : m = Len(p.to[c]) OBVIOUS
  <2> PICK g : g = history'[c] OBVIOUS
  <2>0. c \in Rows BY ZoneIsNoClash
  <2>1. n \in Nat /\ n > 0 /\ m \in Nat /\ Len(g) = n + m
    <3>1. history[c] \in Seq(Event) /\ Len(history[c]) > 0 BY <2>0 DEF IInv, Types
    <3>2. n \in Nat /\ n > 0 BY <3>1
    <3> QED BY <2>0, <3>2, <1>6, <1>19
  <2>2. clean(c, n) =>
          /\ column[c] \in Accepted => live[c].verdict = column[c]
          /\ column[c] = "merged" /\ clean(c, n - 2) => live[c].verdict \in Accepted
    BY DEF IInv, MergedOnAcceptance
  <2>3. CASE m = 0
    <3>1. g = history[c] /\ column'[c] = column[c] /\ live'[c] = live[c]
      BY <2>0, <2>3, <1>18, <1>7
    <3>2. \A i : Clean(g, i) => clean(c, i) BY <3>1 DEF Clean, clean
    <3>3. Clean(g, n) /\ Len(g) = n BY <1>13, <3>1
    <3>4. clean(c, n) /\ (Clean(g, n - 2) => clean(c, n - 2)) BY <3>2, <3>3
    <3> QED BY <3>1, <3>3, <3>4, <2>2
  <2>4. CASE m > 0
    <3>1. fresh(s, c) /\ column'[c] = p.to[c][m] BY <2>0, <2>4, <1>13, <1>20
    <3>2. copy[s][c] = column[c] BY <2>0, <3>1, <1>1, FreshIsCurrent DEF holds
    <3>3. proposal[s][c] = live[c] BY <3>1, <1>1 DEF IInv, FreshProposals
    <3>4. live'[c].verdict = verdictAfter(s, p, c) BY <3>3, <1>7
    <3>5. /\ column'[c] \in Accepted => verdictAfter(s, p, c) = column'[c]
          /\ column'[c] = "merged" => /\ m = 2 /\ copy[s][c] \in Accepted
                                      /\ c \notin DOMAIN p.added \cup DOMAIN p.judged
      BY <3>1, <2>4, <1>4 DEF Claims
    <3>6. ASSUME column'[c] = "merged", Clean(g, Len(g) - 2)
          PROVE  live'[c].verdict \in Accepted
      <4>1. m = 2 BY <3>5, <3>6
      <4>2. Len(g) - 2 = n BY <2>1, <4>1
      <4>3. n \in 1..n BY <2>1
      <4>4. Clean(g, n) BY <4>2, <3>6
      <4>5. clean(c, n) BY <4>3, <4>4, <2>0, <1>21
      <4>6. verdictAfter(s, p, c) = live[c].verdict BY <3>3, <3>5, <3>6 DEF verdictAfter
      <4>7. live[c].verdict = column[c] /\ column[c] \in Accepted BY <2>2, <3>2, <3>5, <3>6, <4>5
      <4> QED BY <3>4, <4>6, <4>7
    <3> QED BY <3>4, <3>5, <3>6
  <2>5. m = 0 \/ m > 0 BY <2>1
  <2> QED BY <2>3, <2>4, <2>5
<1>14. MergedOnAcceptance' BY <1>13 DEF MergedOnAcceptance, clean, Clean
<1>15. Settled'
  <2>1. ASSUME NEW e \in Rows
        PROVE  column'[e] = column[e] \/ (Len(p.to[e]) > 0 /\ column'[e] = p.to[e][Len(p.to[e])])
    <3>1. Len(p.to[e]) \in Nat BY <1>6
    <3>2. Len(p.to[e]) = 0 => column'[e] = column[e] BY <1>18
    <3>3. column'[e] = column[e] \/ column'[e] = p.to[e][Len(p.to[e])] BY <1>19
    <3>4. Len(p.to[e]) = 0 \/ Len(p.to[e]) > 0 BY ONLY <3>1
    <3> QED BY <3>2, <3>3, <3>4
  <2>2. column'[Zone] \in ZONE_STATES \ {"active"}
    BY <2>1, <1>4, ZoneIsNoClash DEF Sound, IInv, Settled
  <2>3. ASSUME NEW c \in Clashes PROVE column'[c] \in CLASH_STATES \ {"approved"}
    BY <2>1, <1>4, ZoneIsNoClash DEF Sound, IInv, Settled
  <2> QED BY <2>2, <2>3 DEF Settled
<1>16. Counted'
  <2> DEFINE D == {s2 \in Sessions : pc[s2] = "done"}
             E == {s2 \in Sessions : pc'[s2] = "done"}
  <2>1. E = D \cup {s} /\ s \notin D /\ D \in SUBSET Sessions /\ E \in SUBSET Sessions
    BY <1>1 DEF IInv, Types
  <2>2. clock <= Cardinality(D) BY DEF IInv, Counted
  <2>3. clock' <= Cardinality(E)
    <3> HIDE DEF D, E
    <3>1. Cardinality(E) = Cardinality(D) + 1 /\ Cardinality(D) \in Nat
      BY <2>1, CountedFinite
    <3> QED BY <3>1, <2>2, <1>1
  <2> QED BY <2>3 DEF Counted
<1> QED BY <1>8, <1>9, <1>11, <1>12, <1>14, <1>15, <1>16, <1>17 DEF IInv

LEMMA EveryStep == IInv /\ [Next]_vars => IInv'
<1> SUFFICES ASSUME IInv, [Next]_vars PROVE IInv'
  OBVIOUS
<1>1. CASE Next
  BY <1>1, BeginStep, ReadClashesStep, ReadProposalsStep, RollbackStep, CommitStep DEF Next
<1>2. CASE UNCHANGED vars
  BY <1>2 DEF vars, base, local, IInv, Types, Dated, Held, FreshProposals, holds, fresh,
       LedgerAccountsForColumn, stoodAt, HistoryIsAChain, Chain, unlapped, clean,
       MergedOnAcceptance, Settled, Counted
<1> QED BY <1>1, <1>2

LEMMA AlwaysIInv == Spec => []IInv
BY TheStart, EveryStep, PTL DEF Spec

------------------------------------------------------------------------------
(* For any number of sessions, overlapping as they may, the ledger accounts *)
(* for the state column, and each ledger row starts where the ledger says   *)
(* the row stood when its session read it (app/ledger.transition takes the  *)
(* state it starts from out of the session's own copy).                     *)
THEOREM LedgersAccountForColumns == Spec => []LedgerAccountsForColumn
<1>1. IInv => LedgerAccountsForColumn BY DEF IInv
<1> QED BY <1>1, AlwaysIInv, PTL

(* A row no session wrote behind the back of another has one unbroken chain *)
(* for a ledger, which ends at its state column: it is the overlap alone    *)
(* that breaks a chain.                                                     *)
THEOREM HistoriesAreChains == Spec => []HistoryIsAChain
<1>1. IInv => HistoryIsAChain BY DEF IInv
<1> QED BY <1>1, AlwaysIInv, PTL

(* Whatever overlaps a clash went through, once a commit to it was made on  *)
(* what it was, an accepted clash rests on a live proposal of its verdict;  *)
(* and it is merged on an accepting verdict if the commit before was too    *)
(* (app/review.apply_review, Coordinator.arbitrate, rebases and edits).     *)
THEOREM MergesRestOnAcceptance == Spec => []MergedOnAcceptance
<1>1. IInv => MergedOnAcceptance BY DEF IInv
<1> QED BY <1>1, AlwaysIInv, PTL

(* No commit leaves a zone active or a clash approved, the states a row     *)
(* only passes through inside one transaction.                              *)
THEOREM SessionsTypeCorrect == Spec => []TypeOK
<1>1. IInv => TypeOK
  <2> SUFFICES ASSUME IInv PROVE TypeOK
    OBVIOUS
  <2>1. \A e \in Rows : history[e] # <<>>
    <3>1. \A e \in Rows : Len(history[e]) > 0 BY DEF IInv, Types
    <3> QED BY <3>1, Passages
  <2>2. clock \in 0..Cardinality(Sessions)
    <3> DEFINE D == {s \in Sessions : pc[s] = "done"}
    <3>1. D \in SUBSET Sessions OBVIOUS
    <3>2. clock \in Nat /\ clock <= Cardinality(D) BY DEF IInv, Types, Counted
    <3> HIDE DEF D
    <3> QED BY <3>1, <3>2, CountedFinite
  <2>3. column \in [Rows -> ZONE_STATES \cup CLASH_STATES] BY DEF IInv, Types, RowStates
  <2>4. live \in [Clashes -> [name : Nat, verdict : Verdicts]] BY DEF IInv, Types, LiveRow
  <2> QED BY <2>1, <2>2, <2>3, <2>4 DEF IInv, Types, Settled, TypeOK
<1> QED BY <1>1, AlwaysIInv, PTL

==============================================================================
