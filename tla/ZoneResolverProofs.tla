------------------------- MODULE ZoneResolverProofs --------------------------
(***************************************************************************)
(* What a resolver's run guarantees whatever the clashes, the candidates,  *)
(* their predictions, the monitors' answers and the attempt cap: it keeps  *)
(* ResolverPromise, never asks about a refused heading again, and gives a  *)
(* clash up only when there was nothing left to try.                       *)
(***************************************************************************)
EXTENDS ZoneResolver, FiniteSetTheorems, TLAPS

------------------------------------------------------------------------------
(* The types *)

LEMMA InitTypes == ASSUME Init PROVE TypeOK
BY ResolverAssumption DEF Init, TypeOK, Unknown, Prediction, Counters

LEMMA SettleTypes ==
  ASSUME TypeOK, NEW c \in waiting,
         NEW v \in Accepting \cup {"escalated", "flagged_unsourced"}, NEW counter \in Counters,
         settle(c, v, counter),
         branch' \in Seq([clash : Clashes, move : Moves])
  PROVE  TypeOK'
BY ResolverAssumption DEF TypeOK, settle, Unknown, Prediction, Counters

LEMMA NextTypes == ASSUME TypeOK, [Next]_vars PROVE TypeOK'
<1>1. ASSUME NEW c \in Clashes, EscalateImmovable(c) \/ FlagUnsourced(c) PROVE TypeOK'
  BY <1>1, SettleTypes DEF EscalateImmovable, FlagUnsourced, first, TypeOK, Counters
<1>2. ASSUME NEW c \in Clashes, TakeUp(c) PROVE TypeOK'
  BY <1>2 DEF TypeOK, TakeUp, first, settled
<1>3. ASSUME NEW m \in Moves, Skip(m) PROVE TypeOK'
  BY <1>3 DEF TypeOK, Skip, settled
<1>4. ASSUME NEW m \in Moves, NEW v \in Accepting, Accept(m, v) PROVE TypeOK'
  <2>1. current \in waiting /\ current \in Clashes
    BY <1>4 DEF TypeOK, Accept, mayTry
  <2>2. branch' \in Seq([clash : Clashes, move : Moves])
    <3>1. CASE current \in Shared
      BY <1>4, <3>1 DEF TypeOK, Accept
    <3>2. CASE current \notin Shared
      <4>1. branch' = Append(branch, [clash |-> current, move |-> m])
        BY <1>4, <3>2 DEF Accept
      <4>2. [clash |-> current, move |-> m] \in [clash : Clashes, move : Moves]
        BY <2>1
      <4>3. branch \in Seq([clash : Clashes, move : Moves])
        BY DEF TypeOK
      <4> QED BY <4>1, <4>2, <4>3
    <3> QED BY <3>1, <3>2
  <2>3. settle(current, v, IF current \in Shared THEN "handed_to_coordinator" ELSE v)
    BY <1>4 DEF Accept
  <2>4. (IF current \in Shared THEN "handed_to_coordinator" ELSE v) \in Counters
    BY DEF Counters
  <2> QED BY <2>1, <2>2, <2>3, <2>4, SettleTypes
<1>5. ASSUME NEW m \in Moves, NEW objections \in SUBSET Monitors \ {{}}, Refuse(m, objections)
      PROVE  TypeOK'
  <2>1. attempt' \in 0..MaxAttempts
    BY <1>5, ResolverAssumption DEF TypeOK, Refuse, mayTry
  <2>2. tried' \in Seq([move : Moves, objections : SUBSET Monitors])
    BY <1>5 DEF TypeOK, Refuse
  <2> QED BY <1>5, <2>1, <2>2 DEF TypeOK, Refuse, settled
<1>6. CASE GiveUp
  <2>1. current \in waiting
    BY <1>6 DEF TypeOK, GiveUp
  <2> QED BY <1>6, <2>1, SettleTypes DEF GiveUp, TypeOK, Counters
<1>7. CASE UNCHANGED vars
  BY <1>7 DEF vars, search, settled, TypeOK
<1> QED BY <1>1, <1>2, <1>3, <1>4, <1>5, <1>6, <1>7 DEF Next

(* The run keeps its types for any clashes, candidates and attempt cap; in  *)
(* particular it never spends more than max_attempts.                       *)
THEOREM ResolverTypeCorrect == Spec => []TypeOK
BY InitTypes, NextTypes, PTL DEF Spec

------------------------------------------------------------------------------
(* The promise *)

WaitingIsUnsettled == waiting = {c \in Clashes : verdict[c] = None}

LEMMA SettleUnsettles ==
  ASSUME TypeOK, WaitingIsUnsettled, NEW c \in waiting,
         NEW v \in Accepting \cup {"escalated", "flagged_unsourced"}, NEW counter \in Counters,
         settle(c, v, counter)
  PROVE  WaitingIsUnsettled'
BY DEF TypeOK, WaitingIsUnsettled, settle, Accepting, None

LEMMA NextUnsettled ==
  ASSUME TypeOK, WaitingIsUnsettled, [Next]_vars
  PROVE  WaitingIsUnsettled'
<1>1. ASSUME NEW c \in Clashes, EscalateImmovable(c) \/ FlagUnsourced(c) PROVE WaitingIsUnsettled'
  BY <1>1, SettleUnsettles DEF EscalateImmovable, FlagUnsourced, first, Counters
<1>2. ASSUME UNCHANGED <<waiting, verdict>> PROVE WaitingIsUnsettled'
  BY <1>2 DEF WaitingIsUnsettled
<1>3. ASSUME NEW m \in Moves, NEW v \in Accepting, Accept(m, v)
      PROVE  WaitingIsUnsettled'
  <2>1. current \in waiting
    BY <1>3 DEF TypeOK, Accept, mayTry
  <2>2. settle(current, v, IF current \in Shared THEN "handed_to_coordinator" ELSE v)
    BY <1>3 DEF Accept
  <2>3. (IF current \in Shared THEN "handed_to_coordinator" ELSE v) \in Counters
    BY DEF Counters
  <2> QED BY <2>1, <2>2, <2>3, SettleUnsettles
<1>4. CASE GiveUp
  BY <1>4, SettleUnsettles DEF GiveUp, TypeOK, Counters
<1> QED BY <1>1, <1>2, <1>3, <1>4
        DEF Next, TakeUp, Skip, Refuse, settled, vars

LEMMA EveryStepIsPromised ==
  ASSUME TypeOK, WaitingIsUnsettled, [Next]_vars
  PROVE  [P!Next]_P!promise
<1>1. ASSUME NEW c \in Clashes, EscalateImmovable(c) \/ FlagUnsourced(c) PROVE P!Settle(c)
  BY <1>1 DEF EscalateImmovable, FlagUnsourced, first, settle, WaitingIsUnsettled, None,
              P!Settle, P!Decline, P!Declining
<1>2. ASSUME NEW m \in Moves, NEW v \in Accepting, Accept(m, v)
      PROVE  P!Settle(current) /\ current \in Clashes
  <2>1. current \in Clashes /\ verdict[current] = "none"
    BY <1>2 DEF TypeOK, Accept, mayTry, WaitingIsUnsettled, None
  <2>2. \E a \in P!Accepting : verdict' = [verdict EXCEPT ![current] = a]
    BY <1>2 DEF Accept, settle, Accepting, P!Accepting
  <2>3. P!Accept(current)
    BY <1>2, <2>2 DEF Accept, P!Accept
  <2> QED BY <2>1, <2>3 DEF P!Settle
<1>3. CASE GiveUp
  <2>1. current \in Clashes /\ verdict[current] = "none"
    BY <1>3 DEF TypeOK, GiveUp, WaitingIsUnsettled, None
  <2>2. P!Settle(current)
    BY <1>3, <2>1 DEF GiveUp, settle, P!Settle, P!Decline, P!Declining
  <2> QED BY <2>1, <2>2 DEF P!Next
<1> QED BY <1>1, <1>2, <1>3
        DEF Next, TakeUp, Skip, Refuse, settled, vars, P!Next, P!promise

(* Every run of the resolver is a run of ResolverPromise: one verdict for   *)
(* a clash, and a commit exactly with the acceptance of one the zone owns.  *)
THEOREM ResolverKeepsPromise == Spec => P!Spec
<1>1. Init => P!Init /\ WaitingIsUnsettled
  BY DEF Init, P!Init, WaitingIsUnsettled, None
<1>2. TypeOK /\ WaitingIsUnsettled /\ [Next]_vars => WaitingIsUnsettled' /\ [P!Next]_P!promise
  BY NextUnsettled, EveryStepIsPromised
<1> QED BY <1>1, <1>2, ResolverTypeCorrect, PTL DEF Spec, P!Spec

------------------------------------------------------------------------------
(* A clash is committed once, and only because its move was accepted: a     *)
(* consequence of the promise alone.                                        *)

LEMMA ElementOf == ASSUME NEW S, NEW s \in Seq(S), NEW i \in DOMAIN s PROVE s[i] \in S
OBVIOUS

LEMMA BranchClashes ==
  ASSUME NEW b \in Seq([clash : Clashes, move : Moves])
  PROVE  \A i \in DOMAIN b : b[i].clash \in Clashes
<1> SUFFICES ASSUME NEW i \in DOMAIN b PROVE b[i].clash \in Clashes
  OBVIOUS
<1>1. b[i] \in [clash : Clashes, move : Moves]
  BY ElementOf
<1> QED BY <1>1

LEMMA PromiseKeepsCommits ==
  ASSUME TypeOK, P!CommitsAreAccepted, [P!Next]_P!promise
  PROVE  P!CommitsAreAccepted'
<1>1. ASSUME NEW c \in Clashes, verdict[c] = "none" PROVE \A i \in DOMAIN branch : branch[i].clash # c
  BY <1>1 DEF P!CommitsAreAccepted, P!Accepting
<1>2. ASSUME NEW c \in Clashes, verdict[c] = "none", P!Accept(c) PROVE P!CommitsAreAccepted'
  <2>1. PICK v \in P!Accepting : verdict' = [verdict EXCEPT ![c] = v]
    BY <1>2 DEF P!Accept
  <2>2. \A i \in DOMAIN branch : branch[i].clash \in Clashes
    BY BranchClashes DEF TypeOK
  <2>3. \A i \in DOMAIN branch : verdict'[branch[i].clash] = verdict[branch[i].clash]
    BY <1>1, <1>2, <2>1, <2>2 DEF TypeOK
  <2>4. CASE c \in Shared
    <3>1. branch' = branch
      BY <1>2, <2>4 DEF P!Accept
    <3> QED BY <2>3, <3>1 DEF P!CommitsAreAccepted
  <2>5. CASE c \notin Shared
    <3>1. PICK m \in Moves : branch' = Append(branch, [clash |-> c, move |-> m])
      BY <1>2, <2>5 DEF P!Accept
    <3>2. branch \in Seq([clash : Clashes, move : Moves])
      BY DEF TypeOK
    <3>3. DOMAIN branch' = 1..Len(branch) + 1 /\ DOMAIN branch = 1..Len(branch) /\ Len(branch) \in Nat
      BY <3>1, <3>2
    <3>4. \A i \in DOMAIN branch : branch'[i] = branch[i]
      BY <3>1, <3>2
    <3>5. branch'[Len(branch) + 1].clash = c
      BY <3>1, <3>2
    <3>6. verdict'[c] \in P!Accepting
      BY <2>1 DEF TypeOK
    <3>7. \A i \in DOMAIN branch' : i \in DOMAIN branch \/ i = Len(branch) + 1
      BY <3>3
    <3>8. \A i \in DOMAIN branch' : verdict'[branch'[i].clash] \in P!Accepting /\ branch'[i].clash \notin Shared
      BY <2>3, <2>5, <3>4, <3>5, <3>6, <3>7 DEF P!CommitsAreAccepted
    <3>9. \A i, k \in DOMAIN branch' : branch'[i].clash = branch'[k].clash => i = k
      BY <1>1, <1>2, <3>4, <3>5, <3>7 DEF P!CommitsAreAccepted
    <3> QED BY <3>8, <3>9 DEF P!CommitsAreAccepted
  <2> QED BY <2>4, <2>5
<1>3. ASSUME NEW c \in Clashes, verdict[c] = "none", P!Decline(c) PROVE P!CommitsAreAccepted'
  <2>1. PICK v \in P!Declining : verdict' = [verdict EXCEPT ![c] = v]
    BY <1>3 DEF P!Decline
  <2>2. \A i \in DOMAIN branch : branch[i].clash \in Clashes
    BY BranchClashes DEF TypeOK
  <2>3. \A i \in DOMAIN branch : verdict'[branch[i].clash] = verdict[branch[i].clash]
    BY <1>1, <1>3, <2>1, <2>2 DEF TypeOK
  <2>4. branch' = branch
    BY <1>3 DEF P!Decline
  <2> QED BY <2>3, <2>4 DEF P!CommitsAreAccepted
<1>4. CASE UNCHANGED P!promise
  BY <1>4 DEF P!promise, P!CommitsAreAccepted
<1> QED BY <1>2, <1>3, <1>4 DEF P!Next, P!Settle

(* No clash is committed twice by a run, none that was not accepted, and    *)
(* none the coordinator owns.                                               *)
THEOREM ResolverCommitsOnce == Spec => []P!CommitsAreAccepted
<1>1. P!Init => P!CommitsAreAccepted
  BY DEF P!Init, P!CommitsAreAccepted
<1>2. TypeOK /\ P!CommitsAreAccepted /\ [P!Next]_P!promise => P!CommitsAreAccepted'
  BY PromiseKeepsCommits
<1> QED BY <1>1, <1>2, ResolverTypeCorrect, ResolverKeepsPromise, PTL DEF P!Spec

------------------------------------------------------------------------------
(* The search *)

SearchInv ==
  /\ Len(tried) = attempt
  /\ \A h \in blocked : \E i \in DOMAIN tried : "boundary" \in tried[i].objections /\ Heading[tried[i].move] = h
  /\ \A i \in DOMAIN tried : "boundary" \in tried[i].objections => Heading[tried[i].move] \in blocked
  /\ current # None => \A m \in Moves \ untried : \E i \in DOMAIN tried : settles(i, m)

Clear == tried = <<>> /\ attempt = 0 /\ blocked = {} /\ current = None
Sought == SearchInv /\ NotToldTwice /\ HopelessLast

LEMMA ClearIsSought == ASSUME Clear PROVE Sought
BY DEF Clear, Sought, SearchInv, NotToldTwice, HopelessLast

LEMMA RefuseIsSought ==
  ASSUME TypeOK, Sought, NEW m \in Moves, NEW objections \in SUBSET Monitors \ {{}},
         Refuse(m, objections)
  PROVE  Sought'
<1>0. PICK n \in Nat : n = Len(tried) + 1
  BY DEF TypeOK
<1>1. /\ tried' = Append(tried, [move |-> m, objections |-> objections])
      /\ tried \in Seq([move : Moves, objections : SUBSET Monitors])
      /\ Len(tried) \in Nat
  BY DEF TypeOK, Refuse
<1>2. DOMAIN tried' = 1..n /\ DOMAIN tried = 1..Len(tried) /\ Len(tried') = n
  BY <1>0, <1>1
<1>3. \A i \in DOMAIN tried : tried'[i] = tried[i]
  BY <1>1
<1>4. tried'[n].move = m /\ tried'[n].objections = objections
  BY <1>0, <1>1
<1>5. /\ \A i \in DOMAIN tried' : i \in DOMAIN tried \/ i = n
      /\ \A i \in DOMAIN tried : i \in DOMAIN tried' /\ i < n
      /\ n \in DOMAIN tried'
  BY <1>0, <1>1, <1>2
<1>6. /\ current' = current /\ untried' = untried \ {m} /\ predicted' = predicted
      /\ attempt' = attempt + 1 /\ current # None
      /\ Heading[m] \notin blocked
      /\ blocked' = IF "boundary" \in objections THEN blocked \cup {Heading[m]} ELSE blocked
      /\ \A k \in untried \ {m} : before(m, k)
  BY DEF Refuse, mayTry, candidate
<1>7. \A k \in Moves : (\E i \in DOMAIN tried : settles(i, k)) => \E i \in DOMAIN tried' : i \in DOMAIN tried /\ settles(i, k)'
  BY <1>3, <1>5 DEF settles
<1>8. settles(n, m)'
  BY <1>4 DEF settles
<1>9. SearchInv'
  <2>1. Len(tried') = attempt'
    BY <1>0, <1>1, <1>2, <1>6 DEF Sought, SearchInv
  <2>2. \A h \in blocked' : \E i \in DOMAIN tried' : "boundary" \in tried'[i].objections /\ Heading[tried'[i].move] = h
    BY <1>3, <1>4, <1>5, <1>6 DEF Sought, SearchInv
  <2>3. \A i \in DOMAIN tried' : "boundary" \in tried'[i].objections => Heading[tried'[i].move] \in blocked'
    BY <1>3, <1>4, <1>5, <1>6 DEF Sought, SearchInv
  <2>4. \A k \in Moves \ untried' : \E i \in DOMAIN tried' : settles(i, k)'
    BY <1>5, <1>6, <1>7, <1>8 DEF Sought, SearchInv
  <2> QED BY <2>1, <2>2, <2>3, <2>4 DEF SearchInv
<1>10. NotToldTwice'
  <2> SUFFICES ASSUME NEW i \in DOMAIN tried', NEW k \in DOMAIN tried',
                      i < k, "boundary" \in tried'[i].objections
               PROVE  Heading[tried'[i].move] # Heading[tried'[k].move]
    BY DEF NotToldTwice
  <2>1. i \in DOMAIN tried
    BY <1>0, <1>1, <1>2, <1>5
  <2>2. CASE k \in DOMAIN tried
    BY <1>3, <2>1, <2>2 DEF Sought, NotToldTwice
  <2>3. CASE k = n
    BY <1>3, <1>4, <1>6, <2>1, <2>3 DEF Sought, SearchInv
  <2> QED BY <1>5, <2>2, <2>3
<1>11. HopelessLast'
  <2> SUFFICES ASSUME NEW i \in DOMAIN tried', ~predicted[tried'[i].move].reaches,
                      NEW k \in Moves, predicted[k].reaches
               PROVE  \E j \in DOMAIN tried' : j < i /\ settles(j, k)'
    BY <1>6 DEF HopelessLast
  <2>1. CASE i \in DOMAIN tried
    <3>1. PICK j \in DOMAIN tried : j < i /\ settles(j, k)
      BY <1>3, <2>1 DEF Sought, HopelessLast
    <3> QED BY <1>3, <1>5, <3>1 DEF settles
  <2>2. CASE i = n
    <3>1. k \notin untried
      BY <1>4, <1>6, <2>2 DEF before
    <3>2. \E j \in DOMAIN tried : settles(j, k)
      BY <1>6, <3>1 DEF Sought, SearchInv
    <3> QED BY <1>3, <1>5, <2>2, <3>2 DEF settles
  <2> QED BY <1>5, <2>1, <2>2
<1> QED BY <1>9, <1>10, <1>11 DEF Sought

LEMMA SkipIsSought ==
  ASSUME TypeOK, Sought, NEW m \in Moves, Skip(m)
  PROVE  Sought'
<1>1. UNCHANGED <<current, predicted, attempt, blocked, tried>> /\ untried' = untried \ {m}
  BY DEF Skip
<1>2. \E i \in DOMAIN tried : settles(i, m)
  BY DEF Skip, Sought, SearchInv, settles
<1>3. \A k \in Moves : \A i \in DOMAIN tried : settles(i, k)' <=> settles(i, k)
  BY <1>1 DEF settles
<1>4. SearchInv'
  BY <1>1, <1>2, <1>3 DEF Sought, SearchInv
<1>5. NotToldTwice' /\ HopelessLast'
  BY <1>1, <1>3 DEF Sought, NotToldTwice, HopelessLast
<1> QED BY <1>4, <1>5 DEF Sought

LEMMA NextIsSought ==
  ASSUME TypeOK, Sought, current = None => Clear, [Next]_vars
  PROVE  Sought' /\ (current' = None => Clear')
<1>0. /\ Clear' => Sought' /\ (current' = None => Clear')
      /\ Sought' /\ current' # None => Sought' /\ (current' = None => Clear')
  BY DEF Clear, Sought, SearchInv, NotToldTwice, HopelessLast
<1>1. ASSUME NEW c \in Clashes, EscalateImmovable(c) \/ FlagUnsourced(c) PROVE Clear'
  BY <1>1 DEF EscalateImmovable, FlagUnsourced, settle, Clear
<1>2. ASSUME NEW c \in Clashes, TakeUp(c) PROVE Sought' /\ current' # None
  <2>1. Clear /\ UNCHANGED <<attempt, blocked, tried>> /\ untried' = Moves /\ current' = c
    BY <1>2 DEF TakeUp, first
  <2>2. current' # None
    BY <2>1, ResolverAssumption
  <2> QED BY <2>1, <2>2 DEF Clear, Sought, SearchInv, NotToldTwice, HopelessLast
<1>3. ASSUME NEW m \in Moves, Skip(m) PROVE Sought' /\ current' # None
  BY <1>3, SkipIsSought DEF Skip, mayTry
<1>4. ASSUME NEW m \in Moves, NEW v \in Accepting, Accept(m, v) PROVE Clear'
  BY <1>4 DEF Accept, settle, Clear
<1>5. ASSUME NEW m \in Moves, NEW objections \in SUBSET Monitors \ {{}}, Refuse(m, objections)
      PROVE  Sought' /\ current' # None
  BY <1>5, RefuseIsSought DEF Refuse, mayTry
<1>6. CASE GiveUp
  BY <1>0, <1>6 DEF GiveUp, settle, Clear
<1>7. CASE UNCHANGED vars
  <2>1. UNCHANGED <<current, untried, predicted, attempt, blocked, tried>>
    BY <1>7 DEF vars, search
  <2> QED BY <2>1 DEF Sought, SearchInv, NotToldTwice, HopelessLast, settles, Clear
<1>8. CASE \E c \in Clashes : EscalateImmovable(c) \/ FlagUnsourced(c) \/ TakeUp(c)
  BY <1>0, <1>1, <1>2, <1>8
<1>9. CASE \E m \in Moves : Skip(m) \/ (\E v \in Accepting : Accept(m, v))
  BY <1>0, <1>3, <1>4, <1>9
<1>10. CASE \E m \in Moves, objections \in SUBSET Monitors \ {{}} : Refuse(m, objections)
  BY <1>0, <1>5, <1>10
<1> QED BY <1>6, <1>7, <1>8, <1>9, <1>10 DEF Next

LEMMA AlwaysSought == Spec => [](Sought /\ (current = None => Clear))
<1>1. Init => Sought /\ (current = None => Clear)
  BY ClearIsSought DEF Init, Clear
<1>2. TypeOK /\ Sought /\ (current = None => Clear) /\ [Next]_vars
        => Sought' /\ (current = None => Clear)'
  BY NextIsSought
<1> QED BY <1>1, <1>2, ResolverTypeCorrect, PTL DEF Spec

(* No attempt is spent on a heading the boundary monitor has refused.       *)
THEOREM NeverToldTwice == Spec => []NotToldTwice
BY AlwaysSought, PTL DEF Sought

(* A candidate predicted hopeless is tried only after all the others.       *)
THEOREM HopelessComeLast == Spec => []HopelessLast
BY AlwaysSought, PTL DEF Sought

(* A clash is escalated only when the attempts are spent or every candidate *)
(* was refused or ruled out by a refusal.                                   *)
THEOREM EscalationsAreEarned == Spec => EscalationIsEarned
<1>1. ASSUME TypeOK, Sought, [Next]_vars,
             NEW c \in Clashes \ Immovable, verdict[c] = None, verdict'[c] = "escalated"
      PROVE  \/ Len(tried) = MaxAttempts
             \/ \A m \in Moves : \E i \in DOMAIN tried : settles(i, m)
  <2>1. \A d \in Clashes : ~FlagUnsourced(d) /\ ~EscalateImmovable(d)
    BY <1>1 DEF FlagUnsourced, EscalateImmovable, settle, TypeOK, None, first
  <2>2. \A m \in Moves, v \in Accepting : ~Accept(m, v)
    BY <1>1 DEF Accept, settle, TypeOK, None, Accepting
  <2>3. GiveUp
    BY <1>1, <2>1, <2>2 DEF Next, TakeUp, Skip, Refuse, settled, vars, None
  <2>4. CASE attempt >= MaxAttempts
    BY <1>1, <2>4, ResolverAssumption DEF Sought, SearchInv, TypeOK
  <2>5. CASE untried = {}
    BY <1>1, <2>3, <2>5 DEF Sought, SearchInv, GiveUp
  <2> QED BY <2>3, <2>4, <2>5 DEF GiveUp
<1>2. TypeOK /\ Sought /\ [Next]_vars =>
        [\A c \in Clashes \ Immovable : verdict[c] = None /\ verdict'[c] = "escalated" =>
           \/ Len(tried) = MaxAttempts
           \/ \A m \in Moves : \E i \in DOMAIN tried : settles(i, m)]_vars
  BY <1>1
<1> QED BY <1>2, AlwaysSought, ResolverTypeCorrect, PTL DEF Spec, EscalationIsEarned

------------------------------------------------------------------------------
(* The counters *)

(* The clashes a counter stands for, and the counter of a settled clash.    *)
standsFor(k) ==
  {c \in Clashes : IF k = "handed_to_coordinator" THEN c \in Shared /\ verdict[c] \in Accepting
                   ELSE verdict[c] = k /\ ~(c \in Shared /\ k \in Accepting)}
counterOf(c, v) == IF c \in Shared /\ v \in Accepting THEN "handed_to_coordinator" ELSE v

LEMMA SettleCounts ==
  ASSUME TypeOK, WaitingIsUnsettled, EveryVerdictCounted, NEW c \in waiting,
         NEW v \in Accepting \cup {"escalated", "flagged_unsourced"},
         settle(c, v, counterOf(c, v))
  PROVE  EveryVerdictCounted'
<1>1. c \in Clashes /\ verdict[c] = None /\ counterOf(c, v) \in Counters
  BY DEF TypeOK, WaitingIsUnsettled, counterOf, Counters
<1>2. /\ verdict' = [verdict EXCEPT ![c] = v]
      /\ tally' = [tally EXCEPT ![counterOf(c, v)] = @ + 1]
  BY DEF settle
<1>3. ASSUME NEW k \in Counters
      PROVE  tally'[k] = Cardinality(standsFor(k)')
  <2>1. IsFiniteSet(standsFor(k)) /\ c \notin standsFor(k)
    <3>1. c \notin standsFor(k)
      BY <1>1 DEF standsFor, None, Accepting, Counters
    <3>2. standsFor(k) \in SUBSET Clashes
      BY DEF standsFor
    <3> QED BY <3>1, <3>2, ResolverAssumption, FS_Subset
  <2>2. tally[k] = Cardinality(standsFor(k)) /\ tally[k] \in Nat
    BY DEF EveryVerdictCounted, standsFor, TypeOK
  <2>3. \A d \in Clashes : verdict'[d] = IF d = c THEN v ELSE verdict[d]
    BY <1>2 DEF TypeOK
  <2>4. CASE k = counterOf(c, v)
    <3>1. standsFor(k)' = standsFor(k) \cup {c}
      BY <1>1, <2>3, <2>4 DEF standsFor, counterOf, Accepting
    <3>2. tally'[k] = tally[k] + 1
      BY <1>2, <2>4 DEF TypeOK
    <3> QED BY <2>1, <2>2, <3>1, <3>2, FS_AddElement
  <2>5. CASE k # counterOf(c, v)
    <3>1. standsFor(k)' = standsFor(k)
      BY <1>1, <2>3, <2>5 DEF standsFor, counterOf, Accepting, None, Counters
    <3>2. tally'[k] = tally[k]
      BY <1>2, <2>5 DEF TypeOK
    <3> QED BY <2>2, <3>1, <3>2
  <2> QED BY <2>4, <2>5
<1> QED BY <1>3 DEF EveryVerdictCounted, standsFor

LEMMA NextCounts ==
  ASSUME TypeOK, WaitingIsUnsettled, EveryVerdictCounted, [Next]_vars
  PROVE  EveryVerdictCounted'
<1>1. ASSUME NEW c \in Clashes, EscalateImmovable(c) \/ FlagUnsourced(c)
      PROVE  EveryVerdictCounted'
  <2>1. c \in waiting BY <1>1 DEF EscalateImmovable, FlagUnsourced, first
  <2>2. PICK v \in {"escalated", "flagged_unsourced"} : settle(c, v, v)
    BY <1>1 DEF EscalateImmovable, FlagUnsourced
  <2>3. counterOf(c, v) = v BY <2>2 DEF counterOf, Accepting
  <2>4. settle(c, v, counterOf(c, v)) BY <2>2, <2>3 DEF settle
  <2> QED BY <2>1, <2>4, SettleCounts
<1>2. ASSUME UNCHANGED <<verdict, tally>> PROVE EveryVerdictCounted'
  BY <1>2 DEF EveryVerdictCounted
<1>3. ASSUME NEW m \in Moves, NEW v \in Accepting, Accept(m, v) PROVE EveryVerdictCounted'
  <2>1. current \in waiting BY <1>3 DEF TypeOK, Accept, mayTry
  <2>2. PICK c \in waiting : c = current BY <2>1
  <2>3. settle(c, v, IF c \in Shared THEN "handed_to_coordinator" ELSE v)
    BY <1>3, <2>2 DEF Accept
  <2>4. settle(c, v, counterOf(c, v)) BY <2>3 DEF counterOf, settle
  <2> QED BY <2>4, SettleCounts
<1>4. CASE GiveUp
  <2>1. PICK c \in waiting : c = current BY <1>4 DEF TypeOK, GiveUp
  <2>2. settle(c, "escalated", "escalated") BY <1>4, <2>1 DEF GiveUp
  <2>3. counterOf(c, "escalated") = "escalated" BY DEF counterOf, Accepting
  <2>4. settle(c, "escalated", counterOf(c, "escalated")) BY <2>2, <2>3 DEF settle
  <2> QED BY <2>4, SettleCounts
<1> QED BY <1>1, <1>2, <1>3, <1>4
        DEF Next, TakeUp, Skip, Refuse, settled, vars

(* The counters of a run's result are the verdicts it gave, each in one     *)
(* counter, whatever the monitors answered.                                 *)
THEOREM VerdictsAreCounted == Spec => []EveryVerdictCounted
<1>1. Init => EveryVerdictCounted
  <2> SUFFICES ASSUME Init, NEW k \in Counters PROVE tally[k] = Cardinality(standsFor(k))
    BY DEF EveryVerdictCounted, standsFor
  <2>1. standsFor(k) = {} BY DEF standsFor, Init, None, Accepting, Counters
  <2> QED BY <2>1, FS_EmptySet DEF Init
<1>2. Init => WaitingIsUnsettled BY DEF Init, WaitingIsUnsettled
<1> QED BY <1>1, <1>2, NextUnsettled, NextCounts, ResolverTypeCorrect, PTL DEF Spec

==============================================================================
