---------------------------- MODULE ZoneResolver -----------------------------
(***************************************************************************)
(* One run of a zone's resolver over the clashes of its zone               *)
(* (app/agents/zone_resolver.py).  The monitors' geometry is abstracted to *)
(* their answers: any of them may object to any move, and a move nobody    *)
(* objects to may leave a check unanswered.                                *)
(***************************************************************************)
EXTENDS Naturals, Sequences, FiniteSets

CONSTANTS
  Clashes,      \* the clashes of the zone
  Place,        \* Place[c]: its place in the resolution order
  Immovable,    \* those of which neither element is present and movable
  Unsourced,    \* clearance clashes no rule stands behind
  Shared,       \* those owned by the coordinator
  Moves,        \* the kit's candidates, numbered from the smallest move
  Heading,      \* Heading[m]: its dominant axis and sign
  Monitors,     \* the monitor set
  MaxCollisions,\* bound on predicted collisions
  MaxAttempts   \* settings.max_attempts

None == "none"

ASSUME ResolverAssumption ==
  /\ IsFiniteSet(Clashes) /\ None \notin Clashes
  /\ Place \in [Clashes -> Nat]
  /\ \A c, d \in Clashes : Place[c] = Place[d] => c = d
  /\ Immovable \in SUBSET Clashes /\ Unsourced \in SUBSET Clashes /\ Shared \in SUBSET Clashes
  /\ Moves \in SUBSET Nat
  /\ MaxCollisions \in Nat /\ MaxAttempts \in Nat \ {0}
  /\ "boundary" \in Monitors

VARIABLES
  waiting,    \* clashes not yet taken up
  current,    \* the clash being resolved
  untried,    \* its candidates the loop has not come to
  predicted,  \* the bounding-box prediction for each candidate
  attempt,
  blocked,    \* blocked_axes
  tried,      \* the refused attempts and who objected
  verdict,    \* the verdict of each outcome
  branch,     \* the commits of this run
  tally       \* the counters of the ZoneResult

search == <<untried, predicted, attempt, blocked, tried>>
settled == <<verdict, branch, tally>>
vars == <<waiting, current, search, settled>>

Prediction == [reaches : BOOLEAN, collisions : 0..MaxCollisions]
Unknown == [m \in Moves |-> [reaches |-> FALSE, collisions |-> 0]]
Accepting == {"verified", "verified_conditional"}
Counters == Accepting \cup {"escalated", "flagged_unsourced", "handed_to_coordinator"}

Init ==
  /\ waiting = Clashes /\ current = None
  /\ untried = {} /\ predicted = Unknown /\ attempt = 0 /\ blocked = {} /\ tried = <<>>
  /\ verdict = [c \in Clashes |-> None]
  /\ branch = <<>>
  /\ tally = [k \in Counters |-> 0]

(* Mutant: a clash that is handed over is counted as accepted.              *)
settle_accepted(c, v, counter) ==
  /\ waiting' = waiting \ {c} /\ current' = None
  /\ untried' = {} /\ predicted' = Unknown /\ attempt' = 0 /\ blocked' = {} /\ tried' = <<>>
  /\ verdict' = [verdict EXCEPT ![c] = v]
  /\ tally' = [tally EXCEPT ![v] = @ + 1]

(* The outcome is appended, counted, and the loop turns to the next clash.  *)
settle(c, v, counter) ==
  /\ waiting' = waiting \ {c} /\ current' = None
  /\ untried' = {} /\ predicted' = Unknown /\ attempt' = 0 /\ blocked' = {} /\ tried' = <<>>
  /\ verdict' = [verdict EXCEPT ![c] = v]
  /\ tally' = [tally EXCEPT ![counter] = @ + 1]

first(c) == current = None /\ c \in waiting /\ \A d \in waiting : Place[c] <= Place[d]

------------------------------------------------------------------------------
EscalateImmovable(c) ==
  /\ first(c) /\ c \in Immovable
  /\ settle(c, "escalated", "escalated")
  /\ UNCHANGED branch

FlagUnsourced(c) ==
  /\ first(c) /\ c \in Unsourced \ Immovable
  /\ settle(c, "flagged_unsourced", "flagged_unsourced")
  /\ UNCHANGED branch

(* Without both boxes every candidate is predicted alike, and the kit's     *)
(* order stands.                                                            *)
TakeUp(c) ==
  /\ first(c) /\ c \notin Immovable \cup Unsourced
  /\ current' = c
  /\ untried' = Moves
  /\ predicted' \in [Moves -> Prediction]
  /\ UNCHANGED <<waiting, attempt, blocked, tried, settled>>

(* Mutant: the kit's order, by displacement alone.                          *)
before_by_size(m, n) == m < n

(* _rank_candidates: what can reach the gap, then what runs into least,     *)
(* then the smaller move.                                                   *)
before(m, n) ==
  LET p == predicted[m]
      q == predicted[n] IN
  \/ p.reaches /\ ~q.reaches
  \/ p.reaches = q.reaches /\ p.collisions < q.collisions
  \/ p.reaches = q.reaches /\ p.collisions = q.collisions /\ m < n

candidate(m) == m \in untried /\ \A n \in untried \ {m} : before(m, n)

(* Mutant: the cap is tested one attempt late.                              *)
mayTry_late(m) == current # None /\ attempt <= MaxAttempts /\ candidate(m)

mayTry(m) == current # None /\ attempt < MaxAttempts /\ candidate(m)

(* A heading the boundary monitor has refused costs no further attempt.     *)
Skip(m) ==
  /\ mayTry(m) /\ Heading[m] \in blocked
  /\ untried' = untried \ {m}
  /\ UNCHANGED <<waiting, current, predicted, attempt, blocked, tried, settled>>

(* Mutant: a shared clash is committed as well as handed over.              *)
Accept_shared(m, v) ==
  /\ mayTry(m) /\ Heading[m] \notin blocked
  /\ settle(current, v, IF current \in Shared THEN "handed_to_coordinator" ELSE v)
  /\ branch' = Append(branch, [clash |-> current, move |-> m])

(* No monitor objects; the verdict says if all their checks were answered.  *)
(* The zone commits, or the coordinator has to ask the other zone first.    *)
Accept(m, v) ==
  /\ mayTry(m) /\ Heading[m] \notin blocked
  /\ settle(current, v, IF current \in Shared THEN "handed_to_coordinator" ELSE v)
  /\ IF current \in Shared THEN UNCHANGED branch
     ELSE branch' = Append(branch, [clash |-> current, move |-> m])

(* Mutant: any objection blocks the heading.                                *)
Refuse_blocking(m, objections) ==
  /\ mayTry(m) /\ Heading[m] \notin blocked
  /\ untried' = untried \ {m}
  /\ attempt' = attempt + 1
  /\ tried' = Append(tried, [move |-> m, objections |-> objections])
  /\ blocked' = blocked \cup {Heading[m]}
  /\ UNCHANGED <<waiting, current, predicted, settled>>

(* Mutant: no objection blocks the heading.                                 *)
Refuse_forgetting(m, objections) ==
  /\ mayTry(m) /\ Heading[m] \notin blocked
  /\ untried' = untried \ {m}
  /\ attempt' = attempt + 1
  /\ tried' = Append(tried, [move |-> m, objections |-> objections])
  /\ UNCHANGED <<waiting, current, predicted, blocked, settled>>

Refuse(m, objections) ==
  /\ mayTry(m) /\ Heading[m] \notin blocked
  /\ untried' = untried \ {m}
  /\ attempt' = attempt + 1
  /\ tried' = Append(tried, [move |-> m, objections |-> objections])
  /\ blocked' = IF "boundary" \in objections THEN blocked \cup {Heading[m]} ELSE blocked
  /\ UNCHANGED <<waiting, current, predicted, settled>>

(* The loop has run out of attempts or of candidates.                       *)
GiveUp ==
  /\ current # None
  /\ attempt >= MaxAttempts \/ untried = {}
  /\ settle(current, "escalated", "escalated")
  /\ UNCHANGED branch

Next ==
  \/ \E c \in Clashes : EscalateImmovable(c)
  \/ \E c \in Clashes : FlagUnsourced(c)
  \/ \E c \in Clashes : TakeUp(c)
  \/ \E m \in Moves : Skip(m)
  \/ \E m \in Moves, v \in Accepting : Accept(m, v)
  \/ \E m \in Moves, objections \in SUBSET Monitors \ {{}} : Refuse(m, objections)
  \/ GiveUp

(* run() is a plain loop: it goes on until it is done.                      *)
Spec == Init /\ [][Next]_vars
FairSpec == Spec /\ WF_vars(Next)

------------------------------------------------------------------------------
TypeOK ==
  /\ waiting \in SUBSET Clashes /\ current \in waiting \cup {None}
  /\ untried \in SUBSET Moves
  /\ predicted \in [Moves -> Prediction]
  /\ attempt \in 0..MaxAttempts
  /\ blocked \in SUBSET {Heading[m] : m \in Moves}
  /\ tried \in Seq([move : Moves, objections : SUBSET Monitors])
  /\ verdict \in [Clashes -> Accepting \cup {"escalated", "flagged_unsourced", None}]
  /\ branch \in Seq([clash : Clashes, move : Moves])
  /\ tally \in [Counters -> Nat]

(* The i-th refusal was of candidate m, or rules out its heading.           *)
settles(i, m) ==
  \/ tried[i].move = m
  \/ "boundary" \in tried[i].objections /\ Heading[tried[i].move] = Heading[m]

(* The comment in the loop: an attempt is never spent on a heading the      *)
(* boundary monitor has refused already.                                    *)
NotToldTwice ==
  \A i, k \in DOMAIN tried :
    i < k /\ "boundary" \in tried[i].objections => Heading[tried[i].move] # Heading[tried[k].move]

(* _rank_candidates: a candidate that cannot reach the gap is tried only    *)
(* when every one that can has been tried or lies on a refused heading.     *)
HopelessLast ==
  \A i \in DOMAIN tried : ~predicted[tried[i].move].reaches =>
    \A m \in Moves : predicted[m].reaches => \E k \in DOMAIN tried : k < i /\ settles(k, m)

(* A clash is escalated after MaxAttempts refusals, or with every candidate *)
(* refused or on a heading the boundary monitor refused.                    *)
EscalationIsEarned ==
  [][\A c \in Clashes \ Immovable : verdict[c] = None /\ verdict'[c] = "escalated" =>
       \/ Len(tried) = MaxAttempts
       \/ \A m \in Moves : \E i \in DOMAIN tried : settles(i, m)]_vars

(* Each verdict is counted once, a clash that was handed over as such.      *)
EveryVerdictCounted ==
  \A k \in Counters :
    tally[k] = Cardinality({c \in Clashes :
      IF k = "handed_to_coordinator" THEN c \in Shared /\ verdict[c] \in Accepting
      ELSE verdict[c] = k /\ ~(c \in Shared /\ k \in Accepting)})

(* The run keeps the resolver's promise: one verdict for every clash, and a *)
(* commit exactly for the accepted move of a clash the zone owns alone.     *)
P == INSTANCE ResolverPromise WITH verdict <- verdict, branch <- branch
KeepsPromise == P!FairSpec
==============================================================================
