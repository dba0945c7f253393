--------------------------- MODULE ResolverPromise ---------------------------
(***************************************************************************)
(* What a zone's resolver promises its coordinator: every clash it is      *)
(* given gets one verdict, and the zone's branch receives the accepted     *)
(* move of a clash the zone owns in the step that settles it, and nothing  *)
(* else, ever.                                                             *)
(***************************************************************************)
EXTENDS Naturals, Sequences

CONSTANTS
  Clashes,  \* the clashes of the zone
  Shared,   \* those it owns together with another zone
  Moves     \* the moves that can be proposed

VARIABLES
  verdict,  \* the verdict on each clash
  branch    \* the commits made

promise == <<verdict, branch>>

Accepting == {"verified", "verified_conditional"}
Declining == {"escalated", "flagged_unsourced"}

Init ==
  /\ verdict = [c \in Clashes |-> "none"]
  /\ branch = <<>>

Accept(c) ==
  /\ \E v \in Accepting : verdict' = [verdict EXCEPT ![c] = v]
  /\ IF c \in Shared THEN UNCHANGED branch
     ELSE \E m \in Moves : branch' = Append(branch, [clash |-> c, move |-> m])

Decline(c) ==
  /\ \E v \in Declining : verdict' = [verdict EXCEPT ![c] = v]
  /\ UNCHANGED branch

Settle(c) == verdict[c] = "none" /\ (Accept(c) \/ Decline(c))

Next == \E c \in Clashes : Settle(c)

Spec == Init /\ [][Next]_promise
FairSpec == Spec /\ WF_promise(Next)

------------------------------------------------------------------------------
(* A clash is committed once, and only because its move was accepted.       *)
CommitsAreAccepted ==
  /\ \A i \in DOMAIN branch : verdict[branch[i].clash] \in Accepting /\ branch[i].clash \notin Shared
  /\ \A i, k \in DOMAIN branch : branch[i].clash = branch[k].clash => i = k
==============================================================================
