--------------------------- MODULE VersionPromise ----------------------------
(***************************************************************************)
(* What reviewers, workers and later versions are promised of a model      *)
(* version's clashes: nothing is seen of a run until it is complete, then  *)
(* every clash is judged by all the zones it concerns or its zone is in    *)
(* the queue, and from there its standing moves along these lines only.    *)
(***************************************************************************)
CONSTANTS
  Zones, Clashes,
  Home,      \* Home[c]: the zone clash c belongs to
  Owning     \* Owning[c]: the zones whose elements meet in c

VARIABLES
  run,       \* "running" or "complete"
  standing,  \* the state of each clash
  judges,    \* the zones whose monitors accept its live proposal
  zones      \* the state of each zone

promise == <<run, standing, judges, zones>>

Accepted == {"verified", "verified_conditional"}
STANDINGS == Accepted \cup {"open", "proposed", "escalated", "merged", "resolved"}
ZONE_STATES == {"queued", "awaiting_review", "merged"}

Init ==
  /\ run = "running"
  /\ standing = [c \in Clashes |-> "open"]
  /\ judges = [c \in Clashes |-> {}]
  /\ zones = [z \in Zones |-> "queued"]

------------------------------------------------------------------------------
(* What can become of one clash.                                            *)
becomes(c, s, behind) == standing'[c] = s /\ judges'[c] = behind
same(c) == becomes(c, standing[c], judges[c])
accepted(c, behind) == \E s \in Accepted : becomes(c, s, behind)
refused(c) == becomes(c, "escalated", {})

(* An acceptance is withdrawn only together with queueing the zone.         *)
reopened(c) ==
  /\ standing[c] \in Accepted
  /\ becomes(c, "proposed", {})
  /\ zones'[Home[c]] = "queued"

(* What the zone's own resolver concludes of it.                            *)
concluded(c) ==
  \/ refused(c)
  \/ Owning[c] = {Home[c]} /\ accepted(c, {Home[c]})
  \/ Owning[c] # {Home[c]} /\ becomes(c, "proposed", {Home[c]})

zoneBecomes(z, s) == \A y \in Zones : zones'[y] = IF y = z THEN s ELSE zones[y]

(* A commit disturbs accepted clashes and no others, and no zone without.   *)
disturbs(others) ==
  /\ \A d \in others : same(d) \/ reopened(d)
  /\ \A z \in Zones : \/ zones'[z] = zones[z]
                      \/ \E d \in others : Home[d] = z /\ reopened(d)

------------------------------------------------------------------------------
Complete ==
  /\ run = "running" /\ run' = "complete"
  /\ \A c \in Clashes :
       \/ accepted(c, Owning[c])
       \/ refused(c)
       \/ /\ \E s \in {"open", "proposed"} : becomes(c, s, {})
          /\ zones'[Home[c]] = "queued"

Resolve(z) ==
  /\ \A c \in Clashes :
       IF Home[c] = z /\ standing[c] \in {"open", "proposed"} THEN concluded(c) ELSE same(c)
  /\ zoneBecomes(z, "awaiting_review")

Arbitrate(c) ==
  /\ Owning[c] # {Home[c]}
  /\ accepted(c, Owning[c]) \/ refused(c)
  /\ disturbs(Clashes \ {c})

Rebase == disturbs(Clashes)

Approve(z) ==
  /\ zones[z] # "merged"
  /\ \A c \in Clashes :
       IF Home[c] = z /\ standing[c] \in Accepted THEN becomes(c, "merged", judges[c]) ELSE same(c)
  /\ zoneBecomes(z, "merged")

Reject(z) ==
  /\ \A c \in Clashes :
       IF Home[c] = z /\ standing[c] \in Accepted \cup {"proposed"}
       THEN becomes(c, "open", judges[c]) ELSE same(c)
  /\ zoneBecomes(z, "queued")

(* The reviewer's own vector, on the word of the reviewed zone alone.       *)
Edit(z) ==
  /\ zones[z] # "merged"
  /\ \A c \in Clashes :
       same(c) \/ (Home[c] = z /\ (accepted(c, {z}) \/ refused(c)))
  /\ zoneBecomes(z, "awaiting_review")

Resolved ==
  /\ \A c \in Clashes : same(c) \/ becomes(c, "resolved", judges[c])
  /\ zones' = zones

Handle ==
  \/ \E z \in Zones : Resolve(z) \/ Approve(z) \/ Reject(z) \/ Edit(z)
  \/ \E c \in Clashes : Arbitrate(c)
  \/ Rebase
  \/ Resolved

Next ==
  /\ standing' \in [Clashes -> STANDINGS]
  /\ judges' \in [Clashes -> SUBSET Zones]
  /\ zones' \in [Zones -> ZONE_STATES]
  /\ Complete \/ (run = "complete" /\ UNCHANGED run /\ Handle)

Spec == Init /\ [][Next]_promise

------------------------------------------------------------------------------
(* An accepted or merged clash has a word behind it, all its zones' or its  *)
(* own zone's; an escalated one has none.                                   *)
WordBehind ==
  \A c \in Clashes :
    /\ standing[c] \in Accepted \cup {"merged"} => judges[c] \in {Owning[c], {Home[c]}}
    /\ standing[c] = "escalated" => judges[c] = {}
==============================================================================
