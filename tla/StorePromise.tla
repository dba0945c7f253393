---------------------------- MODULE StorePromise -----------------------------
(***************************************************************************)
(* What the jobs are promised of a commit.  It is one append to its zone's *)
(* branch, under an id for its position, as long as no other job is about  *)
(* its own commit there.  A commit with others about may be dropped by     *)
(* them later; it may drop none but such.  The ids of a delivery reach the *)
(* ledger together, or not at all.                                         *)
(***************************************************************************)
EXTENDS Naturals, Sequences

CONSTANTS
  Zones,   \* the zones, one branch each
  Jobs,    \* the jobs that commit
  Entries  \* what they can commit

VARIABLES
  branch,  \* the commits of each zone
  open,    \* the ids each job's open transaction has been given
  ledger,  \* the ids recorded for good
  busy,    \* the jobs about to commit on each branch
  exposed  \* the ids given while another job was about to commit there

promise == <<branch, open, ledger, busy, exposed>>

given == ledger \cup UNION {open[j] : j \in Jobs}
good(id) == id.index \in DOMAIN branch[id.zone] /\ branch[id.zone][id.index] = id.entry

Init ==
  /\ branch = [z \in Zones |-> <<>>]
  /\ open = [j \in Jobs |-> {}]
  /\ ledger = {} /\ exposed = {}
  /\ busy = [z \in Zones |-> {}]

Begin(j, z) ==
  /\ busy' = [busy EXCEPT ![z] = @ \cup {j}]
  /\ UNCHANGED <<branch, open, ledger, exposed>>

leaves(j) == busy' = [z \in Zones |-> busy[z] \ {j}]

(* The append, or else what is left of the branch after an overlap.         *)
appended(z, e) == branch'[z] = Append(branch[z], e)
rewritten(z, e) ==
  /\ \E id \in exposed : id.zone = z
  /\ branch'[z] \in Seq(Entries) /\ branch'[z] # <<>> /\ branch'[z][Len(branch'[z])] = e
  /\ \A id \in given \ exposed : id.zone = z =>
       id.index \in DOMAIN branch'[z] /\ branch'[z][id.index] = id.entry

(* Its id is the position it has got.                                       *)
placed(j, z, e) ==
  LET id == [zone |-> z, index |-> Len(branch'[z]), entry |-> e] IN
  /\ appended(z, e) \/ rewritten(z, e)
  /\ open' = [open EXCEPT ![j] = @ \cup {id}]
  /\ exposed' = exposed \cup (IF busy[z] = {j} THEN {} ELSE {id})

Commit(j, z) ==
  /\ j \in busy[z] /\ leaves(j)
  /\ \A y \in Zones \ {z} : branch'[y] = branch[y]
  /\ \E e \in Entries : placed(j, z, e)
  /\ UNCHANGED ledger

Record(j) ==
  /\ ledger' = ledger \cup open[j]
  /\ open' = [open EXCEPT ![j] = {}]
  /\ UNCHANGED <<branch, busy, exposed>>

RollBack(j) ==
  /\ open' = [open EXCEPT ![j] = {}]
  /\ leaves(j)
  /\ UNCHANGED <<branch, ledger, exposed>>

Next ==
  /\ branch' = [z \in Zones |-> branch'[z]]
  /\ \/ \E j \in Jobs, z \in Zones : Begin(j, z)
     \/ \E j \in Jobs, z \in Zones : Commit(j, z)
     \/ \E j \in Jobs : Record(j) \/ RollBack(j)

Spec == Init /\ [][Next]_promise

------------------------------------------------------------------------------
(* An id says where a commit is for good, unless another job was about to   *)
(* commit on that branch when it was given: whatever happens on the branch  *)
(* later, by however many jobs.                                             *)
IdsAreGood == \A id \in given \ exposed : good(id)
==============================================================================
