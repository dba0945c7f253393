----------------------------- MODULE BranchStore -----------------------------
(***************************************************************************)
(* The zone branches of one model version (app/store/local.py) and the     *)
(* jobs that write them: a zone's resolver and the coordinator's           *)
(* arbitration.  A branch is a JSON file; a commit reads it, appends to it *)
(* and replaces it, and none of that belongs to the job's database         *)
(* transaction.  An absent file and an empty branch read alike.            *)
(***************************************************************************)
EXTENDS Naturals, Sequences, SequencesExt, FiniteSets

CONSTANTS
  Zones,     \* the zones, one branch file each
  Elements,  \* the elements that can be moved
  Jobs,      \* resolver and arbitration jobs, queued in any order
  Branch,    \* Branch[j]: the branch job j commits on
  Reads,     \* Reads[j]: the zones whose heads its boundary monitor fetches
  Moves,     \* Moves[j]: the elements it proposes to move, in order
  Workers,   \* WorkerSettings.max_jobs
  MaxTries   \* arq's max_tries: deliveries of one job

ASSUME JobsAssumption ==
  /\ Branch \in [Jobs -> Zones]
  /\ Reads \in [Jobs -> SUBSET Zones]
  /\ Moves \in [Jobs -> Seq(Elements)]
  /\ Workers \in Nat \ {0}
  /\ MaxTries \in Nat \ {0}

VARIABLES
  branch,    \* the commits in each branch file
  pc,        \* where each job stands
  at,        \* the move it is working on
  fetched,   \* the zones whose heads its monitors have read for this move
  heads,     \* the heads they read
  loaded,    \* the payload its commit has read
  rows,      \* the commits its open transaction has recorded
  tries,     \* deliveries so far
  ledger,    \* the commits recorded by transactions that ended
  beside,    \* history: the jobs that ran at some time of its delivery
  exposed    \* history: the commits made while another job was writing there

past == <<beside, exposed>>
vars == <<branch, pc, at, fetched, heads, loaded, rows, tries, ledger, past>>

Entry == [job : Jobs, element : Elements, try : 1..MaxTries]
Recorded == [zone : Zones, index : Nat \ {0}, entry : Entry]
running == {j \in Jobs : pc[j] \notin {"queued", "done", "dead"}}

(* An entry, and the id commit() returns for it: zone and position.  A      *)
(* vector is told apart by the element it moves and the job that found it.  *)
entry(j) == [job |-> j, element |-> Moves[j][at[j]], try |-> tries[j]]

committed_as(j) == [zone |-> Branch[j], index |-> Len(loaded[j]) + 1, entry |-> entry(j)]

NoHeads == [z \in Zones |-> <<>>]

Init ==
  /\ branch = [z \in Zones |-> <<>>]
  /\ pc = [j \in Jobs |-> "queued"]
  /\ at = [j \in Jobs |-> 1]
  /\ fetched = [j \in Jobs |-> {}]
  /\ heads = [j \in Jobs |-> NoHeads]
  /\ loaded = [j \in Jobs |-> <<>>]
  /\ rows = [j \in Jobs |-> {}]
  /\ tries = [j \in Jobs |-> 0]
  /\ ledger = {}
  /\ beside = [j \in Jobs |-> {}]
  /\ exposed = {}

(* Mutant: the last move is taken for the one before it.                    *)
onward_past(j) ==
  /\ at' = [at EXCEPT ![j] = @ + 1]
  /\ fetched' = [fetched EXCEPT ![j] = {}]
  /\ heads' = [heads EXCEPT ![j] = NoHeads]
  /\ pc' = [pc EXCEPT ![j] = IF at[j] <= Len(Moves[j]) THEN "judging" ELSE "ending"]

(* The job goes on to its next move, or to the end of its transaction.      *)
onward(j) ==
  /\ at' = [at EXCEPT ![j] = @ + 1]
  /\ fetched' = [fetched EXCEPT ![j] = {}]
  /\ heads' = [heads EXCEPT ![j] = NoHeads]
  /\ pc' = [pc EXCEPT ![j] = IF at[j] < Len(Moves[j]) THEN "judging" ELSE "ending"]

Start(j) ==
  /\ pc[j] = "queued"
  /\ Cardinality(running) < Workers
  /\ pc' = [pc EXCEPT ![j] = IF Moves[j] = <<>> THEN "ending" ELSE "judging"]
  /\ tries' = [tries EXCEPT ![j] = @ + 1]
  /\ beside' = [k \in Jobs |-> IF k = j THEN running
                              ELSE IF k \in running THEN beside[k] \cup {j} ELSE beside[k]]
  /\ UNCHANGED <<branch, at, fetched, heads, loaded, rows, ledger, exposed>>

(* Mutant: neighbours are judged where they were loaded.                    *)
branch_head_as_loaded(z) == <<>>

branch_head(z) == branch[z]

(* heads() reads one file after another.                                    *)
FetchHead(j, z) ==
  /\ pc[j] = "judging"
  /\ z \in Reads[j] \ fetched[j]
  /\ fetched' = [fetched EXCEPT ![j] = @ \cup {z}]
  /\ heads' = [heads EXCEPT ![j][z] = branch_head(z)]
  /\ UNCHANGED <<branch, pc, at, loaded, rows, tries, ledger, past>>

judged(j) == pc[j] = "judging" /\ fetched[j] = Reads[j]

(* Every heading was objected to, or the clash was handed over.             *)
Refuse(j) ==
  /\ judged(j)
  /\ onward(j)
  /\ UNCHANGED <<branch, loaded, rows, tries, ledger, past>>

(* Mutant: a job that is delivered again takes its branch for a new one.    *)
Load_once(j) ==
  /\ judged(j)
  /\ pc' = [pc EXCEPT ![j] = "writing"]
  /\ loaded' = [loaded EXCEPT ![j] = IF tries[j] = 1 THEN branch[Branch[j]] ELSE <<>>]
  /\ UNCHANGED <<branch, at, fetched, heads, rows, tries, ledger, past>>

(* The monitors accept: commit() reads the branch file ...                  *)
Load(j) ==
  /\ judged(j)
  /\ pc' = [pc EXCEPT ![j] = "writing"]
  /\ loaded' = [loaded EXCEPT ![j] = branch[Branch[j]]]
  /\ UNCHANGED <<branch, at, fetched, heads, rows, tries, ledger, past>>

(* Who has read a branch file and is about to replace it.                   *)
writers(z) == {j \in Jobs : pc[j] = "writing" /\ Branch[j] = z}

(* ... and replaces it; the id goes into the open transaction.              *)
Replace(j) ==
  /\ pc[j] = "writing"
  /\ branch' = [branch EXCEPT ![Branch[j]] = Append(loaded[j], entry(j))]
  /\ rows' = [rows EXCEPT ![j] = @ \cup {committed_as(j)}]
  /\ exposed' = exposed \cup (IF writers(Branch[j]) = {j} THEN {} ELSE {committed_as(j)})
  /\ onward(j)
  /\ UNCHANGED <<loaded, tries, ledger, beside>>

EndTransaction(j) ==
  /\ pc[j] = "ending"
  /\ pc' = [pc EXCEPT ![j] = "done"]
  /\ ledger' = ledger \cup rows[j]
  /\ rows' = [rows EXCEPT ![j] = {}]
  /\ beside' = [beside EXCEPT ![j] = {}]
  /\ UNCHANGED <<branch, at, fetched, heads, loaded, tries, exposed>>

(* Mutant: the ids of a failed delivery stay in the transaction.            *)
Fail_unrolled(j) ==
  /\ j \in running
  /\ pc' = [pc EXCEPT ![j] = IF tries[j] < MaxTries THEN "queued" ELSE "dead"]
  /\ at' = [at EXCEPT ![j] = 1]
  /\ fetched' = [fetched EXCEPT ![j] = {}]
  /\ heads' = [heads EXCEPT ![j] = NoHeads]
  /\ loaded' = [loaded EXCEPT ![j] = <<>>]
  /\ beside' = [beside EXCEPT ![j] = {}]
  /\ UNCHANGED <<branch, rows, tries, ledger, exposed>>

(* An exception, a timeout or the death of the worker: the transaction is   *)
(* rolled back, the files are not, and arq delivers the job again.          *)
Fail(j) ==
  /\ j \in running
  /\ pc' = [pc EXCEPT ![j] = IF tries[j] < MaxTries THEN "queued" ELSE "dead"]
  /\ at' = [at EXCEPT ![j] = 1]
  /\ fetched' = [fetched EXCEPT ![j] = {}]
  /\ heads' = [heads EXCEPT ![j] = NoHeads]
  /\ loaded' = [loaded EXCEPT ![j] = <<>>]
  /\ rows' = [rows EXCEPT ![j] = {}]
  /\ beside' = [beside EXCEPT ![j] = {}]
  /\ UNCHANGED <<branch, tries, ledger, exposed>>

Next ==
  \/ \E j \in Jobs : Start(j)
  \/ \E j \in Jobs, z \in Zones : FetchHead(j, z)
  \/ \E j \in Jobs : Refuse(j)
  \/ \E j \in Jobs : Load(j)
  \/ \E j \in Jobs : Replace(j)
  \/ \E j \in Jobs : EndTransaction(j)
  \/ \E j \in Jobs : Fail(j)

Spec == Init /\ [][Next]_vars

------------------------------------------------------------------------------
TypeOK ==
  /\ branch \in [Zones -> Seq(Entry)]
  /\ pc \in [Jobs -> {"queued", "judging", "writing", "ending", "done", "dead"}]
  /\ at \in [Jobs -> Nat \ {0}]
  /\ \A j \in Jobs : pc[j] \in {"judging", "writing"} => at[j] \in DOMAIN Moves[j]
  /\ fetched \in [Jobs -> SUBSET Zones]
  /\ heads \in [Jobs -> [Zones -> Seq(Entry)]]
  /\ loaded \in [Jobs -> Seq(Entry)]
  /\ rows \in [Jobs -> SUBSET Recorded]
  /\ tries \in [Jobs -> 0..MaxTries]
  /\ ledger \in SUBSET Recorded
  /\ beside \in [Jobs -> SUBSET Jobs]
  /\ exposed \in SUBSET Recorded

given == ledger \cup UNION {rows[j] : j \in Jobs}

(* local.py 9: "only that zone's resolver writes it, so two workers never   *)
(* contend for the same file".  So a commit id is good for ever: what the   *)
(* ledger, or a transaction still open, has recorded as zone:position is    *)
(* what the branch holds there.                                             *)
RecordedIsCommitted ==
  \A r \in given : r.index \in DOMAIN branch[r.zone] /\ branch[r.zone][r.index] = r.entry

(* The only commits that can be lost are those made while another job stood *)
(* between reading that very file and replacing it.  Every other id stays   *)
(* good for ever: with an arbitration and a resolver on one branch, with    *)
(* failures and deliveries over again, and after commits that were lost.    *)
LostOnlyByOverlap ==
  \A r \in given \ exposed :
    r.index \in DOMAIN branch[r.zone] /\ branch[r.zone][r.index] = r.entry

(* As long as no commit to a branch was overlapped, it is only added to.    *)
disturbed(z) == \E r \in exposed : r.zone = z
HeadsOnlyGrow == [][\A z \in Zones : disturbed(z) \/ IsPrefix(branch[z], branch'[z])]_vars

(* What the store keeps of an atomic append when files are read and         *)
(* replaced, with failures in between, deliveries over again and two jobs   *)
(* that commit on one branch: see StorePromise.                             *)
P == INSTANCE StorePromise WITH
       Entries <- Entry, open <- rows, busy <- [z \in Zones |-> writers(z)]
KeepsStorePromise == P!Spec

commits(j) == pc[j] = "writing" /\ rows'[j] # rows[j] /\ rows'[j] # {}

(* A move may be judged against a head that is no longer one when it is     *)
(* committed, but only by the commit of a job that ran beside this one and  *)
(* writes that branch: what was committed before it began is never missed.  *)
StaleOnlyBeside ==
  [][\A j \in Jobs : commits(j) =>
       \A z \in Reads[j] : heads[j][z] = branch[z] \/ \E k \in beside[j] : Branch[k] = z]_vars

(* A move lands on the building its monitors judged it against: the heads   *)
(* they fetched are still the heads when the commit is written.             *)
JudgedAgainstHeads ==
  [][\A j \in Jobs : commits(j) => \A z \in Reads[j] : heads[j][z] = branch[z]]_vars
==============================================================================
