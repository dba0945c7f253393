------------------------------ MODULE Lifecycle ------------------------------
(***************************************************************************)
(* The rows one model version owns, and every handler that changes them:   *)
(* the pipeline run that resolves, arbitrates and packages (app/pipeline.  *)
(* py, app/agents/coordinator.py), the worker jobs that repeat its steps   *)
(* (app/worker/tasks.py), the reviewer's decision (app/review.py) and the  *)
(* diff of a later version.                                                *)
(*                                                                         *)
(* A handler runs in one database transaction and is one action here: two  *)
(* of them never interleave.  The geometry behind a monitor is abstracted  *)
(* to its answer: any set of monitors may object to any move, or leave any *)
(* set of checks unanswered.                                               *)
(***************************************************************************)
EXTENDS Naturals, FiniteSets

CONSTANTS
  Zones,      \* the zones of the model version
  Clashes,    \* its clash rows that lie in some zone
  Checks,     \* the checks a monitor may be unable to answer
  Home,       \* Home[c]: the zone row clash c hangs from
  Owning,     \* Owning[c]: the zones holding one of the two elements of c
  Near,       \* Near[c]: the zones holding or buffering the element c moves
  Priority,   \* Priority[z]: the dispatch priority
  Batch       \* settings.worker_concurrency: how many zones one run resolves

ASSUME LayoutAssumption ==
  /\ Home \in [Clashes -> Zones]
  /\ Owning \in [Clashes -> SUBSET Zones]
  /\ Near \in [Clashes -> SUBSET Zones]
  /\ \A c \in Clashes : Home[c] \in Owning[c]
  /\ Priority \in [Zones -> Nat]
  /\ Batch \in Nat

VARIABLES
  zoneStatus,   \* zone.status
  clashState,   \* clash.state
  latest,       \* the live proposal row of each clash: the one _latest_proposal returns
  quoted,       \* the clashes whose entry in change_set.json is the live row as it stands
  stage,        \* where run_pipeline stands
  todo,         \* zones run_pipeline has still to resolve
  pending,      \* clashes run_pipeline has still to arbitrate
  status,       \* model_version.status
  ledger        \* to_state of the last ledger row about the model version

rows == <<zoneStatus, clashState, latest>>
version == <<status, ledger>>
vars == <<zoneStatus, clashState, latest, quoted, stage, todo, pending, status, ledger>>

ZONE_STATES == {"queued", "active", "awaiting_review", "merged"}
CLASH_STATES == {"open", "proposed", "verified", "verified_conditional", "approved",
                 "merged", "resolved", "regressed", "escalated"}
Accepted == {"verified", "verified_conditional"}

(* A proposal row.  "judged" is the set of zones whose monitors accepted    *)
(* its vector and "acked" the checks named when it was approved: the code   *)
(* keeps both in the payloads of the clash's ledger rows.  A refused row    *)
(* keeps its evidence in the code; no property asks for it.  "escalated"    *)
(* stands for flagged_unsourced too, which the handlers treat alike.        *)
Row == [verdict : Accepted \cup {"none", "rejected", "escalated"},
        unprovable : SUBSET Checks,
        author : {"resolver", "reviewer"},
        judged : SUBSET Zones,
        acked : SUBSET Checks]
Judged(verdict, unprovable, author, judges) ==
  [verdict |-> verdict, unprovable |-> unprovable, author |-> author,
   judged |-> judges, acked |-> {}]
NoRow == Judged("none", {}, "resolver", {})
RefusedRow == Judged("rejected", {}, "resolver", {})
EscalatedRow == Judged("escalated", {}, "resolver", {})

(* An element pair split across two zones belongs to the coordinator.       *)
Shared(c) == Owning[c] # {Home[c]}

------------------------------------------------------------------------------
(* What run_all answers, and the verdict a caller writes for the answer.    *)
Result == [failed : BOOLEAN, unprovable : SUBSET Checks]
Acceptable == {r \in Result : ~r.failed}

aggregate(r) == IF r.failed THEN "rejected"
                ELSE IF r.unprovable = {} THEN "verified"
                ELSE "verified_conditional"

(* What one zone's resolver may conclude about one of its clashes.          *)
Outcome(z) ==
  {Judged(aggregate(r), r.unprovable, "resolver", {z}) : r \in Acceptable} \cup {EscalatedRow}

(* Mutant: the zone keeps a clash it should hand to the coordinator.        *)
persisted_unshared(c, row) == IF row.verdict \in Accepted THEN row.verdict ELSE "escalated"

(* The state _persist_outcome gives the clash.                              *)
persisted(c, row) == IF row.verdict \notin Accepted THEN "escalated"
                     ELSE IF Shared(c) THEN "proposed"
                     ELSE row.verdict

Init ==
  /\ zoneStatus = [z \in Zones |-> "queued"]
  /\ clashState = [c \in Clashes |-> "open"]
  /\ latest = [c \in Clashes |-> NoRow]
  /\ quoted = {}
  /\ stage = "ingesting"
  /\ todo = {}
  /\ pending = {}
  /\ status = "ingesting"
  /\ ledger = "none"

------------------------------------------------------------------------------
(* The steps of the coordinator, shared by the pipeline and the worker.     *)

resolve_zone(z) ==
  LET seen == {c \in Clashes : Home[c] = z /\ clashState[c] \in {"open", "proposed"}}
  IN \E o \in [seen -> Outcome(z)] :
       /\ clashState' = [c \in Clashes |-> IF c \in seen THEN persisted(c, o[c])
                                           ELSE clashState[c]]
       /\ latest' = [c \in Clashes |-> IF c \in seen THEN o[c] ELSE latest[c]]
       /\ zoneStatus' = [zoneStatus EXCEPT ![z] = "awaiting_review"]

(* The accepted clashes whose zone a commit on c's element disturbs.        *)
exposed(c, changed) ==
  {d \in Clashes : clashState[d] \in Accepted /\ Home[d] \in Near[c] \ changed}

(* What a rebase does to those it finds failing: the clash is reopened, the *)
(* proposal loses its verdict, the zone goes back to the queue.             *)
reopened(states, failing) == [d \in Clashes |-> IF d \in failing THEN "proposed" ELSE states[d]]
(* Mutant: the clash is reopened and the proposal left as it was.           *)
withdrawn_not(proposals, failing) == proposals

withdrawn(proposals, failing) ==
  [d \in Clashes |-> IF d \in failing THEN RefusedRow ELSE proposals[d]]
(* Mutant: a zone that was already merged is not put back in the queue.     *)
requeued_unmerged(failing) ==
  [z \in Zones |-> IF zoneStatus[z] # "merged" /\ \E d \in failing : Home[d] = z
                   THEN "queued" ELSE zoneStatus[z]]

requeued(failing) ==
  [z \in Zones |-> IF \E d \in failing : Home[d] = z THEN "queued" ELSE zoneStatus[z]]

enqueue_rebase(c, changed) ==
  \E failing \in SUBSET exposed(c, changed) :
    /\ clashState' = reopened(clashState, failing)
    /\ latest' = withdrawn(latest, failing)
    /\ zoneStatus' = requeued(failing)

(* Mutant: the verdict's word is written into the state column.             *)
refuse_misspelt(c) ==
  /\ clashState' = [clashState EXCEPT ![c] = "rejected"]
  /\ latest' = [latest EXCEPT ![c] = RefusedRow]
  /\ UNCHANGED zoneStatus

(* One owning zone objects.                                                 *)
refuse(c) ==
  /\ clashState' = [clashState EXCEPT ![c] = "escalated"]
  /\ latest' = [latest EXCEPT ![c] = RefusedRow]
  /\ UNCHANGED zoneStatus

(* Mutant: two zones agreeing is spent as a full pass.                      *)
commit_launders(c) ==
  \E gaps \in [Owning[c] -> SUBSET Checks], failing \in SUBSET exposed(c, Owning[c]) :
    LET unprovable == UNION {gaps[z] : z \in Owning[c]}
        row == Judged("verified", unprovable, latest[c].author, Owning[c])
    IN /\ clashState' = reopened([clashState EXCEPT ![c] = row.verdict], failing)
       /\ latest' = withdrawn([latest EXCEPT ![c] = row], failing)
       /\ zoneStatus' = requeued(failing)

(* Every owning zone accepts; the commit then rebases the zones around.  A  *)
(* gap either zone has is a gap of the verdict.                             *)
commit(c) ==
  \E gaps \in [Owning[c] -> SUBSET Checks], failing \in SUBSET exposed(c, Owning[c]) :
    LET unprovable == UNION {gaps[z] : z \in Owning[c]}
        row == Judged(aggregate([failed |-> FALSE, unprovable |-> unprovable]),
                      unprovable, latest[c].author, Owning[c])
    IN /\ clashState' = reopened([clashState EXCEPT ![c] = row.verdict], failing)
       /\ latest' = withdrawn([latest EXCEPT ![c] = row], failing)
       /\ zoneStatus' = requeued(failing)

arbitrate(c) ==
  /\ latest[c] # NoRow
  /\ Shared(c)
  /\ refuse(c) \/ commit(c)

------------------------------------------------------------------------------
(* run_pipeline: one transaction, so no other actor sees the rows before it *)
(* completes.                                                               *)

(* The zones one run takes on: as many as the batch allows, by priority; a  *)
(* batch of zero is read as no limit.                                       *)
zones_by_priority ==
  {S \in SUBSET Zones :
     /\ IF Batch \in 1..Cardinality(Zones) THEN Cardinality(S) = Batch ELSE S = Zones
     /\ \A taken \in S, left \in Zones \ S : Priority[taken] >= Priority[left]}

Ingest ==
  /\ stage = "ingesting"
  /\ stage' = "resolving"
  /\ todo' \in zones_by_priority
  /\ status' = "queued"
  /\ ledger' = "queued"
  /\ UNCHANGED <<rows, quoted, pending>>

PipelineResolve(z) ==
  /\ stage = "resolving"
  /\ z \in todo
  /\ resolve_zone(z)
  /\ todo' = todo \ {z}
  /\ UNCHANGED <<quoted, stage, pending, version>>

(* The boundary clashes handed over by the zones just resolved.             *)
CollectPending ==
  /\ stage = "resolving"
  /\ todo = {}
  /\ stage' = "arbitrating"
  /\ pending' = {c \in Clashes : Shared(c) /\ clashState[c] = "proposed"}
  /\ UNCHANGED <<rows, quoted, todo, version>>

PipelineArbitrate(c) ==
  /\ stage = "arbitrating"
  /\ c \in pending
  /\ arbitrate(c)
  /\ pending' = pending \ {c}
  /\ UNCHANGED <<quoted, stage, todo, version>>

(* Mutant: the packages are built before the arbitration loop has ended.    *)
AssemblePackages_early ==
  /\ stage = "arbitrating"
  /\ quoted' = {c \in Clashes : zoneStatus[Home[c]] = "awaiting_review" /\ latest[c] # NoRow}
  /\ stage' = "reviewed"
  /\ status' = "reviewed"
  /\ UNCHANGED <<rows, todo, pending, ledger>>

(* A package for every zone awaiting review, then the end of the run.  The  *)
(* status is assigned without a ledger row, but each package records one    *)
(* about its zone.                                                          *)
AssemblePackages ==
  /\ stage = "arbitrating"
  /\ pending = {}
  /\ quoted' = {c \in Clashes : zoneStatus[Home[c]] = "awaiting_review" /\ latest[c] # NoRow}
  /\ stage' = "reviewed"
  /\ status' = "reviewed"
  /\ UNCHANGED <<rows, todo, pending, ledger>>

(* An exception anywhere in the run: the session rolls back to the bare     *)
(* model version the upload committed.                                      *)
PipelineFails ==
  /\ stage \in {"resolving", "arbitrating"}
  /\ zoneStatus' = [z \in Zones |-> "queued"]
  /\ clashState' = [c \in Clashes |-> "open"]
  /\ latest' = [c \in Clashes |-> NoRow]
  /\ stage' = "ingesting"
  /\ todo' = {}
  /\ pending' = {}
  /\ status' = "ingesting"
  /\ ledger' = "none"
  /\ UNCHANGED <<quoted>>

------------------------------------------------------------------------------
(* After the run: worker jobs, which check nothing about the state they     *)
(* find, reviewers, and the upload of a later version.                      *)

Served == stage = "reviewed"

(* A change set is not rewritten: an entry whose row is replaced or         *)
(* re-judged is out of date.                                                *)
stillQuoted == {c \in quoted : latest'[c] = latest[c]}

ResolveJob(z) ==
  /\ Served
  /\ resolve_zone(z)
  /\ quoted' = stillQuoted
  /\ UNCHANGED <<stage, todo, pending, version>>

ArbitrateJob(c) ==
  /\ Served
  /\ arbitrate(c)
  /\ quoted' = stillQuoted
  /\ UNCHANGED <<stage, todo, pending, version>>

(* The zones a rebase may be told have changed: those an arbitration        *)
(* consulted, or the one whose resolver committed.                          *)
changed_zones(c) == {Owning[c], {Home[c]}}

RebaseJob(c, changed) ==
  /\ Served
  /\ enqueue_rebase(c, changed)
  /\ quoted' = stillQuoted
  /\ UNCHANGED <<stage, todo, pending, version>>

(* Mutant: naming any check is taken for naming all of them.                *)
unacknowledged_blanket(z, named) ==
  UNION {latest[c].unprovable : c \in {d \in Clashes : named = {} /\ Home[d] = z
                                         /\ clashState[d] = "verified_conditional"}}

(* The checks of a zone's conditional proposals the reviewer did not name.  *)
unacknowledged(z, named) ==
  (UNION {latest[c].unprovable :
            c \in {d \in Clashes : Home[d] = z /\ clashState[d] = "verified_conditional"}})
    \ named

Approve(z, named) ==
  /\ Served
  /\ zoneStatus[z] # "merged"
  /\ unacknowledged(z, named) = {}
  /\ LET merging == {c \in Clashes : Home[c] = z /\ clashState[c] \in Accepted}
     IN /\ clashState' = [c \in Clashes |-> IF c \in merging THEN "merged" ELSE clashState[c]]
        /\ latest' = [c \in Clashes |->
                        IF c \in merging /\ clashState[c] = "verified_conditional"
                        THEN [latest[c] EXCEPT !.acked = named] ELSE latest[c]]
  /\ zoneStatus' = [zoneStatus EXCEPT ![z] = "merged"]
  /\ UNCHANGED <<quoted, stage, todo, pending, version>>

Reject(z) ==
  /\ Served
  /\ clashState' = [c \in Clashes |->
                      IF Home[c] = z /\ clashState[c] \in Accepted \cup {"proposed"}
                      THEN "open" ELSE clashState[c]]
  /\ zoneStatus' = [zoneStatus EXCEPT ![z] = "queued"]
  /\ UNCHANGED <<latest, quoted, stage, todo, pending, version>>

(* The reviewer's own vectors, judged by the monitors of this zone.         *)
Edit(z) ==
  /\ Served
  /\ zoneStatus[z] # "merged"
  /\ \E edited \in (SUBSET {c \in Clashes : Home[c] = z /\ latest[c] # NoRow}) \ {{}} :
       \E answer \in [edited -> Result] :
         /\ latest' = [c \in Clashes |->
                         IF c \notin edited THEN latest[c]
                         ELSE IF answer[c].failed THEN RefusedRow
                         ELSE Judged(aggregate(answer[c]), answer[c].unprovable,
                                     "reviewer", {z})]
         /\ clashState' = [c \in Clashes |->
                             IF c \notin edited THEN clashState[c]
                             ELSE IF answer[c].failed THEN "escalated"
                             ELSE aggregate(answer[c])]
  /\ zoneStatus' = [zoneStatus EXCEPT ![z] = "awaiting_review"]
  /\ quoted' = stillQuoted
  /\ UNCHANGED <<stage, todo, pending, version>>

(* A later version no longer shows these clashes.  The "regressed" branch   *)
(* of the diff never applies to a row of the earlier version.               *)
DiffAgainst(gone) ==
  /\ Served
  /\ clashState' = [c \in Clashes |-> IF c \in gone THEN "resolved" ELSE clashState[c]]
  /\ UNCHANGED <<zoneStatus, latest, quoted, stage, todo, pending, version>>

Pipeline ==
  \/ Ingest
  \/ \E z \in Zones : PipelineResolve(z)
  \/ CollectPending
  \/ \E c \in Clashes : PipelineArbitrate(c)
  \/ AssemblePackages
  \/ PipelineFails

Worker ==
  \/ \E z \in Zones : ResolveJob(z)
  \/ \E c \in Clashes : ArbitrateJob(c)
  \/ \E c \in Clashes : \E changed \in changed_zones(c) : RebaseJob(c, changed)

Reviewer ==
  \/ \E z \in Zones, named \in SUBSET Checks : Approve(z, named)
  \/ \E z \in Zones : Reject(z)
  \/ \E z \in Zones : Edit(z)
  \/ \E gone \in SUBSET Clashes : DiffAgainst(gone)

Next == Pipeline \/ Worker \/ Reviewer

Spec == Init /\ [][Next]_vars

------------------------------------------------------------------------------
(* Every column holds a value of its vocabulary.                            *)
TypeOK ==
  /\ zoneStatus \in [Zones -> ZONE_STATES]
  /\ clashState \in [Clashes -> CLASH_STATES]
  /\ latest \in [Clashes -> Row]
  /\ quoted \in SUBSET Clashes
  /\ stage \in {"ingesting", "resolving", "arbitrating", "reviewed"}
  /\ todo \in SUBSET Zones
  /\ pending \in SUBSET Clashes
  /\ status \in {"ingesting", "queued", "reviewed"}
  /\ ledger \in {"none", "queued"}

(* The clash a reviewer sees and the proposal behind it agree: an accepted  *)
(* clash carries a proposal of exactly that verdict, a full verdict leaves  *)
(* no check unanswered and a conditional one names at least one.  Three     *)
(* writers set the pair: _persist_outcome, arbitrate and _re_monitor.       *)
AcceptedAsJudged ==
  \A c \in Clashes :
    /\ clashState[c] \in Accepted => latest[c].verdict = clashState[c]
    /\ latest[c].verdict = "verified" => latest[c].unprovable = {}
    /\ latest[c].verdict = "verified_conditional" => latest[c].unprovable # {}

(* A clash between two zones is accepted, or merged, on the word of both    *)
(* zones' monitors, unless the vector is the reviewer's own (_re_monitor    *)
(* asks one zone only).                                                     *)
DoublePass ==
  \A c \in Clashes :
    clashState[c] \in Accepted \cup {"merged"} /\ latest[c].author = "resolver"
      => Owning[c] \subseteq latest[c].judged

(* Nothing is merged on a check nobody named: a merged clash still carries  *)
(* the accepted proposal it was approved with, and the approval's ledger    *)
(* row names every check that proposal left unanswered.                     *)
MergedAsAcknowledged ==
  \A c \in Clashes :
    clashState[c] = "merged" => /\ latest[c].verdict \in Accepted
                                /\ latest[c].unprovable \subseteq latest[c].acked

(* A clash sent back keeps no live acceptance of its zone's own: proposed   *)
(* or escalated, its proposal is refused, unless it is a boundary clash the *)
(* coordinator has still to arbitrate.                                      *)
NoVerdictSurvivesReopening ==
  \A c \in Clashes :
    /\ clashState[c] = "escalated" => latest[c].verdict \notin Accepted
    /\ clashState[c] = "proposed" /\ latest[c].verdict \in Accepted => Shared(c)

(* A step that takes an accepted clash back to "proposed" puts its zone     *)
(* back in the queue, so the reopened work is work somebody owns.           *)
ReopenedWorkIsQueued ==
  [][\A c \in Clashes :
       clashState[c] \in Accepted /\ clashState'[c] = "proposed"
         => zoneStatus'[Home[c]] = "queued"]_vars

(* When the run completes, its packages quote the verdicts the run ends     *)
(* with and no accepted proposal is left waiting for arbitration: the order *)
(* resolve, arbitrate, package is the point of run_pipeline.                *)
RunEndsSettled ==
  [][stage' = "reviewed" /\ stage # "reviewed" =>
       /\ \A c \in Clashes :
            zoneStatus'[Home[c]] = "awaiting_review" => c \in quoted' \/ latest'[c] = NoRow
       /\ \A c \in Clashes :
            clashState'[c] = "proposed" => latest'[c].verdict = "rejected"]_vars

(* The run is one transaction, so of its steps others see only the last;    *)
(* from there every handler moves each clash along the lines of the         *)
(* promise, whatever else its transaction does.                             *)
shownState == IF Served THEN clashState ELSE [c \in Clashes |-> "open"]
backing(c) == IF latest[c].verdict \in Accepted THEN latest[c].judged ELSE {}
shownJudges == [c \in Clashes |-> IF Served THEN backing(c) ELSE {}]
shownZones == IF Served THEN zoneStatus ELSE [z \in Zones |-> "queued"]
V == INSTANCE VersionPromise WITH
       run <- IF Served THEN "complete" ELSE "running",
       standing <- shownState, judges <- shownJudges, zones <- shownZones
KeepsVersionPromise == V!Spec

(* coordinator.py 615: "Only a double pass commits.  A single pass means    *)
(* one zone is happy and the other has not been asked."                     *)
OnlyADoublePassIsAccepted ==
  \A c \in Clashes :
    clashState[c] \in Accepted \cup {"merged"} => Owning[c] \subseteq latest[c].judged

==============================================================================
