--------------------------- MODULE LifecycleProofs ---------------------------
(***************************************************************************)
(* The invariants of Lifecycle hold for any layout of zones and clashes,   *)
(* any set of checks and any batch; and its handlers implement the promise *)
(* of VersionPromise.                                                      *)
(***************************************************************************)
EXTENDS Lifecycle, TLAPS

(* The rows the handlers write are rows.                                    *)
LEMMA RowsAreRows ==
  /\ NoRow \in Row /\ RefusedRow \in Row /\ EscalatedRow \in Row
  /\ \A v \in Accepted \cup {"rejected"}, u \in SUBSET Checks, a \in {"resolver", "reviewer"},
        j \in SUBSET Zones : Judged(v, u, a, j) \in Row
  BY DEF NoRow, RefusedRow, EscalatedRow, Judged, Row, Accepted

(* What the monitors answer becomes a verdict of the vocabulary.            *)
LEMMA AnswersAreVerdicts ==
  \A r \in Result : /\ aggregate(r) \in Accepted \cup {"rejected"}
                    /\ ~r.failed => aggregate(r) \in Accepted
                    /\ aggregate(r) = "verified" => r.unprovable = {}
                    /\ aggregate(r) = "verified_conditional" => r.unprovable # {}
  BY DEF aggregate, Result, Accepted

(* A resolver's conclusion is a row, and an accepted one is the word of the *)
(* zone itself.                                                             *)
LEMMA OutcomesAreRows ==
  ASSUME NEW z \in Zones, NEW o \in Outcome(z)
  PROVE  /\ o \in Row
         /\ o.verdict \in Accepted => o.judged = {z}
         /\ o.verdict = "verified" => o.unprovable = {}
         /\ o.verdict = "verified_conditional" => o.unprovable # {}
         /\ o.acked = {}
         /\ o.author = "resolver"
<1>1. CASE o = EscalatedRow
  BY <1>1, RowsAreRows DEF EscalatedRow, Judged, Accepted
<1>2. ASSUME NEW r \in Acceptable, o = Judged(aggregate(r), r.unprovable, "resolver", {z})
      PROVE  /\ o \in Row
             /\ o.judged = {z}
             /\ o.verdict = "verified" => o.unprovable = {}
             /\ o.verdict = "verified_conditional" => o.unprovable # {}
             /\ o.acked = {}
             /\ o.author = "resolver"
  <2>1. r \in Result /\ r.unprovable \in SUBSET Checks
    BY DEF Acceptable, Result
  <2>2. aggregate(r) \in Accepted
    BY <2>1, AnswersAreVerdicts DEF Acceptable
  <2>3. o \in Row
    BY <1>2, <2>1, <2>2, RowsAreRows
  <2> QED BY <1>2, <2>1, <2>2, <2>3, AnswersAreVerdicts DEF Judged
<1> QED BY <1>1, <1>2 DEF Outcome

------------------------------------------------------------------------------
(* The four invariants about the rows speak of one clash at a time; this is *)
(* their conjunction for one clash, its state and its live proposal.        *)
Sound(c, s, row) ==
  /\ s \in Accepted => row.verdict = s
  /\ row.verdict = "verified" => row.unprovable = {}
  /\ row.verdict = "verified_conditional" => row.unprovable # {}
  /\ s \in Accepted \cup {"merged"} /\ row.author = "resolver" => Owning[c] \subseteq row.judged
  /\ s = "merged" => row.verdict \in Accepted /\ row.unprovable \subseteq row.acked
  /\ s = "escalated" => row.verdict \notin Accepted
  /\ s = "proposed" /\ row.verdict \in Accepted => Shared(c)

RowsOK == /\ zoneStatus \in [Zones -> ZONE_STATES]
          /\ clashState \in [Clashes -> CLASH_STATES]
          /\ latest \in [Clashes -> Row]
RowsSound == \A c \in Clashes : Sound(c, clashState[c], latest[c])

(* RowsSound and the invariants the runs check say the same.                *)
LEMMA RowsSoundIsTheInvariants ==
  RowsSound <=> /\ AcceptedAsJudged /\ DoublePass
                /\ MergedAsAcknowledged /\ NoVerdictSurvivesReopening
  BY DEF RowsSound, Sound, AcceptedAsJudged, DoublePass, MergedAsAcknowledged,
         NoVerdictSurvivesReopening

(* A clash that left "accepted" behind is sound with any consistent row.    *)
LEMMA ReopenedIsSound ==
  \A c \in Clashes, s \in {"proposed", "escalated", "open", "resolved"} : Sound(c, s, RefusedRow)
  BY DEF Sound, RefusedRow, Judged, Accepted

LEMMA DroppedIsSound ==
  \A c, s, row : Sound(c, s, row) => Sound(c, "open", row) /\ Sound(c, "resolved", row)
  BY DEF Sound, Accepted

(* What one zone concludes about one of its clashes is persisted soundly: a *)
(* clash the zone keeps has no owner but the zone.                          *)
LEMMA PersistedIsSound ==
  ASSUME NEW z \in Zones, NEW c \in Clashes, Home[c] = z, NEW o \in Outcome(z)
  PROVE  Sound(c, persisted(c, o), o) /\ persisted(c, o) \in CLASH_STATES
<1>1. /\ o \in Row
      /\ o.verdict \in Accepted => o.judged = {z}
      /\ o.verdict = "verified" => o.unprovable = {}
      /\ o.verdict = "verified_conditional" => o.unprovable # {}
  BY OutcomesAreRows
<1>2. o.verdict \notin {"merged", "proposed"}
  BY <1>1 DEF Row, Accepted
<1>3. CASE o.verdict \notin Accepted
  BY <1>1, <1>3 DEF persisted, Sound, Accepted, CLASH_STATES
<1>4. CASE o.verdict \in Accepted /\ Shared(c)
  BY <1>1, <1>4 DEF persisted, Sound, Accepted, CLASH_STATES
<1>5. CASE o.verdict \in Accepted /\ ~Shared(c)
  <2>1. Owning[c] = {z}
    BY <1>5 DEF Shared
  <2> QED BY <1>1, <1>2, <1>5, <2>1 DEF persisted, Sound, Accepted, CLASH_STATES
<1> QED BY <1>3, <1>4, <1>5

(* The steps of the coordinator keep the rows well-typed and sound.         *)
LEMMA ResolveKeepsRows ==
  ASSUME RowsOK, RowsSound, NEW z \in Zones, resolve_zone(z)
  PROVE  RowsOK' /\ RowsSound'
<1> DEFINE seen == {c \in Clashes : Home[c] = z /\ clashState[c] \in {"open", "proposed"}}
<1>1. PICK o \in [seen -> Outcome(z)] :
        /\ clashState' = [c \in Clashes |-> IF c \in seen THEN persisted(c, o[c])
                                           ELSE clashState[c]]
        /\ latest' = [c \in Clashes |-> IF c \in seen THEN o[c] ELSE latest[c]]
        /\ zoneStatus' = [zoneStatus EXCEPT ![z] = "awaiting_review"]
  BY DEF resolve_zone
<1>2. \A c \in seen : o[c] \in Outcome(z) /\ Home[c] = z
  OBVIOUS
<1>3. \A c \in seen : /\ o[c] \in Row
                      /\ Sound(c, persisted(c, o[c]), o[c])
                      /\ persisted(c, o[c]) \in CLASH_STATES
  BY <1>2, OutcomesAreRows, PersistedIsSound
<1> HIDE DEF seen
<1>4. RowsOK'
  BY <1>1, <1>3 DEF RowsOK, ZONE_STATES
<1>5. RowsSound'
  BY <1>1, <1>3 DEF RowsSound
<1> QED BY <1>4, <1>5

(* Reopening any set of clashes of sound rows leaves sound rows.            *)
LEMMA RebaseKeepsRows ==
  ASSUME NEW states \in [Clashes -> CLASH_STATES], NEW proposals \in [Clashes -> Row],
         \A c \in Clashes : Sound(c, states[c], proposals[c]),
         NEW failing, zoneStatus \in [Zones -> ZONE_STATES],
         clashState' = reopened(states, failing),
         latest' = withdrawn(proposals, failing),
         zoneStatus' = requeued(failing)
  PROVE  RowsOK' /\ RowsSound'
<1>1. RowsOK'
  BY RowsAreRows DEF RowsOK, reopened, withdrawn, requeued, CLASH_STATES, ZONE_STATES
<1>2. RowsSound'
  BY ReopenedIsSound DEF RowsSound, reopened, withdrawn
<1> QED BY <1>1, <1>2

LEMMA RefuseKeepsRows ==
  ASSUME RowsOK, RowsSound, NEW c \in Clashes, refuse(c)
  PROVE  RowsOK' /\ RowsSound'
<1>1. RowsOK'
  BY RowsAreRows DEF RowsOK, refuse, CLASH_STATES
<1>2. RowsSound'
  BY ReopenedIsSound DEF RowsOK, RowsSound, refuse
<1> QED BY <1>1, <1>2

(* A commit writes the word of every owning zone, with every gap any of     *)
(* them has.                                                                *)
LEMMA CommitKeepsRows ==
  ASSUME RowsOK, RowsSound, NEW c \in Clashes, commit(c)
  PROVE  RowsOK' /\ RowsSound'
<1>1. PICK gaps \in [Owning[c] -> SUBSET Checks],
           failing \in SUBSET exposed(c, Owning[c]) :
        LET unprovable == UNION {gaps[z] : z \in Owning[c]}
            row == Judged(aggregate([failed |-> FALSE, unprovable |-> unprovable]),
                          unprovable, latest[c].author, Owning[c])
        IN /\ clashState' = reopened([clashState EXCEPT ![c] = row.verdict], failing)
           /\ latest' = withdrawn([latest EXCEPT ![c] = row], failing)
           /\ zoneStatus' = requeued(failing)
  BY DEF commit
<1> DEFINE unprovable == UNION {gaps[z] : z \in Owning[c]}
           answer == [failed |-> FALSE, unprovable |-> unprovable]
           row == Judged(aggregate(answer), unprovable, latest[c].author, Owning[c])
           states == [clashState EXCEPT ![c] = row.verdict]
           proposals == [latest EXCEPT ![c] = row]
<1>2. unprovable \in SUBSET Checks
  OBVIOUS
<1>3. answer \in Result /\ ~answer.failed /\ answer.unprovable = unprovable
  BY <1>2 DEF Result
<1> HIDE DEF unprovable
<1>4. /\ aggregate(answer) \in Accepted
      /\ aggregate(answer) = "verified" => unprovable = {}
      /\ aggregate(answer) = "verified_conditional" => unprovable # {}
  BY <1>3, AnswersAreVerdicts
<1> HIDE DEF answer
<1>5. latest[c].author \in {"resolver", "reviewer"} /\ Owning[c] \in SUBSET Zones
  BY LayoutAssumption DEF RowsOK, Row
<1>6. row \in Row
  BY <1>2, <1>4, <1>5, RowsAreRows
<1>7. /\ row.verdict = aggregate(answer) /\ row.unprovable = unprovable
      /\ row.judged = Owning[c]
  BY DEF Judged
<1>8. Sound(c, row.verdict, row)
  BY <1>4, <1>7 DEF Sound, Accepted
<1>9. row.verdict \in CLASH_STATES
  BY <1>4, <1>7 DEF Accepted, CLASH_STATES
<1> HIDE DEF row
<1>10. states \in [Clashes -> CLASH_STATES] /\ proposals \in [Clashes -> Row]
  BY <1>6, <1>9 DEF RowsOK
<1>11. \A d \in Clashes : Sound(d, states[d], proposals[d])
  BY <1>8 DEF RowsOK, RowsSound
<1>12. /\ clashState' = reopened(states, failing)
       /\ latest' = withdrawn(proposals, failing)
       /\ zoneStatus' = requeued(failing)
  BY <1>1 DEF row, answer, unprovable
<1> HIDE DEF states, proposals
<1> QED BY <1>10, <1>11, <1>12, RebaseKeepsRows DEF RowsOK

LEMMA ArbitrateKeepsRows ==
  ASSUME RowsOK, RowsSound, NEW c \in Clashes, arbitrate(c)
  PROVE  RowsOK' /\ RowsSound'
  BY RefuseKeepsRows, CommitKeepsRows DEF arbitrate

LEMMA EnqueueRebaseKeepsRows ==
  ASSUME RowsOK, RowsSound, NEW c, NEW changed, enqueue_rebase(c, changed)
  PROVE  RowsOK' /\ RowsSound'
<1>1. PICK failing \in SUBSET exposed(c, changed) :
        /\ clashState' = reopened(clashState, failing)
        /\ latest' = withdrawn(latest, failing)
        /\ zoneStatus' = requeued(failing)
  BY DEF enqueue_rebase
<1> QED BY <1>1, RebaseKeepsRows DEF RowsOK, RowsSound

------------------------------------------------------------------------------
(* The reviewer's steps.  What an approval merges is accepted and, its      *)
(* unnamed checks being none, acknowledged.                                 *)
LEMMA ApproveKeepsRows ==
  ASSUME RowsOK, RowsSound, NEW z \in Zones, NEW named \in SUBSET Checks, Approve(z, named)
  PROVE  RowsOK' /\ RowsSound'
<1> DEFINE merging == {c \in Clashes : Home[c] = z /\ clashState[c] \in Accepted}
<1>1. /\ clashState' = [c \in Clashes |-> IF c \in merging THEN "merged" ELSE clashState[c]]
      /\ latest' = [c \in Clashes |->
                      IF c \in merging /\ clashState[c] = "verified_conditional"
                      THEN [latest[c] EXCEPT !.acked = named] ELSE latest[c]]
      /\ zoneStatus' = [zoneStatus EXCEPT ![z] = "merged"]
      /\ unacknowledged(z, named) = {}
  BY DEF Approve
<1>2. RowsOK'
  BY <1>1 DEF RowsOK, Row, CLASH_STATES, ZONE_STATES
<1>3. \A c \in merging : clashState[c] = "verified_conditional"
                            => latest[c].unprovable \subseteq named
  <2> SUFFICES ASSUME NEW c \in merging, clashState[c] = "verified_conditional"
               PROVE  latest[c].unprovable \subseteq named
    OBVIOUS
  <2> DEFINE waiting == {d \in Clashes : Home[d] = z /\ clashState[d] = "verified_conditional"}
  <2>1. c \in waiting
    OBVIOUS
  <2>2. latest[c].unprovable \subseteq UNION {latest[d].unprovable : d \in waiting}
    BY <2>1
  <2> QED BY <1>1, <2>2 DEF unacknowledged
<1>4. ASSUME NEW c \in Clashes
      PROVE  Sound(c, clashState'[c], latest'[c])
  <2>1. Sound(c, clashState[c], latest[c]) /\ latest[c] \in Row
    BY DEF RowsSound, RowsOK
  <2>2. CASE c \notin merging
    BY <1>1, <2>1, <2>2
  <2>3. CASE c \in merging /\ clashState[c] = "verified_conditional"
    <3>1. latest'[c] = [latest[c] EXCEPT !.acked = named] /\ clashState'[c] = "merged"
      BY <1>1, <2>3
    <3>2. latest'[c].acked = named /\ latest'[c].verdict = latest[c].verdict
          /\ latest'[c].unprovable = latest[c].unprovable
          /\ latest'[c].author = latest[c].author /\ latest'[c].judged = latest[c].judged
      BY <2>1, <3>1 DEF Row
    <3> QED BY <1>3, <2>1, <2>3, <3>1, <3>2 DEF Sound, Accepted
  <2>4. CASE c \in merging /\ clashState[c] = "verified"
    <3>1. latest'[c] = latest[c] /\ clashState'[c] = "merged"
      BY <1>1, <2>4
    <3> QED BY <2>1, <2>4, <3>1 DEF Sound, Accepted
  <2> QED BY <2>2, <2>3, <2>4 DEF Accepted
<1> QED BY <1>2, <1>4 DEF RowsSound

LEMMA RejectKeepsRows ==
  ASSUME RowsOK, RowsSound, NEW z \in Zones, Reject(z)
  PROVE  RowsOK' /\ RowsSound'
<1>1. RowsOK'
  BY DEF RowsOK, Reject, CLASH_STATES, ZONE_STATES
<1>2. RowsSound'
  BY DroppedIsSound DEF RowsSound, Reject
<1> QED BY <1>1, <1>2

LEMMA DiffKeepsRows ==
  ASSUME RowsOK, RowsSound, NEW gone, DiffAgainst(gone)
  PROVE  RowsOK' /\ RowsSound'
<1>1. RowsOK'
  BY DEF RowsOK, DiffAgainst, CLASH_STATES
<1>2. RowsSound'
  BY DroppedIsSound DEF RowsSound, DiffAgainst
<1> QED BY <1>1, <1>2

(* An edit writes what the zone's own monitors answered, in the reviewer's  *)
(* name.                                                                    *)
LEMMA EditKeepsRows ==
  ASSUME RowsOK, RowsSound, NEW z \in Zones, Edit(z)
  PROVE  RowsOK' /\ RowsSound'
<1>0. PICK edited \in (SUBSET {c \in Clashes : Home[c] = z /\ latest[c] # NoRow}) \ {{}} :
       \E answer \in [edited -> Result] :
         /\ latest' = [c \in Clashes |->
                         IF c \notin edited THEN latest[c]
                         ELSE IF answer[c].failed THEN RefusedRow
                         ELSE Judged(aggregate(answer[c]), answer[c].unprovable,
                                     "reviewer", {z})]
         /\ clashState' = [c \in Clashes |->
                             IF c \notin edited THEN clashState[c]
                             ELSE IF answer[c].failed THEN "escalated"
                             ELSE aggregate(answer[c])]
  BY DEF Edit
<1>1. PICK answer \in [edited -> Result] :
        /\ latest' = [c \in Clashes |->
                         IF c \notin edited THEN latest[c]
                         ELSE IF answer[c].failed THEN RefusedRow
                         ELSE Judged(aggregate(answer[c]), answer[c].unprovable,
                                     "reviewer", {z})]
        /\ clashState' = [c \in Clashes |->
                             IF c \notin edited THEN clashState[c]
                             ELSE IF answer[c].failed THEN "escalated"
                             ELSE aggregate(answer[c])]
  BY <1>0
<1>2. zoneStatus' = [zoneStatus EXCEPT ![z] = "awaiting_review"]
  BY DEF Edit
<1>3. ASSUME NEW c \in Clashes
      PROVE  /\ clashState'[c] \in CLASH_STATES
             /\ latest'[c] \in Row
             /\ Sound(c, clashState'[c], latest'[c])
  <2>1. CASE c \notin edited
    BY <1>1, <2>1 DEF RowsOK, RowsSound
  <2>2. CASE c \in edited /\ answer[c].failed
    BY <1>1, <2>2, RowsAreRows, ReopenedIsSound DEF CLASH_STATES
  <2>3. CASE c \in edited /\ ~answer[c].failed
    <3> DEFINE row == Judged(aggregate(answer[c]), answer[c].unprovable, "reviewer", {z})
    <3>1. latest'[c] = row /\ clashState'[c] = aggregate(answer[c])
      BY <1>1, <2>3
    <3>2. answer[c] \in Result /\ answer[c].unprovable \in SUBSET Checks
      BY <2>3 DEF Result
    <3>3. /\ aggregate(answer[c]) \in Accepted
          /\ aggregate(answer[c]) = "verified" => answer[c].unprovable = {}
          /\ aggregate(answer[c]) = "verified_conditional" => answer[c].unprovable # {}
      BY <2>3, <3>2, AnswersAreVerdicts
    <3>4. row \in Row
      BY <3>2, <3>3, RowsAreRows
    <3>5. /\ row.verdict = aggregate(answer[c]) /\ row.author = "reviewer"
          /\ row.unprovable = answer[c].unprovable
      BY DEF Judged
    <3>6. Sound(c, aggregate(answer[c]), row)
      BY <3>3, <3>5 DEF Sound, Accepted
    <3>7. aggregate(answer[c]) \in CLASH_STATES
      BY <3>3 DEF Accepted, CLASH_STATES
    <3> QED BY <3>1, <3>4, <3>6, <3>7
  <2> QED BY <2>1, <2>2, <2>3
<1>4. RowsOK'
  <2>1. clashState' = [c \in Clashes |-> clashState'[c]] /\ latest' = [c \in Clashes |-> latest'[c]]
    BY <1>1
  <2> QED BY <1>2, <1>3, <2>1 DEF RowsOK, ZONE_STATES
<1> QED BY <1>3, <1>4 DEF RowsSound

------------------------------------------------------------------------------
(* A clean start: no row, nothing accepted.                                 *)
LEMMA FreshRowsAreSound ==
  ASSUME zoneStatus' = [z \in Zones |-> "queued"],
         clashState' = [c \in Clashes |-> "open"],
         latest' = [c \in Clashes |-> NoRow]
  PROVE  RowsOK' /\ RowsSound'
<1>1. RowsOK'
  BY RowsAreRows DEF RowsOK, CLASH_STATES, ZONE_STATES
<1>2. RowsSound'
  BY DEF RowsSound, Sound, NoRow, Judged, Accepted
<1> QED BY <1>1, <1>2

LEMMA InitRows == Init => RowsOK /\ RowsSound
<1> SUFFICES ASSUME Init PROVE RowsOK /\ RowsSound
  OBVIOUS
<1>1. RowsOK
  BY RowsAreRows DEF Init, RowsOK, CLASH_STATES, ZONE_STATES
<1>2. RowsSound
  BY DEF Init, RowsSound, Sound, NoRow, Judged, Accepted
<1> QED BY <1>1, <1>2

(* Every step keeps the rows well-typed and sound.                          *)
LEMMA NextKeepsRows ==
  ASSUME RowsOK, RowsSound, [Next]_vars
  PROVE  RowsOK' /\ RowsSound'
<1>1. CASE UNCHANGED rows
  BY <1>1 DEF rows, RowsOK, RowsSound
<1>2. CASE Ingest \/ CollectPending \/ AssemblePackages
  BY <1>1, <1>2 DEF Ingest, CollectPending, AssemblePackages
<1>3. ASSUME NEW z \in Zones, PipelineResolve(z) \/ ResolveJob(z)
      PROVE  RowsOK' /\ RowsSound'
  BY <1>3, ResolveKeepsRows DEF PipelineResolve, ResolveJob
<1>4. ASSUME NEW c \in Clashes, PipelineArbitrate(c) \/ ArbitrateJob(c)
      PROVE  RowsOK' /\ RowsSound'
  BY <1>4, ArbitrateKeepsRows DEF PipelineArbitrate, ArbitrateJob
<1>5. CASE PipelineFails
  BY <1>5, FreshRowsAreSound DEF PipelineFails
<1>6. ASSUME NEW c \in Clashes, NEW changed \in changed_zones(c), RebaseJob(c, changed)
      PROVE  RowsOK' /\ RowsSound'
  BY <1>6, EnqueueRebaseKeepsRows DEF RebaseJob
<1>7. ASSUME NEW z \in Zones, NEW named \in SUBSET Checks, Approve(z, named)
      PROVE  RowsOK' /\ RowsSound'
  BY <1>7, ApproveKeepsRows
<1>8. ASSUME NEW z \in Zones, Reject(z) \/ Edit(z)
      PROVE  RowsOK' /\ RowsSound'
  BY <1>8, RejectKeepsRows, EditKeepsRows
<1>9. ASSUME NEW gone \in SUBSET Clashes, DiffAgainst(gone)
      PROVE  RowsOK' /\ RowsSound'
  BY <1>9, DiffKeepsRows
<1>10. CASE UNCHANGED vars
  BY <1>1, <1>10 DEF vars, rows
<1> QED BY <1>2, <1>3, <1>4, <1>5, <1>6, <1>7, <1>8, <1>9, <1>10
        DEF Next, Pipeline, Worker, Reviewer

------------------------------------------------------------------------------
(* The rest of the state: the run's own variables.                          *)
RunOK == /\ quoted \in SUBSET Clashes
         /\ stage \in {"ingesting", "resolving", "arbitrating", "reviewed"}
         /\ todo \in SUBSET Zones
         /\ pending \in SUBSET Clashes
         /\ status \in {"ingesting", "queued", "reviewed"}
         /\ ledger \in {"none", "queued"}

LEMMA NextKeepsRun ==
  ASSUME RunOK, [Next]_vars
  PROVE  RunOK'
<1> USE DEF RunOK, version
<1>1. CASE Ingest
  BY <1>1 DEF Ingest, zones_by_priority
<1>2. CASE CollectPending \/ AssemblePackages \/ PipelineFails
  BY <1>2 DEF CollectPending, AssemblePackages, PipelineFails
<1>3. ASSUME NEW z \in Zones, PipelineResolve(z) \/ ResolveJob(z) \/ Reject(z) \/ Edit(z)
      PROVE  RunOK'
  BY <1>3 DEF PipelineResolve, ResolveJob, Reject, Edit, stillQuoted
<1>4. ASSUME NEW c \in Clashes, PipelineArbitrate(c) \/ ArbitrateJob(c)
      PROVE  RunOK'
  BY <1>4 DEF PipelineArbitrate, ArbitrateJob, stillQuoted
<1>5. ASSUME NEW c \in Clashes, NEW changed \in changed_zones(c), RebaseJob(c, changed)
      PROVE  RunOK'
  BY <1>5 DEF RebaseJob, stillQuoted
<1>6. ASSUME NEW z \in Zones, NEW named \in SUBSET Checks, Approve(z, named)
      PROVE  RunOK'
  BY <1>6 DEF Approve
<1>7. ASSUME NEW gone \in SUBSET Clashes, DiffAgainst(gone)
      PROVE  RunOK'
  BY <1>7 DEF DiffAgainst
<1>8. CASE UNCHANGED vars
  BY <1>8 DEF vars
<1> QED BY <1>1, <1>2, <1>3, <1>4, <1>5, <1>6, <1>7, <1>8
        DEF Next, Pipeline, Worker, Reviewer

(* The inductive invariant: types, and every row sound.                     *)
IInv == RowsOK /\ RunOK /\ RowsSound

LEMMA IInvIsInvariant == Spec => []IInv
<1>1. Init => IInv
  BY InitRows DEF IInv, Init, RunOK
<1>2. IInv /\ [Next]_vars => IInv'
  BY NextKeepsRows, NextKeepsRun DEF IInv
<1> QED BY <1>1, <1>2, PTL DEF Spec

(* Whatever the layout, every column holds a value of its vocabulary.       *)
THEOREM TypeCorrect == Spec => []TypeOK
<1>1. IInv => TypeOK
  BY DEF IInv, RowsOK, RunOK, TypeOK
<1> QED BY <1>1, IInvIsInvariant, PTL

(* Whatever the layout, an accepted clash carries a proposal of exactly its *)
(* verdict.                                                                 *)
THEOREM AcceptedIsAsJudged == Spec => []AcceptedAsJudged
<1>1. IInv => AcceptedAsJudged
  BY RowsSoundIsTheInvariants DEF IInv
<1> QED BY <1>1, IInvIsInvariant, PTL

(* Whatever the layout, a resolver's vector is accepted on a border only by *)
(* the monitors of every owning zone.                                       *)
THEOREM BorderNeedsADoublePass == Spec => []DoublePass
<1>1. IInv => DoublePass
  BY RowsSoundIsTheInvariants DEF IInv
<1> QED BY <1>1, IInvIsInvariant, PTL

(* Whatever the layout and the checks, nothing is merged on a check nobody  *)
(* named.                                                                   *)
THEOREM MergedIsAcknowledged == Spec => []MergedAsAcknowledged
<1>1. IInv => MergedAsAcknowledged
  BY RowsSoundIsTheInvariants DEF IInv
<1> QED BY <1>1, IInvIsInvariant, PTL

(* Whatever the layout, a clash sent back keeps no acceptance its zone      *)
(* could still be approved with.                                            *)
THEOREM ReopeningWithdraws == Spec => []NoVerdictSurvivesReopening
<1>1. IInv => NoVerdictSurvivesReopening
  BY RowsSoundIsTheInvariants DEF IInv
<1> QED BY <1>1, IInvIsInvariant, PTL

------------------------------------------------------------------------------
(* Only a rebase takes an accepted clash back to "proposed", and it queues  *)
(* the zone of every clash it takes.                                        *)
LEMMA StepQueuesWhatItReopens ==
  ASSUME RowsOK, [Next]_vars, NEW c \in Clashes,
         clashState[c] \in Accepted, clashState'[c] = "proposed"
  PROVE  zoneStatus'[Home[c]] = "queued"
<1>1. Home[c] \in Zones
  BY LayoutAssumption
<1>2. ASSUME NEW states, NEW failing, states[c] # "proposed",
             clashState' = reopened(states, failing), zoneStatus' = requeued(failing)
      PROVE  zoneStatus'[Home[c]] = "queued"
  <2>1. c \in failing
    BY <1>2 DEF reopened
  <2> QED BY <1>1, <1>2, <2>1 DEF requeued
<1>3. ASSUME NEW z \in Zones PROVE ~resolve_zone(z)
  BY <1>3 DEF resolve_zone, Accepted
<1>4. ASSUME NEW d \in Clashes, refuse(d) PROVE FALSE
  BY <1>4 DEF refuse, RowsOK, Accepted
<1>5. ASSUME NEW d \in Clashes, commit(d) PROVE zoneStatus'[Home[c]] = "queued"
  <2>1. PICK gaps \in [Owning[d] -> SUBSET Checks],
             failing \in SUBSET exposed(d, Owning[d]) :
          LET unprovable == UNION {gaps[z] : z \in Owning[d]}
              row == Judged(aggregate([failed |-> FALSE, unprovable |-> unprovable]),
                            unprovable, latest[d].author, Owning[d])
          IN /\ clashState' = reopened([clashState EXCEPT ![d] = row.verdict], failing)
             /\ zoneStatus' = requeued(failing)
    BY <1>5 DEF commit
  <2> DEFINE unprovable == UNION {gaps[z] : z \in Owning[d]}
             answer == [failed |-> FALSE, unprovable |-> unprovable]
             verdict == Judged(aggregate(answer), unprovable, latest[d].author, Owning[d]).verdict
             states == [clashState EXCEPT ![d] = verdict]
  <2>2. verdict # "proposed"
    BY DEF Judged, aggregate
  <2>3. clashState' = reopened(states, failing) /\ zoneStatus' = requeued(failing)
    BY <2>1
  <2> HIDE DEF verdict
  <2>4. states[c] # "proposed"
    BY <2>2 DEF RowsOK, Accepted
  <2> HIDE DEF states
  <2> QED BY <1>2, <2>3, <2>4
<1>6. ASSUME NEW d, NEW changed, enqueue_rebase(d, changed)
      PROVE  zoneStatus'[Home[c]] = "queued"
  BY <1>2, <1>6 DEF enqueue_rebase, Accepted
<1>7. CASE Ingest \/ CollectPending \/ AssemblePackages \/ PipelineFails
  BY <1>7 DEF Ingest, CollectPending, AssemblePackages, PipelineFails, rows, Accepted
<1>8. ASSUME NEW z \in Zones, Edit(z) PROVE FALSE
  BY <1>8 DEF Edit, aggregate, Accepted
<1>9. ASSUME NEW z \in Zones, NEW named \in SUBSET Checks, Approve(z, named) \/ Reject(z)
      PROVE  FALSE
  BY <1>9 DEF Approve, Reject, Accepted
<1>10. ASSUME NEW gone, DiffAgainst(gone) PROVE FALSE
  BY <1>10 DEF DiffAgainst, Accepted
<1>11. CASE UNCHANGED vars
  BY <1>11 DEF vars, Accepted
<1> QED BY <1>3, <1>4, <1>5, <1>6, <1>7, <1>8, <1>9, <1>10, <1>11
        DEF Next, Pipeline, Worker, Reviewer, PipelineResolve, PipelineArbitrate,
            ResolveJob, ArbitrateJob, RebaseJob, arbitrate

(* Whatever the layout, reopened work is back in the queue.                 *)
THEOREM ReopeningQueues == Spec => ReopenedWorkIsQueued
<1>1. RowsOK /\ [Next]_vars =>
        [\A c \in Clashes :
           clashState[c] \in Accepted /\ clashState'[c] = "proposed"
             => zoneStatus'[Home[c]] = "queued"]_vars
  BY StepQueuesWhatItReopens
<1>2. IInv => RowsOK
  BY DEF IInv
<1> QED BY <1>1, <1>2, IInvIsInvariant, PTL DEF Spec, ReopenedWorkIsQueued

------------------------------------------------------------------------------
(* Where the pipeline stands with the proposals it has handed over: before  *)
(* the arbitration each is a shared clash with a live row; during it, each  *)
(* is still pending or has been refused by a rebase.                        *)
Handed == \A c \in Clashes : clashState[c] = "proposed" =>
            /\ stage # "ingesting"
            /\ stage = "resolving" => Shared(c)
            /\ stage = "arbitrating" => c \in pending \/ latest[c].verdict = "rejected"

LEMMA ResolveHandsOver ==
  ASSUME Handed, stage = "resolving", NEW z \in Zones, PipelineResolve(z)
  PROVE  Handed'
<1> DEFINE seen == {c \in Clashes : Home[c] = z /\ clashState[c] \in {"open", "proposed"}}
<1>1. PICK o \in [seen -> Outcome(z)] :
        clashState' = [c \in Clashes |-> IF c \in seen THEN persisted(c, o[c])
                                           ELSE clashState[c]]
  BY DEF PipelineResolve, resolve_zone
<1>2. ASSUME NEW c \in Clashes, clashState'[c] = "proposed" PROVE Shared(c)
  <2>1. CASE c \in seen
    BY <1>1, <1>2, <2>1 DEF persisted, Accepted
  <2>2. CASE c \notin seen
    BY <1>1, <1>2, <2>2 DEF Handed
  <2> QED BY <2>1, <2>2
<1>3. stage' = "resolving"
  BY DEF PipelineResolve
<1> QED BY <1>2, <1>3 DEF Handed

LEMMA ArbitrateHandsOver ==
  ASSUME RowsOK, Handed, NEW c \in Clashes, PipelineArbitrate(c)
  PROVE  Handed'
<1>1. stage = "arbitrating" /\ stage' = "arbitrating" /\ pending' = pending \ {c}
  BY DEF PipelineArbitrate
<1>2. CASE refuse(c)
  BY <1>1, <1>2 DEF Handed, RowsOK, refuse
<1>3. CASE commit(c)
  <2>1. PICK gaps \in [Owning[c] -> SUBSET Checks],
             failing \in SUBSET exposed(c, Owning[c]) :
          LET unprovable == UNION {gaps[z] : z \in Owning[c]}
              row == Judged(aggregate([failed |-> FALSE, unprovable |-> unprovable]),
                            unprovable, latest[c].author, Owning[c])
          IN /\ clashState' = reopened([clashState EXCEPT ![c] = row.verdict], failing)
             /\ latest' = withdrawn([latest EXCEPT ![c] = row], failing)
    BY <1>3 DEF commit
  <2> DEFINE unprovable == UNION {gaps[z] : z \in Owning[c]}
             row == Judged(aggregate([failed |-> FALSE, unprovable |-> unprovable]),
                           unprovable, latest[c].author, Owning[c])
  <2>2. row.verdict # "proposed"
    BY DEF Judged, aggregate
  <2>3. /\ clashState' = reopened([clashState EXCEPT ![c] = row.verdict], failing)
        /\ latest' = withdrawn([latest EXCEPT ![c] = row], failing)
    BY <2>1
  <2> HIDE DEF row
  <2> SUFFICES ASSUME NEW d \in Clashes, clashState'[d] = "proposed"
               PROVE  d \in pending' \/ latest'[d].verdict = "rejected"
    BY <1>1 DEF Handed
  <2>4. CASE d \in failing
    BY <2>3, <2>4 DEF withdrawn, RefusedRow, Judged
  <2>5. CASE d \notin failing
    <3>1. clashState'[d] = [clashState EXCEPT ![c] = row.verdict][d]
          /\ latest'[d] = [latest EXCEPT ![c] = row][d]
      BY <2>3, <2>5 DEF reopened, withdrawn
    <3>2. d # c
      BY <2>2, <3>1 DEF RowsOK
    <3>3. clashState[d] = "proposed" /\ latest'[d] = latest[d]
      BY <3>1, <3>2
    <3> QED BY <1>1, <3>2, <3>3 DEF Handed
  <2> QED BY <2>4, <2>5
<1> QED BY <1>2, <1>3 DEF PipelineArbitrate, arbitrate

LEMMA NextHandsOver ==
  ASSUME RowsOK, RunOK, RowsSound, Handed, [Next]_vars
  PROVE  Handed'
<1>1. CASE Ingest
  BY <1>1 DEF Ingest, rows, Handed
<1>2. CASE CollectPending
  BY <1>2 DEF CollectPending, rows, Handed
<1>3. CASE AssemblePackages
  BY <1>3 DEF AssemblePackages, Handed
<1>4. CASE PipelineFails
  BY <1>4 DEF PipelineFails, Handed
<1>5. ASSUME NEW z \in Zones, PipelineResolve(z) PROVE Handed'
  BY <1>5, ResolveHandsOver DEF PipelineResolve
<1>6. ASSUME NEW c \in Clashes, PipelineArbitrate(c) PROVE Handed'
  BY <1>6, ArbitrateHandsOver
<1>7. CASE Served /\ UNCHANGED stage
  BY <1>7 DEF Served, Handed
<1>8. CASE UNCHANGED vars
  BY <1>8 DEF vars, Handed
<1>9. Worker \/ Reviewer => Served /\ UNCHANGED stage
  BY DEF Worker, Reviewer, ResolveJob, ArbitrateJob, RebaseJob, Approve, Reject, Edit, DiffAgainst
<1> QED BY <1>1, <1>2, <1>3, <1>4, <1>5, <1>6, <1>7, <1>8, <1>9 DEF Next, Pipeline

(* Whatever the layout and the batch, a run that completes leaves no        *)
(* accepted proposal unarbitrated and quotes every verdict it ends with.    *)
THEOREM RunsEndSettled == Spec => RunEndsSettled
<1>1. Init => Handed
  BY DEF Init, Handed
<1>2. IInv /\ Handed /\ [Next]_vars => Handed'
  BY NextHandsOver DEF IInv
<1>3. IInv /\ Handed /\ [Next]_vars =>
        [stage' = "reviewed" /\ stage # "reviewed" =>
           /\ \A c \in Clashes :
                zoneStatus'[Home[c]] = "awaiting_review" => c \in quoted' \/ latest'[c] = NoRow
           /\ \A c \in Clashes :
                clashState'[c] = "proposed" => latest'[c].verdict = "rejected"]_vars
  <2> SUFFICES ASSUME IInv, Handed, Next, stage' = "reviewed", stage # "reviewed"
               PROVE  /\ \A c \in Clashes :
                           zoneStatus'[Home[c]] = "awaiting_review"
                             => c \in quoted' \/ latest'[c] = NoRow
                      /\ \A c \in Clashes :
                           clashState'[c] = "proposed" => latest'[c].verdict = "rejected"
    OBVIOUS
  <2>1. AssemblePackages
    BY DEF Next, Pipeline, Worker, Reviewer, Ingest, PipelineResolve, CollectPending,
           PipelineArbitrate, PipelineFails, ResolveJob, ArbitrateJob, RebaseJob, Approve,
           Reject, Edit, DiffAgainst, Served
  <2> QED BY <2>1 DEF AssemblePackages, rows, Handed
<1> QED BY <1>1, <1>2, <1>3, IInvIsInvariant, PTL DEF Spec, RunEndsSettled

------------------------------------------------------------------------------
(* The promise VersionPromise makes of the rows as others see them.         *)

(* What a step of the coordinator does to each clash on its own.            *)
LEMMA ResolveClashByClash ==
  ASSUME NEW z \in Zones, resolve_zone(z), NEW c \in Clashes
  PROVE  IF Home[c] = z /\ clashState[c] \in {"open", "proposed"}
         THEN \E o \in Outcome(z) : clashState'[c] = persisted(c, o) /\ latest'[c] = o
         ELSE clashState'[c] = clashState[c] /\ latest'[c] = latest[c]
<1> DEFINE seen == {d \in Clashes : Home[d] = z /\ clashState[d] \in {"open", "proposed"}}
<1>1. PICK o \in [seen -> Outcome(z)] :
        /\ clashState' = [d \in Clashes |-> IF d \in seen THEN persisted(d, o[d])
                                           ELSE clashState[d]]
        /\ latest' = [d \in Clashes |-> IF d \in seen THEN o[d] ELSE latest[d]]
  BY DEF resolve_zone
<1>2. c \in seen => o[c] \in Outcome(z) OBVIOUS
<1>3. c \in seen <=> Home[c] = z /\ clashState[c] \in {"open", "proposed"} OBVIOUS
<1> HIDE DEF seen
<1> QED BY <1>1, <1>2, <1>3

(* The verdict two agreeing zones get, and what their commit disturbs.      *)
LEMMA CommitClashByClash ==
  ASSUME RowsOK, NEW c \in Clashes, commit(c)
  PROVE  \E row \in Row, failing \in SUBSET exposed(c, Owning[c]) :
           /\ row.verdict \in Accepted /\ row.judged = Owning[c] /\ row.author = latest[c].author
           /\ zoneStatus' = requeued(failing)
           /\ \A d \in Clashes :
                IF d \in failing THEN clashState'[d] = "proposed" /\ latest'[d] = RefusedRow
                ELSE IF d = c THEN clashState'[d] = row.verdict /\ latest'[d] = row
                ELSE clashState'[d] = clashState[d] /\ latest'[d] = latest[d]
<1>1. PICK gaps \in [Owning[c] -> SUBSET Checks],
           failing \in SUBSET exposed(c, Owning[c]) :
        LET unprovable == UNION {gaps[z] : z \in Owning[c]}
            row == Judged(aggregate([failed |-> FALSE, unprovable |-> unprovable]),
                          unprovable, latest[c].author, Owning[c])
        IN /\ clashState' = reopened([clashState EXCEPT ![c] = row.verdict], failing)
           /\ latest' = withdrawn([latest EXCEPT ![c] = row], failing)
           /\ zoneStatus' = requeued(failing)
  BY DEF commit
<1> DEFINE unprovable == UNION {gaps[z] : z \in Owning[c]}
           answer == [failed |-> FALSE, unprovable |-> unprovable]
<1>2. PICK row : row = Judged(aggregate(answer), unprovable, latest[c].author, Owning[c])
  OBVIOUS
<1>3. unprovable \in SUBSET Checks
  OBVIOUS
<1>4. answer \in Result /\ ~answer.failed
  BY <1>3 DEF Result
<1>5. /\ clashState' = reopened([clashState EXCEPT ![c] = row.verdict], failing)
      /\ latest' = withdrawn([latest EXCEPT ![c] = row], failing)
      /\ zoneStatus' = requeued(failing)
  BY <1>1, <1>2
<1> HIDE DEF unprovable, answer
<1>6. aggregate(answer) \in Accepted
  BY <1>4, AnswersAreVerdicts
<1>7. latest[c].author \in {"resolver", "reviewer"} /\ Owning[c] \in SUBSET Zones
  BY LayoutAssumption DEF RowsOK, Row
<1>8. row \in Row /\ row.verdict \in Accepted /\ row.judged = Owning[c] /\ row.author = latest[c].author
  <2>1. row \in Row BY <1>2, <1>3, <1>6, <1>7, RowsAreRows
  <2> QED BY <1>2, <1>6, <2>1 DEF Judged
<1>9. \A d \in Clashes :
        IF d \in failing THEN clashState'[d] = "proposed" /\ latest'[d] = RefusedRow
        ELSE IF d = c THEN clashState'[d] = row.verdict /\ latest'[d] = row
        ELSE clashState'[d] = clashState[d] /\ latest'[d] = latest[d]
  BY <1>5 DEF RowsOK, reopened, withdrawn
<1> USE <1>8
<1> WITNESS row \in Row, failing \in SUBSET exposed(c, Owning[c])
<1> QED BY <1>5, <1>8, <1>9

LEMMA EditClashByClash ==
  ASSUME RowsOK, NEW z \in Zones, Edit(z), NEW c \in Clashes
  PROVE  \/ clashState'[c] = clashState[c] /\ latest'[c] = latest[c]
         \/ Home[c] = z /\ clashState'[c] = "escalated" /\ latest'[c] = RefusedRow
         \/ /\ Home[c] = z
            /\ clashState'[c] \in Accepted
            /\ latest'[c].verdict = clashState'[c] /\ latest'[c].judged = {z}
<1>0. PICK edited \in (SUBSET {d \in Clashes : Home[d] = z /\ latest[d] # NoRow}) \ {{}} :
       \E answer \in [edited -> Result] :
         /\ latest' = [d \in Clashes |->
                         IF d \notin edited THEN latest[d]
                         ELSE IF answer[d].failed THEN RefusedRow
                         ELSE Judged(aggregate(answer[d]), answer[d].unprovable,
                                     "reviewer", {z})]
         /\ clashState' = [d \in Clashes |->
                             IF d \notin edited THEN clashState[d]
                             ELSE IF answer[d].failed THEN "escalated"
                             ELSE aggregate(answer[d])]
  BY DEF Edit
<1>1. PICK answer \in [edited -> Result] :
        /\ latest'[c] = IF c \notin edited THEN latest[c]
                        ELSE IF answer[c].failed THEN RefusedRow
                        ELSE Judged(aggregate(answer[c]), answer[c].unprovable, "reviewer", {z})
        /\ clashState'[c] = IF c \notin edited THEN clashState[c]
                            ELSE IF answer[c].failed THEN "escalated"
                            ELSE aggregate(answer[c])
  BY <1>0
<1>2. c \in edited => Home[c] = z /\ answer[c] \in Result
  OBVIOUS
<1>3. c \in edited /\ ~answer[c].failed => aggregate(answer[c]) \in Accepted
  BY <1>2, AnswersAreVerdicts
<1> QED BY <1>1, <1>2, <1>3 DEF Judged

LEMMA OutcomesByVerdict ==
  ASSUME NEW z \in Zones, NEW c \in Clashes, Home[c] = z, NEW o \in Outcome(z)
  PROVE  \/ persisted(c, o) = "escalated" /\ o.verdict \notin Accepted
         \/ persisted(c, o) = "proposed" /\ Shared(c) /\ o.verdict \in Accepted /\ o.judged = {z}
         \/ /\ ~Shared(c) /\ persisted(c, o) = o.verdict
            /\ o.verdict \in Accepted /\ o.judged = {z}
BY OutcomesAreRows DEF persisted

------------------------------------------------------------------------------
(* States the vocabulary names and no handler sets.                         *)
Plain == /\ zoneStatus \in [Zones -> V!ZONE_STATES]
         /\ clashState \in [Clashes -> V!STANDINGS]

LEMMA NextKeepsPlain ==
  ASSUME RowsOK, Plain, RowsOK', [Next]_vars
  PROVE  Plain'
<1> USE DEF V!ZONE_STATES, V!STANDINGS, V!Accepted, Accepted
<1>0. /\ \A z \in Zones : zoneStatus[z] \in V!ZONE_STATES
      /\ \A c \in Clashes : clashState[c] \in V!STANDINGS
  BY DEF Plain
<1>1. ASSUME \A z \in Zones : zoneStatus'[z] \in V!ZONE_STATES,
             \A c \in Clashes : clashState'[c] \in V!STANDINGS
      PROVE  Plain'
  BY <1>1 DEF Plain, RowsOK
<1>2. CASE UNCHANGED rows BY <1>2 DEF rows, Plain
<1>3. ASSUME NEW z \in Zones, resolve_zone(z) PROVE Plain'
  <2>1. \A c \in Clashes : clashState'[c] \in V!STANDINGS
    BY <1>0, <1>3, ResolveClashByClash, OutcomesByVerdict
  <2>2. \A y \in Zones : zoneStatus'[y] \in V!ZONE_STATES
    BY <1>0, <1>3 DEF resolve_zone, RowsOK
  <2> QED BY <1>1, <2>1, <2>2
<1>4. ASSUME NEW c \in Clashes, arbitrate(c) PROVE Plain'
  <2>1. CASE refuse(c) BY <1>0, <1>1, <2>1 DEF refuse, RowsOK
  <2>2. CASE commit(c)
    <3>1. \A d \in Clashes : clashState'[d] \in V!STANDINGS
      BY <1>0, <2>2, CommitClashByClash
    <3>2. \A y \in Zones : zoneStatus'[y] \in V!ZONE_STATES
      BY <1>0, <2>2 DEF commit, requeued
    <3> QED BY <1>1, <3>1, <3>2
  <2> QED BY <1>4, <2>1, <2>2 DEF arbitrate
<1>5. ASSUME NEW c, NEW changed, enqueue_rebase(c, changed) PROVE Plain'
  BY <1>0, <1>1, <1>5 DEF enqueue_rebase, reopened, requeued
<1>6. CASE PipelineFails BY <1>6 DEF PipelineFails, Plain
<1>7. ASSUME NEW z \in Zones, NEW named, Approve(z, named) PROVE Plain'
  BY <1>0, <1>1, <1>7 DEF Approve, RowsOK
<1>8. ASSUME NEW z \in Zones, Reject(z) PROVE Plain'
  BY <1>0, <1>1, <1>8 DEF Reject, RowsOK
<1>9. ASSUME NEW z \in Zones, Edit(z) PROVE Plain'
  <2>1. \A c \in Clashes : clashState'[c] \in V!STANDINGS
    BY <1>0, <1>9, EditClashByClash
  <2>2. \A y \in Zones : zoneStatus'[y] \in V!ZONE_STATES
    BY <1>0, <1>9 DEF Edit, RowsOK
  <2> QED BY <1>1, <2>1, <2>2
<1>10. ASSUME NEW gone, DiffAgainst(gone) PROVE Plain'
  BY <1>0, <1>1, <1>10 DEF DiffAgainst
<1> QED BY <1>2, <1>3, <1>4, <1>5, <1>6, <1>7, <1>8, <1>9, <1>10
        DEF Next, Pipeline, Worker, Reviewer, vars, rows, Ingest, CollectPending,
            AssemblePackages, PipelineResolve, PipelineArbitrate, ResolveJob, ArbitrateJob, RebaseJob

------------------------------------------------------------------------------
(* What the run's own transaction holds before it is committed: a clash no  *)
(* zone has looked at, or that a rebase sent back, hangs from a queued      *)
(* zone, and an accepted one has the word of every owning zone.             *)
Uncommitted(c) ==
  /\ clashState[c] \in {"open", "proposed", "escalated"} \cup Accepted
  /\ clashState[c] \in Accepted => latest[c].judged = Owning[c]
  /\ clashState[c] = "open" => latest[c].verdict \notin Accepted /\ zoneStatus[Home[c]] = "queued"
  /\ clashState[c] = "proposed" /\ latest[c].verdict = "rejected" => zoneStatus[Home[c]] = "queued"
Hidden == Served \/ \A c \in Clashes : Uncommitted(c)

LEMMA ResolveKeepsHidden ==
  ASSUME RowsOK, Hidden, ~Served, NEW z \in Zones, resolve_zone(z)
  PROVE  Hidden'
<1> SUFFICES ASSUME NEW c \in Clashes PROVE Uncommitted(c)'
  BY DEF Hidden
<1>1. /\ Uncommitted(c) /\ Home[c] \in Zones
      /\ zoneStatus' = [zoneStatus EXCEPT ![z] = "awaiting_review"]
      /\ zoneStatus \in [Zones -> ZONE_STATES]
  BY LayoutAssumption DEF Hidden, resolve_zone, RowsOK
<1>2. CASE Home[c] = z /\ clashState[c] \in {"open", "proposed"}
  <2>1. PICK o \in Outcome(z) : clashState'[c] = persisted(c, o) /\ latest'[c] = o
    BY <1>2, ResolveClashByClash
  <2>2. o.verdict # "rejected"
    BY AnswersAreVerdicts DEF Outcome, Acceptable, Judged, EscalatedRow, Accepted
  <2> QED BY <1>2, <2>1, <2>2, OutcomesByVerdict DEF Uncommitted, Shared, Accepted
<1>3. CASE ~(Home[c] = z /\ clashState[c] \in {"open", "proposed"})
  <2>1. clashState'[c] = clashState[c] /\ latest'[c] = latest[c]
    BY <1>3, ResolveClashByClash
  <2>2. clashState[c] \in {"open", "proposed"} => zoneStatus'[Home[c]] = zoneStatus[Home[c]]
    BY <1>1, <1>3
  <2> QED BY <1>1, <2>1, <2>2 DEF Uncommitted
<1> QED BY <1>2, <1>3

LEMMA ArbitrateKeepsHidden ==
  ASSUME RowsOK, Hidden, ~Served, NEW c \in Clashes, arbitrate(c)
  PROVE  Hidden'
<1> SUFFICES ASSUME NEW d \in Clashes PROVE Uncommitted(d)'
  BY DEF Hidden
<1>1. Uncommitted(d) /\ Home[d] \in Zones
  BY LayoutAssumption DEF Hidden
<1>2. CASE refuse(c)
  <2>1. CASE d = c
    BY <1>2, <2>1 DEF refuse, RowsOK, Uncommitted, Accepted
  <2>2. CASE d # c
    BY <1>1, <1>2, <2>2 DEF refuse, RowsOK, Uncommitted
  <2> QED BY <2>1, <2>2
<1>3. CASE commit(c)
  <2>1. PICK row \in Row, failing \in SUBSET exposed(c, Owning[c]) :
           /\ row.verdict \in Accepted /\ row.judged = Owning[c] /\ row.author = latest[c].author
           /\ zoneStatus' = requeued(failing)
           /\ \A e \in Clashes :
                IF e \in failing THEN clashState'[e] = "proposed" /\ latest'[e] = RefusedRow
                ELSE IF e = c THEN clashState'[e] = row.verdict /\ latest'[e] = row
                ELSE clashState'[e] = clashState[e] /\ latest'[e] = latest[e]
    BY <1>3, CommitClashByClash
  <2>2. /\ d \in failing => zoneStatus'[Home[d]] = "queued"
        /\ zoneStatus'[Home[d]] \in {"queued", zoneStatus[Home[d]]}
    BY <1>1, <2>1 DEF requeued
  <2>3. CASE d \in failing
    BY <2>1, <2>2, <2>3 DEF Uncommitted, RefusedRow, Judged, Accepted
  <2>4. CASE d \notin failing /\ d = c
    BY <2>1, <2>4 DEF Uncommitted, Accepted
  <2>5. CASE d \notin failing /\ d # c
    BY <1>1, <2>1, <2>2, <2>5 DEF Uncommitted
  <2> QED BY <2>3, <2>4, <2>5
<1> QED BY <1>2, <1>3 DEF arbitrate

LEMMA NextKeepsHidden ==
  ASSUME RowsOK, Hidden, [Next]_vars
  PROVE  Hidden'
<1>1. CASE Served
  <2>1. Served'
    BY <1>1 DEF Next, Pipeline, Worker, Reviewer, vars, Ingest, CollectPending, AssemblePackages,
            PipelineResolve, PipelineArbitrate, PipelineFails, ResolveJob, ArbitrateJob,
            RebaseJob, Approve, Reject, Edit, DiffAgainst, Served
  <2> QED BY <2>1 DEF Hidden
<1>2. CASE ~Served
  <2>1. CASE UNCHANGED rows
    BY <1>2, <2>1 DEF rows, Hidden, Uncommitted
  <2>2. CASE PipelineFails
    BY <2>2, LayoutAssumption DEF PipelineFails, Hidden, Uncommitted, NoRow, Judged, Accepted
  <2>3. ASSUME NEW z \in Zones, PipelineResolve(z) PROVE Hidden'
    BY <1>2, <2>3, ResolveKeepsHidden DEF PipelineResolve
  <2>4. ASSUME NEW c \in Clashes, PipelineArbitrate(c) PROVE Hidden'
    BY <1>2, <2>4, ArbitrateKeepsHidden DEF PipelineArbitrate
  <2> QED BY <1>2, <2>1, <2>2, <2>3, <2>4
          DEF Next, Pipeline, Worker, Reviewer, vars, rows, Ingest, CollectPending,
              AssemblePackages, ResolveJob, ArbitrateJob, RebaseJob, Approve, Reject, Edit,
              DiffAgainst
<1> QED BY <1>1, <1>2

------------------------------------------------------------------------------
(* Once the run is committed, what others see is what the rows say.         *)
LEMMA ServedIsShown ==
  ASSUME Served, Served'
  PROVE  /\ \A c \in Clashes :
              /\ shownState[c] = clashState[c] /\ shownState'[c] = clashState'[c]
              /\ shownJudges[c] = backing(c) /\ shownJudges'[c] = backing(c)'
         /\ \A z \in Zones : shownZones[z] = zoneStatus[z] /\ shownZones'[z] = zoneStatus'[z]
         /\ Served /\ Served'
BY DEF shownState, shownJudges, shownZones

LEMMA ShownIsPlain ==
  ASSUME RowsOK', Plain'
  PROVE  /\ shownState' \in [Clashes -> V!STANDINGS]
         /\ shownJudges' \in [Clashes -> SUBSET Zones]
         /\ shownZones' \in [Zones -> V!ZONE_STATES]
<1>1. shownState' \in [Clashes -> V!STANDINGS]
  BY DEF shownState, Plain, V!STANDINGS
<1>2. \A c \in Clashes : latest'[c].judged \in SUBSET Zones
  BY DEF RowsOK, Row
<1>3. shownJudges' \in [Clashes -> SUBSET Zones]
  BY <1>2 DEF shownJudges, backing
<1>4. shownZones' \in [Zones -> V!ZONE_STATES]
  BY DEF shownZones, Plain, V!ZONE_STATES
<1> QED BY <1>1, <1>3, <1>4

(* The end of the run shows every clash settled or queued.                  *)
LEMMA RunCompletes ==
  ASSUME RowsSound, Hidden, Handed, AssemblePackages
  PROVE  V!Complete
<1>1. ~Served /\ Served' /\ UNCHANGED rows
  BY DEF AssemblePackages, Served
<1>2. ASSUME NEW c \in Clashes
      PROVE  \/ V!accepted(c, Owning[c])
             \/ V!refused(c)
             \/ /\ \E s \in {"open", "proposed"} : V!becomes(c, s, {})
                /\ shownZones'[Home[c]] = "queued"
  <2>1. /\ shownState'[c] = clashState[c]
        /\ shownJudges'[c] = backing(c)
        /\ shownZones'[Home[c]] = zoneStatus[Home[c]]
    BY <1>1 DEF shownState, shownJudges, shownZones, backing, rows
  <2>2. Uncommitted(c) /\ Sound(c, clashState[c], latest[c])
    BY <1>1 DEF Hidden, RowsSound
  <2>3. clashState[c] = "proposed" => latest[c].verdict = "rejected"
    BY DEF AssemblePackages, Handed
  <2>4. CASE clashState[c] \in Accepted
    BY <2>1, <2>2, <2>4
       DEF V!accepted, V!becomes, V!Accepted, Uncommitted, Sound, backing, Accepted
  <2>5. CASE clashState[c] = "escalated"
    BY <2>1, <2>2, <2>5 DEF V!refused, V!becomes, Sound, backing
  <2>6. CASE clashState[c] \in {"open", "proposed"}
    <3>1. backing(c) = {} /\ zoneStatus[Home[c]] = "queued"
      BY <2>2, <2>3, <2>6 DEF Uncommitted, backing, Accepted
    <3> QED BY <2>1, <2>6, <3>1 DEF V!becomes
  <2> QED BY <2>2, <2>4, <2>5, <2>6 DEF Uncommitted
<1> QED BY <1>1, <1>2 DEF V!Complete

(* What a rebase, alone or after a commit, does to the clashes it may touch.*)
LEMMA RebaseDisturbs ==
  ASSUME Served, Served', NEW others \in SUBSET Clashes,
         NEW failing \in SUBSET others, \A d \in failing : clashState[d] \in Accepted,
         zoneStatus' = requeued(failing),
         \A d \in others :
            IF d \in failing THEN clashState'[d] = "proposed" /\ latest'[d] = RefusedRow
            ELSE clashState'[d] = clashState[d] /\ latest'[d] = latest[d]
  PROVE  V!disturbs(others)
<1>1. ASSUME NEW d \in others PROVE V!same(d) \/ V!reopened(d)
  <2>1. CASE d \in failing
    <3>1. zoneStatus'[Home[d]] = "queued" /\ Home[d] \in Zones
      BY <2>1, LayoutAssumption DEF requeued
    <3>2. backing(d)' = {}
      BY <2>1 DEF backing, RefusedRow, Judged, Accepted
    <3> QED BY <2>1, <3>1, <3>2, ServedIsShown DEF V!reopened, V!becomes, V!Accepted, Accepted
  <2>2. CASE d \notin failing
    <3>1. backing(d)' = backing(d)
      BY <2>2 DEF backing
    <3> QED BY <2>2, <3>1, ServedIsShown DEF V!same, V!becomes
  <2> QED BY <2>1, <2>2
<1>2. ASSUME NEW z \in Zones
      PROVE  shownZones'[z] = shownZones[z] \/ \E d \in others : Home[d] = z /\ V!reopened(d)
  <2>1. CASE \E d \in failing : Home[d] = z
    <3>1. PICK d \in failing : Home[d] = z BY <2>1
    <3>2. backing(d)' = {}
      BY DEF backing, RefusedRow, Judged, Accepted
    <3>3. zoneStatus'[z] = "queued"
      BY <2>1 DEF requeued
    <3>4. V!reopened(d)
      BY <3>1, <3>2, <3>3, ServedIsShown DEF V!reopened, V!becomes, V!Accepted, Accepted
    <3> QED BY <3>1, <3>4
  <2>2. CASE ~ \E d \in failing : Home[d] = z
    BY <2>2, ServedIsShown DEF requeued
  <2> QED BY <2>1, <2>2
<1> QED BY <1>1, <1>2 DEF V!disturbs

LEMMA ResolveShown ==
  ASSUME RowsOK, NEW z \in Zones, ResolveJob(z)
  PROVE  V!Resolve(z)
<1>1. Served /\ Served' /\ resolve_zone(z)
  BY DEF ResolveJob, Served
<1>2. ASSUME NEW c \in Clashes, Home[c] = z, clashState[c] \in {"open", "proposed"}
      PROVE  V!concluded(c)
  <2>1. PICK o \in Outcome(z) : clashState'[c] = persisted(c, o) /\ latest'[c] = o
    BY <1>1, <1>2, ResolveClashByClash
  <2>2. backing(c)' = IF o.verdict \in Accepted THEN o.judged ELSE {}
    BY <2>1 DEF backing
  <2> QED BY <1>1, <1>2, <2>1, <2>2, OutcomesByVerdict, ServedIsShown
          DEF V!concluded, V!refused, V!accepted, V!becomes, V!Accepted, Accepted, Shared
<1>3. ASSUME NEW c \in Clashes, ~(Home[c] = z /\ clashState[c] \in {"open", "proposed"})
      PROVE  V!same(c)
  <2>1. clashState'[c] = clashState[c] /\ latest'[c] = latest[c]
    BY <1>1, <1>3, ResolveClashByClash
  <2>2. backing(c)' = backing(c)
    BY <2>1 DEF backing
  <2> QED BY <1>1, <2>1, <2>2, ServedIsShown DEF V!same, V!becomes
<1>4. V!zoneBecomes(z, "awaiting_review")
  BY <1>1, ServedIsShown DEF V!zoneBecomes, resolve_zone, RowsOK
<1> QED BY <1>1, <1>2, <1>3, <1>4, ServedIsShown DEF V!Resolve

LEMMA ArbitrateShown ==
  ASSUME RowsOK, NEW c \in Clashes, ArbitrateJob(c)
  PROVE  V!Arbitrate(c)
<1>1. Served /\ Served' /\ Owning[c] # {Home[c]}
  BY DEF ArbitrateJob, Served, arbitrate, Shared
<1>2. CASE refuse(c)
  <2>1. backing(c)' = {} /\ clashState'[c] = "escalated"
    BY <1>2 DEF refuse, RowsOK, backing, RefusedRow, Judged, Accepted
  <2>2. V!refused(c)
    BY <1>1, <2>1, ServedIsShown DEF V!refused, V!becomes
  <2>3. ASSUME NEW d \in Clashes \ {c} PROVE V!same(d)
    <3>1. clashState'[d] = clashState[d] /\ latest'[d] = latest[d]
      BY <1>2 DEF refuse, RowsOK
    <3>2. backing(d)' = backing(d)
      BY <3>1 DEF backing
    <3> QED BY <1>1, <3>1, <3>2, ServedIsShown DEF V!same, V!becomes
  <2>4. \A z \in Zones : shownZones'[z] = shownZones[z]
    BY <1>1, <1>2, ServedIsShown DEF refuse
  <2> QED BY <1>1, <2>2, <2>3, <2>4 DEF V!Arbitrate, V!disturbs
<1>3. CASE commit(c)
  <2>1. PICK row \in Row, failing \in SUBSET exposed(c, Owning[c]) :
           /\ row.verdict \in Accepted /\ row.judged = Owning[c] /\ row.author = latest[c].author
           /\ zoneStatus' = requeued(failing)
           /\ \A e \in Clashes :
                IF e \in failing THEN clashState'[e] = "proposed" /\ latest'[e] = RefusedRow
                ELSE IF e = c THEN clashState'[e] = row.verdict /\ latest'[e] = row
                ELSE clashState'[e] = clashState[e] /\ latest'[e] = latest[e]
    BY <1>3, CommitClashByClash
  <2>2. /\ failing \in SUBSET (Clashes \ {c})
        /\ \A d \in failing : clashState[d] \in Accepted
    BY LayoutAssumption DEF exposed
  <2>3. V!disturbs(Clashes \ {c})
    BY <1>1, <2>1, <2>2, RebaseDisturbs
  <2>4. clashState'[c] = row.verdict /\ backing(c)' = Owning[c]
    BY <2>1, <2>2 DEF backing
  <2>5. V!accepted(c, Owning[c])
    BY <1>1, <2>1, <2>4, ServedIsShown DEF V!accepted, V!becomes, V!Accepted, Accepted
  <2> QED BY <1>1, <2>3, <2>5 DEF V!Arbitrate
<1> QED BY <1>2, <1>3 DEF ArbitrateJob, arbitrate

LEMMA RebaseShown ==
  ASSUME NEW c \in Clashes, NEW changed, RebaseJob(c, changed)
  PROVE  V!Rebase
<1>1. Served /\ Served' /\ enqueue_rebase(c, changed)
  BY DEF RebaseJob, Served
<1>2. PICK failing \in SUBSET exposed(c, changed) :
        /\ clashState' = reopened(clashState, failing)
        /\ latest' = withdrawn(latest, failing)
        /\ zoneStatus' = requeued(failing)
  BY <1>1 DEF enqueue_rebase
<1>3. failing \in SUBSET Clashes /\ \A d \in failing : clashState[d] \in Accepted
  BY DEF exposed
<1>4. \A d \in Clashes :
        IF d \in failing THEN clashState'[d] = "proposed" /\ latest'[d] = RefusedRow
        ELSE clashState'[d] = clashState[d] /\ latest'[d] = latest[d]
  BY <1>2 DEF reopened, withdrawn
<1> QED BY <1>1, <1>2, <1>3, <1>4, RebaseDisturbs DEF V!Rebase

LEMMA ApproveShown ==
  ASSUME RowsOK, NEW z \in Zones, NEW named, Approve(z, named)
  PROVE  V!Approve(z)
<1>1. Served /\ Served' /\ zoneStatus[z] # "merged"
  BY DEF Approve, Served
<1>2. ASSUME NEW c \in Clashes
      PROVE  IF Home[c] = z /\ shownState[c] \in V!Accepted
             THEN V!becomes(c, "merged", shownJudges[c]) ELSE V!same(c)
  <2>1. latest[c] \in Row BY DEF RowsOK
  <2>2. /\ clashState'[c] = IF Home[c] = z /\ clashState[c] \in Accepted THEN "merged"
                            ELSE clashState[c]
        /\ latest'[c] = latest[c] \/ latest'[c] = [latest[c] EXCEPT !.acked = named]
    BY DEF Approve
  <2>3. latest'[c].verdict = latest[c].verdict /\ latest'[c].judged = latest[c].judged
    BY <2>1, <2>2 DEF Row
  <2>4. backing(c)' = backing(c)
    BY <2>3 DEF backing
  <2> QED BY <1>1, <2>2, <2>4, ServedIsShown DEF V!becomes, V!same, V!Accepted, Accepted
<1>3. V!zoneBecomes(z, "merged")
  BY <1>1, ServedIsShown DEF V!zoneBecomes, Approve, RowsOK
<1> QED BY <1>1, <1>2, <1>3, ServedIsShown DEF V!Approve

LEMMA RejectShown ==
  ASSUME RowsOK, NEW z \in Zones, Reject(z)
  PROVE  V!Reject(z)
<1>1. Served /\ Served'
  BY DEF Reject, Served
<1>2. ASSUME NEW c \in Clashes
      PROVE  IF Home[c] = z /\ shownState[c] \in V!Accepted \cup {"proposed"}
             THEN V!becomes(c, "open", shownJudges[c]) ELSE V!same(c)
  <2>1. /\ clashState'[c] = IF Home[c] = z /\ clashState[c] \in Accepted \cup {"proposed"}
                            THEN "open" ELSE clashState[c]
        /\ latest'[c] = latest[c]
    BY DEF Reject
  <2>2. backing(c)' = backing(c)
    BY <2>1 DEF backing
  <2> QED BY <1>1, <2>1, <2>2, ServedIsShown DEF V!becomes, V!same, V!Accepted, Accepted
<1>3. V!zoneBecomes(z, "queued")
  BY <1>1, ServedIsShown DEF V!zoneBecomes, Reject, RowsOK
<1> QED BY <1>2, <1>3 DEF V!Reject

LEMMA EditShown ==
  ASSUME RowsOK, NEW z \in Zones, Edit(z)
  PROVE  V!Edit(z)
<1>1. Served /\ Served' /\ zoneStatus[z] # "merged"
  BY DEF Edit, Served
<1>2. ASSUME NEW c \in Clashes
      PROVE  V!same(c) \/ (Home[c] = z /\ (V!accepted(c, {z}) \/ V!refused(c)))
  <2>1. CASE clashState'[c] = clashState[c] /\ latest'[c] = latest[c]
    BY <1>1, <2>1, ServedIsShown DEF V!same, V!becomes, backing
  <2>2. CASE Home[c] = z /\ clashState'[c] = "escalated" /\ latest'[c] = RefusedRow
    <3>1. backing(c)' = {}
      BY <2>2 DEF backing, RefusedRow, Judged, Accepted
    <3> QED BY <1>1, <2>2, <3>1, ServedIsShown DEF V!refused, V!becomes
  <2>3. CASE /\ Home[c] = z
             /\ clashState'[c] \in Accepted
             /\ latest'[c].verdict = clashState'[c] /\ latest'[c].judged = {z}
    <3>1. backing(c)' = {z}
      BY <2>3 DEF backing
    <3> QED BY <1>1, <2>3, <3>1, ServedIsShown DEF V!accepted, V!becomes, V!Accepted, Accepted
  <2> QED BY <2>1, <2>2, <2>3, EditClashByClash
<1>3. V!zoneBecomes(z, "awaiting_review")
  BY <1>1, ServedIsShown DEF V!zoneBecomes, Edit, RowsOK
<1> QED BY <1>1, <1>2, <1>3, ServedIsShown DEF V!Edit

LEMMA DiffShown ==
  ASSUME NEW gone, DiffAgainst(gone)
  PROVE  V!Resolved
<1>1. Served /\ Served'
  BY DEF DiffAgainst, Served
<1>2. ASSUME NEW c \in Clashes PROVE V!same(c) \/ V!becomes(c, "resolved", shownJudges[c])
  <2>1. /\ clashState'[c] \in {clashState[c], "resolved"}
        /\ latest'[c] = latest[c]
    BY DEF DiffAgainst
  <2>2. backing(c)' = backing(c)
    BY <2>1 DEF backing
  <2> QED BY <1>1, <2>1, <2>2, ServedIsShown DEF V!becomes, V!same
<1>3. shownZones' = shownZones
  BY <1>1 DEF shownZones, DiffAgainst
<1> QED BY <1>2, <1>3 DEF V!Resolved

(* Whatever step is taken, others see a step of the promise or nothing.     *)
LEMMA NextKeepsVersionPromise ==
  ASSUME RowsOK, RowsSound, Plain, Hidden, Handed, RowsOK', Plain', [Next]_vars
  PROVE  [V!Next]_(V!promise)
<1>1. CASE AssemblePackages
  BY <1>1, RunCompletes, ShownIsPlain DEF V!Next
<1>2. CASE Worker \/ Reviewer
  <2>1. Served /\ Served'
    BY <1>2 DEF Worker, Reviewer, ResolveJob, ArbitrateJob, RebaseJob, Approve, Reject, Edit,
                DiffAgainst, Served
  <2>2. V!Handle
    BY <1>2, ResolveShown, ArbitrateShown, RebaseShown, ApproveShown, RejectShown, EditShown,
       DiffShown DEF Worker, Reviewer, V!Handle
  <2> QED BY <2>1, <2>2, ShownIsPlain DEF V!Next
<1>3. CASE Pipeline /\ ~AssemblePackages
  <2>1. ~Served /\ ~Served'
    BY <1>3 DEF Pipeline, Ingest, PipelineResolve, CollectPending, PipelineArbitrate,
                PipelineFails, Served
  <2> QED BY <2>1 DEF V!promise, shownState, shownJudges, shownZones
<1>4. CASE UNCHANGED vars
  BY <1>4 DEF vars, V!promise, shownState, shownJudges, shownZones, backing, Served
<1> QED BY <1>1, <1>2, <1>3, <1>4 DEF Next

(* Whatever the layout, the checks and the batch, the version keeps its     *)
(* promise: its clashes are seen only once the run is committed, each then  *)
(* settled by all its zones or queued, and every handler moves every clash  *)
(* and every zone along the lines of VersionPromise and no others.          *)
THEOREM VersionKeepsPromise == Spec => KeepsVersionPromise
<1>1. Init => Plain /\ Hidden /\ Handed /\ V!Init
  <2>1. Init => Plain
    BY DEF Init, Plain, V!ZONE_STATES, V!STANDINGS
  <2>2. Init => Hidden
    BY LayoutAssumption DEF Init, Hidden, Uncommitted, NoRow, Judged, Accepted
  <2>3. Init => Handed
    BY DEF Init, Handed
  <2>4. Init => V!Init
    BY DEF Init, V!Init, Served, shownState, shownJudges, shownZones
  <2> QED BY <2>1, <2>2, <2>3, <2>4
<1>2. IInv /\ IInv' /\ Plain /\ Hidden /\ Handed /\ [Next]_vars => Plain' /\ Hidden' /\ Handed'
  BY NextKeepsPlain, NextKeepsHidden, NextHandsOver DEF IInv
<1>3. IInv /\ IInv' /\ Plain /\ Plain' /\ Hidden /\ Handed /\ [Next]_vars => [V!Next]_(V!promise)
  BY NextKeepsVersionPromise DEF IInv
<1> QED BY <1>1, <1>2, <1>3, IInvIsInvariant, PTL DEF Spec, KeepsVersionPromise, V!Spec

(* All that a step of the promise can do to one clash.                      *)
LEMMA PromiseClashByClash ==
  ASSUME V!Next, NEW c \in Clashes
  PROVE  \/ V!same(c) \/ V!reopened(c) \/ V!refused(c)
         \/ V!accepted(c, Owning[c]) \/ V!accepted(c, {Home[c]})
         \/ shownState[c] \in V!Accepted /\ V!becomes(c, "merged", shownJudges[c])
         \/ shownState'[c] \in {"open", "proposed", "resolved"}
<1>1. CASE V!Complete
  BY <1>1 DEF V!Complete, V!becomes
<1>2. ASSUME NEW z \in Zones, V!Resolve(z) \/ V!Approve(z) \/ V!Reject(z) \/ V!Edit(z)
      PROVE  \/ V!same(c) \/ V!refused(c)
             \/ V!accepted(c, {Home[c]})
             \/ shownState[c] \in V!Accepted /\ V!becomes(c, "merged", shownJudges[c])
             \/ shownState'[c] \in {"open", "proposed", "resolved"}
  BY <1>2 DEF V!Resolve, V!concluded, V!Approve, V!Reject, V!Edit, V!becomes
<1>3. ASSUME NEW d \in Clashes, V!Arbitrate(d)
      PROVE  V!same(c) \/ V!reopened(c) \/ V!refused(c) \/ V!accepted(c, Owning[c])
  BY <1>3 DEF V!Arbitrate, V!disturbs
<1>4. V!Rebase => V!same(c) \/ V!reopened(c)
  BY DEF V!Rebase, V!disturbs
<1>5. V!Resolved => V!same(c) \/ shownState'[c] = "resolved"
  BY DEF V!Resolved, V!becomes
<1> QED BY <1>1, <1>2, <1>3, <1>4, <1>5 DEF V!Next, V!Handle

(* The promise alone puts a word behind every clash that is accepted or     *)
(* merged, and none behind an escalated one.                                *)
THEOREM PromisedWordBehind == V!Spec => []V!WordBehind
<1>1. V!Init => V!WordBehind
  BY DEF V!Init, V!WordBehind, V!Accepted
<1>2. V!WordBehind /\ [V!Next]_(V!promise) => V!WordBehind'
  <2>1. CASE UNCHANGED V!promise
    BY <2>1 DEF V!promise, V!WordBehind
  <2>2. ASSUME V!WordBehind, V!Next, NEW c \in Clashes
        PROVE  /\ shownState'[c] \in V!Accepted \cup {"merged"}
                    => shownJudges'[c] \in {Owning[c], {Home[c]}}
               /\ shownState'[c] = "escalated" => shownJudges'[c] = {}
    BY <2>2, PromiseClashByClash
       DEF V!WordBehind, V!same, V!reopened, V!refused, V!accepted, V!becomes, V!Accepted
  <2> QED BY <2>1, <2>2 DEF V!WordBehind
<1> QED BY <1>1, <1>2, PTL DEF V!Spec

==============================================================================
