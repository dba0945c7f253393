# Verification of mep-judge

TLA+ modules that model the service in `src/app` (and the parts of
`src/vendor/mep_coordination` it decides with), the TLC configurations that
model-check them, and proofs that TLAPS checks. `PROJECT.json` ties them to the
code: for every definition the lines it models, for every run what it checks,
for every property a plausible bug of the code that the run catches.

To use it: `tlc -config X.cfg M` for a run, `tlapm M.tla` for a proof module.

1. [The system](#1-the-system)
2. [Modules, and how they correspond to the code](#2-modules)
3. [Runs, bounds and fairness](#3-runs)
4. [What the runs found](#4-findings)
5. [What is proved](#5-proofs)
6. [What is not modelled](#6-not-modelled)
7. [Plan](#7-plan)

## 1. The system

mep-judge takes an IFC model of a building, finds where ducts, pipes, trays and
structure clash or come too close, and proposes moves. It judges its own moves
before it shows them to anybody.

    upload --> ingest --> resolve each zone --> arbitrate --> package --> reviewer
    (routes)  (coordinator) (zone_resolver)   (coordinator) (review_   (review:
                  |            | monitors          |         package)   approve, reject,
                  |            | branch commits    | branch            edit)
                  |            |                   | commits, rebase     |
                  +------------+--- Postgres rows, ledger, branch files -+
    later upload --> ingest --> diff against the earlier version

Two kinds of process run it. The API process serves requests on a thread pool,
with one database session and one transaction per request; an upload also runs
the whole pipeline in its request. Worker processes take jobs from a queue, up
to four at once, with a transaction per job. They share the database and a
directory: branch files, uploaded models, review packages. Nothing in that
directory is part of a transaction.

| Part | State it keeps | Operations | Talks to | What is hard, and what makes it correct |
|---|---|---|---|---|
| Coordinator (`agents/coordinator.py`), pipeline (`pipeline.py`), worker tasks (`worker/tasks.py`) | version, zone, clash and proposal rows | ingest, resolve_zone, arbitrate, enqueue_rebase, diff_against | resolver, monitors, store, ledger | four writers of one clash's state and proposal, in any order, none checking the zone's status; an acceptance is always the verdict its monitors gave, a withdrawn one leaves nothing behind |
| Review (`review.py`, `review_package.py`) | the same rows; change sets on disk | approve, reject, edit, assemble | coordinator rows, monitors | the gate: nothing merges on a check nobody named; packages quote what the run ended with |
| Zone resolver (`agents/zone_resolver.py`) | one run's outcomes, counters and commits | take up, rank, try, skip, accept, give up | monitors, store | attempt cap, closed headings and end of candidates interact; every clash ends with one verdict, commits only its own |
| Store (`store/local.py`) | one JSON file a zone branch | commit, branch_head, heads | resolver, arbitration, boundary monitor | read-append-replace without lock, outside the transaction; a recorded commit id stays good, and nothing but two overlapping commits to one file may break it |
| Event bus (`api/events.py`) | one bounded queue per subscriber | publish, stream, watchdog | pipeline threads, client | publishers and reader are different threads; every frame is read in order or counted lost, a loss ends in a close |
| Clearance rules (`clearance_rules.py`, `kit/systems.py`, `kit/engine.py`), approval (`rules/approval.py`) | rule table, candidates, their ledger rows | match, rank, load, decide, write | ingest | ties, wildcards and precedence over list order; unsigned rules stay inert, the table never loosens unnoticed, the pass looks far enough |
| Monitors (`monitors/`) | none | geometry, boundary, integrity; run_all, aggregate | store, rules | each zone judges its own moves while the neighbours move too; what was accepted must stand clear of where things are now |
| Zoning (`agents/zoning.py`) | zone plan | merge cells, buffers, neighbours | ingest | greedy growth over a grid: every element in exactly one zone, zones of whole cells in one piece, under the limit |
| Versions, identity, triage (`version_diff.py`, `identity.py`, `clash_triage.py`) | buckets, scores, order | diff, score, rank | coordinator | a pair met the other way round in the next model is the same pair; the score counts what it says |
| Uploads and routes (`api/routes.py`, `kit/engine.py`'s mesh cache) | uploaded files, cache, findings files | upload, review, diff, listings | pipeline | loads of the same bytes share a cache file without a lock; uploads of one name share a file; a version is judged by what was uploaded for it, and nothing but a write to its file may change that |
| Sessions and ledger (`db.py`, `ledger.py`) | a transaction, the append-only ledger | transition, record | all | two sessions read and write the same rows with no lock; the history must account for the row however they overlap |
| Speckle store, LLM client, BCF and clone exports, auth, UI | - | - | external services, files | see [section 6](#6-not-modelled) |

The hazards that follow from this, each at its line, are listed in
`PROJECT.json`, with the properties that watch over them or why none does yet.

## 2. Modules

`MCx` gives `x` its model-checking instance, `xProofs` holds its theorems. Four
modules are promises: what a component looks like to those who use it, which the
detailed module implements under the refinement mapping it states.

### Lifecycle and VersionPromise: every handler that changes a version's rows

Variables `zoneStatus`, `clashState` and `status` are the columns of those
names. `latest[c]` is the proposal row `_latest_proposal` returns; its fields
`judged` (whose monitors accepted) and `acked` (which unanswered checks an
approval named) are in the code the payloads of the ledger rows. `quoted` says
for which clashes the change set on disk still is the live row. `stage`, `todo`
and `pending` are `run_pipeline`'s place.

| Action | Code |
|---|---|
| `Ingest`, `PipelineResolve`, `CollectPending`, `PipelineArbitrate`, `AssemblePackages` | the steps of `run_pipeline`, in its order |
| `PipelineFails` | an exception at any of them: the session rolls back to the row the upload committed |
| `ResolveJob`, `ArbitrateJob`, `RebaseJob` | the worker tasks: any time after the run, any number of times, whatever state they find |
| `Approve`, `Reject`, `Edit` | `apply_review` with the merged-zone guard of the route |
| `DiffAgainst` | what the diff of a later version writes on this one's clashes |

A handler is one action, with everything it calls: `arbitrate` includes the
commit's rebase of the exposed zones. What the monitors measure is abstracted to
`Result`: any monitor may object, any set of checks may stay unanswered.
`DiffAgainst` may resolve any set of clashes.

Properties: `AcceptedAsJudged`, `DoublePass`, `MergedAsAcknowledged`,
`NoVerdictSurvivesReopening` (state), `RunEndsSettled` (steps). They relate the
pair of rows three writers set separately, across rebases and reviewers'
decisions.

`VersionPromise` is what others are promised of a version: it is running or
complete, and each clash has a standing and the zones whose monitors stand
behind it. A run completes in one step, with every clash judged by all its
zones, refused, or waiting in a queued zone; from then on each handler moves
clashes along its own lines only, and an acceptance is withdrawn only together
with queueing the zone. `KeepsVersionPromise` maps the rows to it: until the
run's transaction has committed everything is as the upload left it
(`shownState`, `shownZones`), and the zones behind a clash are those judged by
its live proposal, if that is an acceptance (`backing`). The pipeline's steps
inside its transaction are stutters.

### BranchStore and StorePromise: the branch files and the jobs that write them

`branch[z]` is the commit list in a zone's file. A job is delivered (`Start`),
reads its neighbours' heads file by file (`FetchHead`), then is refused
(`Refuse`) or commits in two steps, because `commit` reads the file (`Load`)
and replaces it (`Replace`) without a lock. Its ids sit in its open transaction
(`rows`) until `EndTransaction` moves them to `ledger`. `Fail` may happen at any
of these points: the rows go, the file stays, and the queue delivers the job
again until `MaxTries`. Nothing keeps two jobs off one branch: a zone
may have several in the queue, and an arbitration commits on the first owning
zone's branch. So two variables watch without taking part: `exposed` collects the
commits made while another job stood between `Load` and `Replace` on that file,
and `beside` the jobs that ran at some time of a job's delivery.
`LostOnlyByOverlap` and `StaleOnlyBeside` say with them how far the damage of an
overlap goes; that there is damage is `RecordedIsCommitted`, violated.

`StorePromise` is what the jobs rely on. `Begin` makes a job one of those about
to commit on a branch (`busy`). Its `Commit` is an append under the position it
got (`appended`), or, on a branch where a commit has been exposed, leaves
anything that keeps every other id where it is (`rewritten`). The ids of a
delivery reach the ledger together (`Record`) or not at all (`RollBack`).
`KeepsStorePromise` says that reading the file, replacing it and failing in
between amount to that (`open` is `rows`, `busy` is `writers`).

### ZoneResolver and ResolverPromise

`ResolverPromise` is the abstract specification: every clash gets one verdict,
and the branch receives the accepted move of a clash the zone owns in the same
step, and nothing else. `ZoneResolver` is the loop of `ZoneResolver.run` as
written: take clashes in order, settle the immovable and the unsourced at once,
rank the candidates by prediction (`before`), skip headings the boundary monitor
closed (`Skip`), try (`Accept`, `Refuse`) up to `MaxAttempts`, give up. The
candidate list is a set of numbers in the kit's order; predictions and
objections are arbitrary. The refinement mapping is by name: the detailed
module's `verdict` and `branch` are the promise's.

### EventStream and StreamPromise: one subscriber

`publish` runs in the pipeline's threads: the test for room, the eviction, the
counting and the put are separate steps (`TestFull`, `Evict`, `CountDrop`,
`TryPut`, `Enqueue`), because the reader's event loop and other publishers run
in between. The generator is `CheckWatchdog`, `Get`, `Wake`, `Heartbeat`; the
client reads (`ClientReads`) or leaves (`Disconnect`). A `put` from another thread
does not wake an asyncio waiter, so `Heartbeat` may run with a frame queued.

`StreamPromise` is what the client gets: a channel that loses frames, the oldest
waiting or the newest come, only while something is being published, never
reorders or repeats them, and begins to close only after a loss. Under
`KeepsStreamPromise` a publisher is under way from its first test to its last
step, and a frame is read once the generator has it (`taken`). The promise does
not ask for a full queue when the oldest frame is lost: the eviction acts on a
test that the reader may have overtaken.

### ClearanceRules and RuleBook

`ClearanceRules` has the pure decision: matching in either order, specificity,
tier, precedence, reachability. It is written without recursion; a table is a
set whose `place` keeps list order, which decides ties. `RuleBook` is how a table
comes about: candidates decided, again and again, by named reviewers (`Decide`,
on the first candidate with an id, as `by_id` does), the approved ones written
out (`WriteRuleFile`, external: only tests do it), and a load of shipped and written
rules, all or nothing, for a model with some set of systems (`Ingest`).

### Zoning and Building: the plan, and moves judged zone by zone

`Zoning` is `plan_zones` as its loops run: `Open` takes the first unclaimed
cell, `Turn` takes a cell off the frontier and puts its four neighbours in
`ring`, `Take` and `Pass` are the two ways the inner loop goes on, `Close` makes
the zone, `Finish` adds the zones of risers, corridors and elements without a
box. An element stands on one of its `Spots`; which, is the initial state's
choice, so a run covers every layout.

`Building` extends it with the monitors and the branches. An element is a point
and a distance the larger of the differences along the axes; `severity`,
`in_range` and `noWorse` are `judge_pair`, `reach_m` and `compare` over that.
`geometry`, `boundary` and `integrity` have the scopes and positions of the
code: the own zone and the buffer as loaded, the neighbours where their branches
have put them (`offset_for`), and the last without a baseline. `Resolve` and
`Arbitrate` are accepted moves with their commit, in any order: the attempts in
between are ZoneResolver's. Each is one step here, so that what a head says
while a commit is under way is left to BranchStore.

### Versions: uploads, the mesh cache, diffs

An upload is `Receive`, `Received`, `Record` (the row's own commit), then two
loads with `Judge` between them (the findings file, written at once) and
`Finish` (the rows of the run). `load_model` is step by step: `Hash`; `Hit`,
`Unreadable` or `Miss`; `Mesh`; `Connect`; `OpenCache`; `Dump`. Each reads or
writes a file that another load of the same bytes may be at. `cache[h]` is the
set of things a read of that file may give: with two writers on one file either
text, or torn text, may be there. `linked` tells a writer that still has the
file from one whose file was removed under it. `Fail` can happen at any point.
`StartJob` is any later load; `Threads` uploads and loads are at work at a time.
A file's hash is the file's contents (sha256 without collisions), and so is the
name of the meshes. Two uploads may have one path: opening it tears the file for
whoever still reads it, and two copies at once may leave it torn. `overwritten`
remembers which versions, in which phase, had their path written to by another
upload, and `mixed` the hashes taken of a file that was written to before it had
been read; `JudgedAsUploaded` is about all the others, and about a version that
was judged before its path was taken.
`Diff` is `diff_against` for any two versions: pairs by `pair_key`, rows by the
triage's `clash_id_for`, the four buckets, the score.

### Sessions: transactions that overlap

The operations of Lifecycle once more, as the database sees them. A session
reads the zone (`Begin`), its clashes (`ReadClashes`), the live proposals
(`ReadProposals`), and writes all at its commit (`Commit`) or nothing
(`Rollback`). `plans(s)` is what its operation would do with the copies it has:
for each row the states it takes it through, the verdict of a proposal it adds
and of one it judges again. There are seven operations, the diff of a later
version among them. `transitions` are the ledger rows, each starting
where the copy stood; `written` is SQLAlchemy's rule that a column is written
when its value differs from the copy's. Geometry is gone: a clash may be judged
either way.

`LedgerAccountsForColumn` holds of every overlap: `stoodAt` reads off the ledger
where a row stood at a time, and that is where the column is now and where each
ledger row starts at the time its session read. `MergedOnAcceptance` says what an
overlap cannot do: outlive the next commit that was made on what the clash was
(`clean`).

## 3. Runs

| Run | Instance | Shows |
|---|---|---|
| `lifecycle` | three zones, one boundary clash whose move can disturb the third zone, one zone clash, two checks, two of three zones per batch | all Lifecycle properties and `KeepsVersionPromise`, with deadlock checked |
| `branch_store` | two resolvers, with two moves and one, and an arbitration on the branch of the first, two workers, each job delivered twice, failing anywhere | `LostOnlyByOverlap`, `KeepsStorePromise`, `StaleOnlyBeside` |
| `zone_resolver` | an own, a shared, an immovable and an unsourced clash, four candidates under every prediction, cap of three | the resolver's properties and `KeepsPromise`, including that the run ends |
| `event_stream` | two publishers of three frames, a queue of two, a watchdog of one tick | no silent hole, order, bound, and both liveness properties |
| `rule_book` | three systems, four shipped rules, four candidates, three decisions, every set of systems | all RuleBook properties |
| `building` | a duct, a pipe, a tray, a riser and an element without a box on six spots of two levels, a ceiling of two, two moves | the plan is a partition into whole rooms; accepted moves stand clear of what their zone could see |
| `versions` | three uploads, two of the same bytes, two of the same file name, two at work at a time, a revision that keeps, mends and breaks pairs and meets them the other way round, one later load, any diffs | versions are judged, diffed and scored as uploaded, short of a write to the files they were read from |
| `sessions` | three sessions of any of seven kinds over one zone, a clash of its own and a shared one | the ledger accounts for the rows; the verdicts behind acceptances |
| `lifecycle_double_pass`, `branch_lost_commit`, `building_lookup`, `versions_overwritten` | as above, less jobs in `branch_lost_commit` | the disagreements of [section 4](#4-findings) |

Why the bounds suffice:

- `lifecycle`: clashes interact only through a shared zone or a rebase, and the
  pair of clashes has both: the boundary clash has two owners and its commit
  exposes the other clash's zone. The third zone is left out of the first batch,
  so zones that a run did not resolve are packaged, reviewed and resolved later.
  Two checks are the least with which naming some is not naming all; they are
  interchangeable, and the module treats them so, hence the symmetry.
- `branch_store`: the arbitration and one resolver write the same branch, the
  other resolver reads it, and any two of the three may overlap. A second move
  distinguishes what a job has just read from what it read before; two deliveries
  distinguish a retry from a first try. So lost commits, commits after them and
  stale heads all occur. More moves and jobs are proved.
- `zone_resolver`: three candidates share a heading and one differs, more candidates than
  attempts, and predictions with and without a collision; so a skipped heading, a
  spent cap and an exhausted list all occur. Each kind of clash occurs once.
- `event_stream`: a queue of two overflows with three frames of one publisher;
  two publishers are the least that can race between test and append, and fill
  the queue past its size.
- `rule_book`: two candidates with one id, one without a citation, one that
  repeats a shipped pair reversed; three decisions allow a change of mind twice.
- `building`: with a ceiling of two and three movable elements a cell can be
  over it, fill it, or be turned away for what is left; the spots give cells
  that touch along both axes, one that touches none, negative coordinates and a
  level above. Two moves are the least with which a mover is judged against one
  that has moved; the gaps of one and two make it matter where the other stands.
- `versions`: two loads of one file's bytes race on its cache file and a third
  takes the path of one of them; the pairs of the two contents fill all four
  buckets. Two at work at a time are the least that race; a third may find what
  the race has left.
- `sessions`: three are the least with which a stale session writes over a
  commit that itself follows another. More sessions and clashes are proved.

Bounds that are not in the code: `MaxFrames`, `MaxDecisions`, `MaxCollisions`,
`MaxCommits`, `MaxJobs`, and the sizes of the sets. `MaxTries`,
`Workers`, `Threads`, `MaxQueue`, `Watchdog`, `MaxAttempts`, `MaxElements`, `CellSize`,
`Buffer` and `Batch` stand for settings of the code, with small values.

`CHECK_DEADLOCK FALSE` appears where the modelled thing ends: all jobs done or
dead, a stream closed, a run over, every session closed, a bound reached.

Fairness. `EventStream`: weak fairness of each publisher's steps, of the
generator and of time, since threads and the event loop are scheduled and a
`publish` once begun goes on; and of `ClientReads`, which is an assumption about
the client, without which no server could promise delivery. Publishing and
disconnecting are not fair. `ZoneResolver`: weak fairness of `Next`, a plain
loop in one thread. The other modules state no liveness: after a run nothing in
the service obliges a job to be dispatched or a reviewer to decide.

## 4. Findings

Each is a run that TLC must find violated, with the quoted claim in
`PROJECT.json`.

- `lifecycle_double_pass`: an edit is judged by the edited zone's monitors
  alone, although "only a double pass commits" a boundary clash.
- `branch_lost_commit`: arbitration writes the first owning zone's branch, which
  has a writer already; one of two commits is lost with its id in the ledger.
- `building_lookup`: an arbitrated move is filed on the first owning zone's
  branch whichever zone holds the element, and looked up on the other; the next
  move is judged against where the element was loaded.

- `versions_overwritten`: an upload rewrites the file of an earlier one of the
  same name (`routes.py:135`) between that one's hash and its reading; the mesh
  cache then has the new model under the hash of the old bytes, and a third
  version, of the old bytes under a name nobody shares, is judged by it.

Properties that hold are stated with the limits these show: `DoublePass` is
about the resolver's vectors, `LostOnlyByOverlap` about commits that no other
stood beside, `JudgedAsUploaded` about files nobody wrote to before they had been
read, `MovedElementsStandClear` about moves filed at home. The limits are
conditions on what has happened in the behaviour; none is assumed.

Seen while modelling, and the reason for the form of a property:

- An upload with a file name in use overwrites the file an earlier version's row
  points to: a later load of that version, for a job or a reviewer's edit, is of
  the new model. `JudgedAsUploaded` says of such a version only that it was
  judged as uploaded, if it was judged before.
- `ledger.py:62` says that a row and its history cannot drift apart. Sessions
  that overlap can make the last ledger row and the column disagree: the ledger
  gets its row whenever `transition` is called, the column only when the new value
  differs from the copy that was read. What stays true of every overlap is
  `LedgerAccountsForColumn`: a ledger row that restates a state is no change, and
  the column is where the last change left it.
- An approval that overlaps a rebase merges a clash whose proposal the rebase has
  refused (`review.py:195`); nothing in the code prevents it. `MergedOnAcceptance`
  says that the overlap of the clash's own last commits is what it takes.
- A version without a findings file diffs as one without findings
  (`coordinator.py:1005`), which marks every clash of the version before as
  resolved. The file is written inside the ingest, before its commit, so a run
  that fails later leaves one (`coordinator.py:218`). A clash once marked
  resolved stays so when a later diff finds it persisting, and only proposals
  with the verdict "verified" are scored.
- Elements of one zone are judged against the loaded positions of their mates;
  two that move in one run may meet. `MovedElementsStandClear` takes mates that
  stay. The integrity monitor's clearance check has no baseline, so a move that
  mends one gap and leaves another as short as it was is refused.
- An approval exports the change set as it lies on disk (`review.py:193`); a
  failed job leaves its commits in the branch file, which the rollback does not
  reach (`local.py:95`); a vertical or horizontal rule counts as one that can
  fire, and every caller asks for the axis "any" (`engine.py:173`).
- No caller supplies `access_rules`: the check `access_preserved` is always
  unprovable. The programme's dates are keyed by zone when loaded and looked up
  by system (`coordinator.py:273`).

## 5. Proofs

Every theorem holds for all values of the constants that meet the named
assumption of its module (a layout, a set of jobs, a rule table: nothing about
sizes beyond what is stated).

- `LifecycleProofs`. The four state invariants speak of one clash, its state and
  its live proposal; `Sound` is their conjunction for one clash and
  `RowsSoundIsTheInvariants` shows that for all clashes it is the four
  together. None of them is inductive alone (an approval keeps `MergedAsAcknowledged`
  only if acceptances are as judged; a resolve keeps `DoublePass` only because shared
  clashes stay proposed), their conjunction with the types is: `IInv`. A lemma
  for each step of the coordinator shows that it keeps the rows sound, once for
  its use in the pipeline and in the jobs. `RunEndsSettled` needs one more
  invariant, `Handed`: while a run arbitrates, every proposed clash is still
  pending or has been refused by a rebase.

  `VersionKeepsPromise` is the refinement. Each handler is shown to be a step of
  the promise under the mapping (`...Shown`), from what it does to one clash
  (`ResolveClashByClash`, `CommitClashByClash`, `EditClashByClash`). `Plain` says
  that a served version shows no value the promise does not have, `active` for
  one. The completing step needs an invariant about what nobody sees yet:
  `Hidden`, that until the run is served an accepted clash is judged by all its
  owning zones, and one that is open, or whose acceptance was withdrawn, has its
  zone in the queue. `Sound` does not give it, and reviews break it: an edit is
  accepted on one zone's word, a rejected clash is open with its proposal left
  as it was. So it can only be about the time before them. `PromisedWordBehind` is
  proved of `VersionPromise` alone: the promise is strong enough to say
  whose word stands behind what is merged. All seven properties of the run are
  proved, and `ReopeningQueues`, which an implementation of the promise implies of
  a served version, also for the steps inside the run.
- `BranchStoreProofs`. No theorem assumes anything of who writes a branch.
  `OnlyOverlapsLoseCommits` and `BranchesOnlyGrow` need one invariant in two
  parts: every unexposed id is good in the branch and also in whatever a writing
  job has loaded (`Kept`), and a branch with no exposed commit is what each of its
  writers has loaded (`Current`). `StoreKeepsPromise` is the refinement, and
  rests on the same two: a replacement is an append if the loaded file is
  current, and else the branch has an exposed id and the unexposed ones are kept.
  `PromisedIdsAreGood` shows of `StorePromise` alone that it is enough for ids to
  stay good. `StaleHeadsAreConcurrent` says that what a job has read is its
  branch's head or was outrun by a job beside it; `SerialRunsJudgeTheirHeads` is
  about one worker and finitely many jobs, as a pipeline runs them, where fetched
  heads are current (`SeenCurrent`).
- `ZoneResolverProofs`. `ResolverKeepsPromise` proves that each step of the loop is
  a step of `ResolverPromise` or a stutter, from the invariant that a waiting
  clash has no verdict and no commit; `ResolverCommitsOnce` is proved of the
  promise and carried over. `NeverToldTwice`, `HopelessComeLast` and
  `EscalationsAreEarned` rest on an invariant that says which candidates have left
  `untried`, and why. `VerdictsAreCounted` counts the clashes
  each counter stands for, one more at each settlement.
- `RuleBookProofs`. `SignedRulesOnly`, `LedgerIsLastWord` and the pad by an
  invariant that also covers the file and says that only the first candidate of
  an id is ever decided. `CodeIsAFloor` and `TablesOnlyTighten` are about the
  pure operators, for any table: they need that a nonempty set of rules has a
  strictest one, and a matching set a most specific tier, which `NatMin`
  (every nonempty set of naturals has a least element) provides.
- `EventStreamProofs`. `QueueStaysBounded` counts places: the queue and the
  publishers that have found room but not appended (`PlacesBounded`), since the
  bound alone is not inductive. `NoFrameVanishes` and `FramesKeepTheirOrder` are proved together
  (`Account`): an eviction takes a frame out of the middle of the path, and that
  it is then nowhere else follows from the order, while the order of an append
  follows from the account, which says that the frame in a publisher's hand comes
  after all its others. `SilenceIsNoFault` rests on every drop having lost a
  frame. From these `StreamKeepsPromise` follows step by step: the test
  for room, the count and the wake are stutters, an eviction is the loss of the
  oldest, a put that finds no room the loss of the newest. This
  refinement is proved only; no run checks it.

- `BuildingProofs`. `PlanIsAPartition` and `ZonesAreWholeRooms` need one
  invariant of the loop over cells: finished zones and the growing one are sets of
  claimed cells that do not overlap, every claimed cell is in one of them, and the
  cells of each hang together. That a set stays connected when a neighbour joins
  is a lemma about `joined`, a cut at a time. Nothing is assumed of the layout.

  `MovesLeaveNoNewClash` proves `MovedElementsStandClear`. An element that its
  zone moved once stands where it was loaded plus that vector, because the sum
  over a branch's moves of it has one term (`OffsetOfOne`); where its zone's
  monitors put a neighbour is where the neighbour now is (`WhereItStands`); what
  is out of a mover's range stays farther than any rule reaches
  (`OutOfRangeIsClear`, a triangle inequality), and a neighbour across zones
  within the buffer distance is in the buffer the monitors look at
  (`NearIsInTheBuffer`). The property is its own induction hypothesis: the boundary monitor
  only keeps a move from making a pair worse, so that the mover ends clear of a
  neighbour that has moved because that neighbour had been made to stand clear of
  it (`ClearOfAMovedNeighbour`); `CommitKeepsClear` is the step.
- `VersionsProofs`. Paths are shared as they come. `CacheIsContentAddressed` and
  `VersionsAreTheirUploads` follow every load: what it has hashed, parsed and
  linked belongs to one version's bytes, unless its hash is mixed, and whatever
  may be read in a cache file is torn or the meshes of the hash it is named for.
  That a later upload to a path takes nothing back of what was judged is part of
  the invariant: `found` does not change with the file. From them
  `DiffsAreOfTheUploads` and `ScoresAreOfTheUploads` follow by what `pair_key` does
  to a pair and its reverse.
- `SessionsProofs`. The invariant of `LedgersAccountForColumns` adds to the
  property that nothing is dated ahead of the clock (`Dated`) and that a
  session's copy is where the ledger says the row stood when it was read
  (`Held`); that of `MergesRestOnAcceptance`, that a session's proposals are the live
  ones of the clashes nobody has committed to since (`FreshProposals`). Of the
  seven operations only one fact is used, that their plans have one of a few
  forms (`Shape`), so the argument about histories is made once, for a row at a
  commit (`CommitToARow`). Nothing assumes that sessions do not overlap:
  `HistoriesAreChains` says of the rows they did not overlap on that the ledger is
  one unbroken chain, which shows the overlap to be the only thing that breaks it.
  `SessionsTypeCorrect` also says that the states a row only passes through are
  never what a commit leaves.

Only model-checked: liveness, which the prover does not do. That is
`LossClosesTheStream`, `FramesMoveOn`, and the half of `KeepsPromise` that says a
resolver's run ends; the other half is `ResolverKeepsPromise`. Every safety
property of every passing run is a theorem, and so are the step properties.

## 6. Not modelled

- Exact geometry: meshes and their distances, the pattern table of system names,
  triage scores. Floating-point computation without control state; Building has
  points in its place, elsewhere its answers are arbitrary.
- The Speckle store, the language-model client and the narrative: external
  services behind one call each, off by default.
- BCF, the model clone and the UI: output. Authentication: a check on single
  requests with no state several steps share. Configuration: constants here.
- `verify_batch`, the kit's `resolve` and `approve_pending`: nothing in the
  service calls them. The access check: no caller gives it a table.
- Congestion, programme ranks and statistics: the order in which zones are taken
  is arbitrary in Lifecycle, which covers them.
- Migrations, and the scripts that drive the service from outside.
- Serialisation inside the database: the writes of a commit are one step.

## 7. Plan

Done, in this order, so that the behaviour that matters most came first:
Lifecycle, BranchStore, EventStream, ZoneResolver with ResolverPromise,
ClearanceRules with RuleBook; then Zoning with Building, Versions, Sessions; and
the proofs of each; then StorePromise, VersionPromise and StreamPromise with the
proofs that they are kept.

What would come next: `ensure_branch`'s window and the file names of branches in
BranchStore; Building with moves after a reject, where offsets accumulate; an
abstract promise of a version's uploads that Versions implements, so that what a
diff says can be stated without the mesh cache.
