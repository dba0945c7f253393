-------------------------- MODULE BranchStoreProofs --------------------------
(***************************************************************************)
(* What the branch files guarantee, with any number of workers, writers of *)
(* one branch, failures and deliveries: no commit is lost but one made     *)
(* while another job was between reading and replacing that very file, and *)
(* no move is judged against a head older than the jobs beside it make it; *)
(* with one job at a time, as run_pipeline runs them, against none older.  *)
(***************************************************************************)
EXTENDS BranchStore, FiniteSetTheorems, TLAPS

------------------------------------------------------------------------------
(* Types.  TypeOK is inductive; the only step that makes an entry is        *)
(* Replace, for a move the job is working on.                               *)
LEMMA OnwardIsTyped ==
  ASSUME TypeOK, NEW j \in Jobs, onward(j)
  PROVE  /\ pc' \in [Jobs -> {"queued", "judging", "writing", "ending", "done", "dead"}]
         /\ at' \in [Jobs -> Nat \ {0}]
         /\ \A k \in Jobs : pc'[k] \in {"judging", "writing"} => at'[k] \in DOMAIN Moves[k]
         /\ fetched' \in [Jobs -> SUBSET Zones]
         /\ heads' \in [Jobs -> [Zones -> Seq(Entry)]]
<1> USE DEF TypeOK
<1>1. Moves[j] \in Seq(Elements) /\ at[j] \in Nat \ {0}
  BY JobsAssumption
<1>2. at[j] < Len(Moves[j]) => at[j] + 1 \in DOMAIN Moves[j]
  BY <1>1
<1>3. NoHeads \in [Zones -> Seq(Entry)]
  BY DEF NoHeads
<1>4. /\ pc' \in [Jobs -> {"queued", "judging", "writing", "ending", "done", "dead"}]
      /\ at' \in [Jobs -> Nat \ {0}]
      /\ fetched' \in [Jobs -> SUBSET Zones]
      /\ heads' \in [Jobs -> [Zones -> Seq(Entry)]]
  BY <1>1, <1>3 DEF onward
<1>5. ASSUME NEW k \in Jobs, pc'[k] \in {"judging", "writing"}
      PROVE  at'[k] \in DOMAIN Moves[k]
  BY <1>1, <1>2, <1>5 DEF onward
<1> QED BY <1>4, <1>5

(* The job's next entry is an entry, and its id a position after the        *)
(* payload it was read for.                                                 *)
LEMMA EntriesAreEntries ==
  ASSUME TypeOK, NEW j \in Jobs, pc[j] = "writing", tries[j] # 0
  PROVE  /\ entry(j) \in Entry
         /\ committed_as(j) \in Recorded
         /\ Append(loaded[j], entry(j)) \in Seq(Entry)
<1>1. Moves[j] \in Seq(Elements) /\ at[j] \in DOMAIN Moves[j]
  BY JobsAssumption DEF TypeOK
<1>2. Moves[j][at[j]] \in Elements
  BY <1>1
<1>3. tries[j] \in 1..MaxTries
  BY JobsAssumption DEF TypeOK
<1>4. entry(j) \in Entry
  BY <1>2, <1>3 DEF entry, Entry
<1>5. loaded[j] \in Seq(Entry) /\ Branch[j] \in Zones
  BY JobsAssumption DEF TypeOK
<1>6. Len(loaded[j]) + 1 \in Nat \ {0}
  BY <1>5
<1> QED BY <1>4, <1>5, <1>6 DEF committed_as, Recorded

(* A job that runs has been delivered; a queued one has deliveries left and *)
(* starts from its first move.                                              *)
Delivered == \A j \in Jobs : /\ j \in running => tries[j] # 0
                             /\ pc[j] = "queued" => tries[j] < MaxTries /\ at[j] = 1

LEMMA NextKeepsTypes ==
  ASSUME TypeOK, Delivered, [Next]_vars
  PROVE  TypeOK' /\ Delivered'
<1> USE JobsAssumption
<1>1. ASSUME NEW j \in Jobs, Start(j) PROVE TypeOK' /\ Delivered'
  <2>1. /\ pc' = [pc EXCEPT ![j] = IF Moves[j] = <<>> THEN "ending" ELSE "judging"]
        /\ tries' = [tries EXCEPT ![j] = @ + 1]
        /\ UNCHANGED <<branch, at, fetched, heads, loaded, rows, ledger, exposed>>
        /\ beside' \in [Jobs -> SUBSET Jobs]
        /\ pc[j] = "queued"
    BY <1>1 DEF Start, TypeOK, running
  <2>2. Moves[j] \in Seq(Elements) /\ at[j] = 1 /\ tries[j] + 1 \in 1..MaxTries
    BY <2>1 DEF TypeOK, Delivered
  <2>3. Moves[j] # <<>> => at[j] \in DOMAIN Moves[j]
    BY <2>2
  <2>4. TypeOK'
    BY <2>1, <2>2, <2>3 DEF TypeOK
  <2>5. Delivered'
    BY <2>1, <2>2 DEF TypeOK, Delivered, running
  <2> QED BY <2>4, <2>5
<1>2. ASSUME NEW j \in Jobs, NEW z \in Zones, FetchHead(j, z) PROVE TypeOK' /\ Delivered'
  <2>1. branch_head(z) \in Seq(Entry)
    BY DEF TypeOK, branch_head
  <2>2. TypeOK'
    BY <1>2, <2>1 DEF TypeOK, FetchHead, past
  <2>3. Delivered'
    BY <1>2 DEF TypeOK, Delivered, running, FetchHead
  <2> QED BY <2>2, <2>3
<1>3. ASSUME NEW j \in Jobs, Refuse(j) PROVE TypeOK' /\ Delivered'
  <2>1. onward(j) /\ UNCHANGED <<branch, loaded, rows, tries, ledger, past>> /\ pc[j] = "judging"
    BY <1>3 DEF Refuse, judged
  <2>2. TypeOK'
    BY <2>1, OnwardIsTyped DEF TypeOK, past
  <2>3. Delivered'
    BY <2>1 DEF TypeOK, Delivered, running, onward
  <2> QED BY <2>2, <2>3
<1>4. ASSUME NEW j \in Jobs, Load(j) PROVE TypeOK' /\ Delivered'
  <2>1. branch[Branch[j]] \in Seq(Entry)
    BY DEF TypeOK
  <2>2. TypeOK'
    BY <1>4, <2>1 DEF TypeOK, Load, judged, past
  <2>3. Delivered'
    BY <1>4 DEF TypeOK, Delivered, running, Load, judged
  <2> QED BY <2>2, <2>3
<1>5. ASSUME NEW j \in Jobs, Replace(j) PROVE TypeOK' /\ Delivered'
  <2>1. pc[j] = "writing" /\ tries[j] # 0
    BY <1>5 DEF Replace, Delivered, running
  <2>2. committed_as(j) \in Recorded /\ Append(loaded[j], entry(j)) \in Seq(Entry)
    BY <2>1, EntriesAreEntries
  <2>3. /\ branch' = [branch EXCEPT ![Branch[j]] = Append(loaded[j], entry(j))]
        /\ rows' = [rows EXCEPT ![j] = @ \cup {committed_as(j)}]
        /\ onward(j) /\ UNCHANGED <<loaded, tries, ledger, beside>>
        /\ exposed' \subseteq exposed \cup {committed_as(j)}
    BY <1>5 DEF Replace
  <2>4. TypeOK'
    BY <2>2, <2>3, OnwardIsTyped DEF TypeOK
  <2>5. Delivered'
    BY <2>1, <2>3 DEF TypeOK, Delivered, running, onward
  <2> QED BY <2>4, <2>5
<1>6. ASSUME NEW j \in Jobs, EndTransaction(j) PROVE TypeOK' /\ Delivered'
  <2>1. TypeOK'
    BY <1>6 DEF TypeOK, EndTransaction
  <2>2. Delivered'
    BY <1>6 DEF TypeOK, Delivered, running, EndTransaction
  <2> QED BY <2>1, <2>2
<1>7. ASSUME NEW j \in Jobs, Fail(j) PROVE TypeOK' /\ Delivered'
  <2>1. TypeOK'
    <3>1. NoHeads \in [Zones -> Seq(Entry)]
      BY DEF NoHeads
    <3> QED BY <1>7, <3>1 DEF TypeOK, Fail
  <2>2. Delivered'
    BY <1>7 DEF TypeOK, Delivered, running, Fail
  <2> QED BY <2>1, <2>2
<1>8. CASE UNCHANGED vars
  BY <1>8 DEF vars, past, TypeOK, Delivered, running
<1> QED BY <1>1, <1>2, <1>3, <1>4, <1>5, <1>6, <1>7, <1>8 DEF Next

LEMMA InitTypes == Init => TypeOK /\ Delivered
  BY JobsAssumption DEF Init, NoHeads, TypeOK, Delivered, running

LEMMA TypesAreInvariant == Spec => [](TypeOK /\ Delivered)
<1>1. TypeOK /\ Delivered /\ [Next]_vars => (TypeOK /\ Delivered)'
  BY NextKeepsTypes
<1> QED BY <1>1, InitTypes, PTL DEF Spec

(* Whatever the jobs, the branches hold commits and the ledger ids of them. *)
THEOREM StoreTypeCorrect == Spec => []TypeOK
  BY TypesAreInvariant, PTL

------------------------------------------------------------------------------
(* A commit whose id is not exposed is in the branch and in every payload   *)
(* that somebody has read to replace the branch with: whoever is writing    *)
(* there has read the file since.  And a payload is out of date only where  *)
(* a commit has been exposed by it.                                         *)
Placed(q, r) == r.index \in DOMAIN q /\ q[r.index] = r.entry
Kept ==
  \A r \in given \ exposed :
    Placed(branch[r.zone], r) /\ \A j \in writers(r.zone) : Placed(loaded[j], r)
Current ==
  \A j \in Jobs : pc[j] = "writing" => loaded[j] = branch[Branch[j]] \/ disturbed(Branch[j])

LEMMA AppendKeepsPlaces ==
  ASSUME NEW q \in Seq(Entry), NEW e \in Entry, NEW r \in Recorded, Placed(q, r)
  PROVE  Placed(Append(q, e), r)
BY DEF Placed, Recorded

LEMMA GivenAreRecorded == TypeOK => given \subseteq Recorded
BY DEF TypeOK, given

LEMMA ReplaceKeepsKept ==
  ASSUME TypeOK, Delivered, Kept, NEW j \in Jobs, Replace(j)
  PROVE  /\ Kept'
         /\ given' = given \cup {committed_as(j)}
         /\ \A r \in given \ exposed : r.zone = Branch[j] => Placed(branch'[Branch[j]], r)
<1> DEFINE z == Branch[j]
           q == Append(loaded[j], entry(j))
           id == committed_as(j)
<1>1. /\ pc[j] = "writing" /\ j \in writers(z) /\ z \in Zones
      /\ loaded[j] \in Seq(Entry) /\ entry(j) \in Entry /\ id \in Recorded /\ id.zone = z
  BY EntriesAreEntries, JobsAssumption DEF Replace, Delivered, running, TypeOK, writers, committed_as
<1>2. /\ branch' = [branch EXCEPT ![z] = q] /\ branch \in [Zones -> Seq(Entry)]
      /\ loaded' = loaded /\ onward(j)
  BY DEF Replace, TypeOK
<1>3. given' = given \cup {id}
  BY DEF Replace, given, TypeOK
<1>4. \A y \in Zones : writers(y)' = writers(y) \ {j}
  BY <1>2 DEF onward, writers, TypeOK
<1>5. Placed(q, id) /\ branch'[z] = q /\ \A y \in Zones : y # z => branch'[y] = branch[y]
  BY <1>1, <1>2 DEF Placed, committed_as
<1>6. exposed \subseteq exposed' /\ (id \notin exposed' => writers(z) = {j})
  BY DEF Replace
<1> HIDE DEF q, id, z
<1>7. \A r \in given \ exposed : r.zone = z => Placed(q, r)
  <2> SUFFICES ASSUME NEW r \in given \ exposed, r.zone = z PROVE Placed(q, r)
    OBVIOUS
  <2>1. r \in Recorded BY GivenAreRecorded
  <2>2. Placed(loaded[j], r) BY <1>1 DEF Kept
  <2> QED BY <1>1, <2>1, <2>2, AppendKeepsPlaces DEF q
<1>8. ASSUME NEW r \in given' \ exposed'
      PROVE  Placed(branch'[r.zone], r) /\ \A k \in writers(r.zone)' : Placed(loaded'[k], r)
  <2>1. CASE r = id
    <3>1. writers(z)' = {} BY <1>1, <1>4, <1>6, <1>8, <2>1
    <3> QED BY <1>1, <1>5, <2>1, <3>1
  <2>2. CASE r # id
    <3>1. r \in given \ exposed /\ r.zone \in Zones
      BY <1>3, <1>6, <1>8, <2>2, GivenAreRecorded DEF Recorded
    <3>2. Placed(branch'[r.zone], r) BY <1>5, <1>7, <3>1 DEF Kept
    <3>3. \A k \in writers(r.zone)' : Placed(loaded'[k], r) BY <1>2, <1>4, <3>1 DEF Kept
    <3> QED BY <3>2, <3>3
  <2> QED BY <2>1, <2>2
<1> QED BY <1>3, <1>5, <1>7, <1>8 DEF Kept, z, id

LEMMA ReplaceKeepsCurrent ==
  ASSUME TypeOK, Current, NEW j \in Jobs, Replace(j)
  PROVE  Current'
<1>1. /\ branch \in [Zones -> Seq(Entry)] /\ Branch[j] \in Zones
      /\ branch' = [branch EXCEPT ![Branch[j]] = Append(loaded[j], entry(j))]
      /\ loaded' = loaded /\ onward(j) /\ exposed \subseteq exposed'
  BY JobsAssumption DEF Replace, TypeOK
<1> SUFFICES ASSUME NEW k \in Jobs, pc'[k] = "writing", ~disturbed(Branch[k])'
             PROVE  loaded'[k] = branch'[Branch[k]]
  BY DEF Current
<1>2. k # j /\ pc[k] = "writing" BY <1>1 DEF onward, TypeOK
<1>3. Branch[k] # Branch[j]
  <2> SUFFICES ASSUME Branch[k] = Branch[j] PROVE FALSE
    OBVIOUS
  <2>1. writers(Branch[j]) # {j} BY <1>2 DEF writers
  <2>2. committed_as(j) \in exposed' /\ committed_as(j).zone = Branch[j]
    BY <2>1 DEF Replace, committed_as
  <2> QED BY <2>2 DEF disturbed
<1>4. ~disturbed(Branch[k]) BY <1>1 DEF disturbed
<1> QED BY <1>1, <1>2, <1>3, <1>4, JobsAssumption DEF Current

LEMMA NextKeepsKept ==
  ASSUME TypeOK, Delivered, Kept, Current, [Next]_vars
  PROVE  Kept' /\ Current'
<1>1. ASSUME UNCHANGED <<branch, exposed>>, given' \subseteq given,
             \A k \in Jobs : pc'[k] = "writing" =>
               (pc[k] = "writing" /\ loaded'[k] = loaded[k]) \/ loaded'[k] = branch[Branch[k]]
      PROVE  Kept' /\ Current'
  <2>1. ASSUME NEW r \in given' \ exposed', NEW k \in writers(r.zone)' PROVE Placed(loaded'[k], r)
    BY <1>1, <2>1 DEF Kept, writers
  <2>2. Kept' BY <1>1, <2>1 DEF Kept
  <2>3. Current' BY <1>1 DEF Current, disturbed
  <2> QED BY <2>2, <2>3
<1>2. ASSUME NEW j \in Jobs, Start(j) \/ Refuse(j) \/ Load(j) \/ Fail(j) PROVE Kept' /\ Current'
  <2>0. UNCHANGED <<branch, exposed, ledger>> BY <1>2 DEF Start, Refuse, Load, Fail, past
  <2>1. UNCHANGED <<branch, exposed>> /\ given' \subseteq given
    <3>1. \A k \in Jobs : rows'[k] \subseteq rows[k]
      BY <1>2 DEF Start, Refuse, Load, Fail, TypeOK
    <3> QED BY <2>0, <3>1 DEF given
  <2>2. \A k \in Jobs : pc'[k] = "writing" =>
          (pc[k] = "writing" /\ loaded'[k] = loaded[k]) \/ loaded'[k] = branch[Branch[k]]
    BY <1>2 DEF Start, Refuse, judged, onward, Load, Fail, TypeOK
  <2> QED BY <1>1, <2>1, <2>2
<1>3. ASSUME NEW j \in Jobs, NEW z \in Zones, FetchHead(j, z) PROVE Kept' /\ Current'
  BY <1>1, <1>3 DEF FetchHead, past, given
<1>4. ASSUME NEW j \in Jobs, EndTransaction(j) PROVE Kept' /\ Current'
  <2>1. given' \subseteq given BY <1>4 DEF EndTransaction, given, TypeOK
  <2> QED BY <1>1, <1>4, <2>1 DEF EndTransaction, TypeOK
<1>5. CASE UNCHANGED vars BY <1>1, <1>5 DEF vars, past, given
<1> QED BY <1>2, <1>3, <1>4, <1>5, ReplaceKeepsKept, ReplaceKeepsCurrent DEF Next

StoreInv == TypeOK /\ Delivered /\ Kept /\ Current
LEMMA StoreInvariant == Spec => []StoreInv
<1>1. Init => Kept /\ Current
  BY DEF Init, Kept, Current, given
<1>2. TypeOK /\ Delivered /\ Kept /\ Current /\ [Next]_vars => Kept' /\ Current'
  BY NextKeepsKept
<1> QED BY <1>1, <1>2, TypesAreInvariant, PTL DEF Spec, StoreInv

(* Whatever the workers, the writers of a branch, the failures and the      *)
(* deliveries: a recorded commit id is good for ever, unless another job    *)
(* had read the file before that commit and replaced it after.              *)
THEOREM OnlyOverlapsLoseCommits == Spec => []LostOnlyByOverlap
<1>1. StoreInv => LostOnlyByOverlap
  BY DEF StoreInv, Kept, Placed, LostOnlyByOverlap
<1> QED BY <1>1, StoreInvariant, PTL

(* A branch on which no commit was overlapped is only ever added to.        *)
THEOREM BranchesOnlyGrow == Spec => HeadsOnlyGrow
<1>1. ASSUME StoreInv, [Next]_vars, NEW z \in Zones, ~disturbed(z)
      PROVE  IsPrefix(branch[z], branch'[z])
  <2>1. branch[z] \in Seq(Entry) BY <1>1 DEF StoreInv, TypeOK
  <2>2. CASE branch'[z] = branch[z] BY <2>1, <2>2 DEF IsPrefix
  <2>3. ASSUME NEW j \in Jobs, Replace(j) PROVE IsPrefix(branch[z], branch'[z])
    <3>1. CASE Branch[j] # z BY <2>2, <2>3, <3>1 DEF Replace, StoreInv, TypeOK
    <3>2. CASE Branch[j] = z
      <4>1. pc[j] = "writing" /\ entry(j) \in Entry
        BY <1>1, <2>3, EntriesAreEntries DEF Replace, StoreInv, Delivered, running
      <4>2. loaded[j] = branch[z] BY <1>1, <3>2, <4>1 DEF StoreInv, Current
      <4>3. branch'[z] = Append(branch[z], entry(j))
        BY <2>3, <3>2, <4>2, JobsAssumption, <1>1 DEF Replace, StoreInv, TypeOK
      <4> QED BY <2>1, <4>1, <4>3 DEF IsPrefix
    <3> QED BY <3>1, <3>2
  <2> QED BY <1>1, <2>2, <2>3 DEF Next, vars, past, Start, FetchHead, Refuse, Load, EndTransaction, Fail
<1>2. StoreInv /\ [Next]_vars => [\A z \in Zones : disturbed(z) \/ IsPrefix(branch[z], branch'[z])]_vars
  BY <1>1
<1> QED BY <1>2, StoreInvariant, PTL DEF Spec, HeadsOnlyGrow

------------------------------------------------------------------------------
(* The promise.  Reading the file is to begin a commit; replacing it is an  *)
(* append unless the branch is disturbed, and then it keeps what is kept.   *)
LEMMA ReplaceCommits ==
  ASSUME StoreInv, NEW j \in Jobs, Replace(j)
  PROVE  P!Commit(j, Branch[j])
<1> DEFINE z == Branch[j]
           e == entry(j)
<1>1. /\ TypeOK /\ Delivered /\ Kept /\ Current BY DEF StoreInv
<1>2. /\ pc[j] = "writing" /\ z \in Zones /\ e \in Entry /\ loaded[j] \in Seq(Entry)
      /\ Append(loaded[j], e) \in Seq(Entry)
  BY <1>1, EntriesAreEntries, JobsAssumption DEF Replace, Delivered, running, TypeOK
<1>3. /\ branch'[z] = Append(loaded[j], e) /\ \A y \in Zones \ {z} : branch'[y] = branch[y]
  BY <1>1, <1>2 DEF Replace, TypeOK
<1>4. j \in writers(z) BY <1>2 DEF writers
<1>5. \A y \in Zones : writers(y)' = writers(y) \ {j}
  BY <1>1 DEF Replace, onward, writers, TypeOK
<1>6. Len(branch'[z]) = Len(loaded[j]) + 1 /\ branch'[z][Len(branch'[z])] = e
  BY <1>2, <1>3
<1>7. committed_as(j) = [zone |-> z, index |-> Len(branch'[z]), entry |-> e]
  BY <1>6 DEF committed_as
<1>8. rows' = [rows EXCEPT ![j] = @ \cup {committed_as(j)}] /\ ledger' = ledger
      /\ exposed' = exposed \cup (IF writers(z) = {j} THEN {} ELSE {committed_as(j)})
  BY DEF Replace
<1>9. P!appended(z, e) \/ P!rewritten(z, e)
  <2>1. CASE loaded[j] = branch[z] BY <1>3, <2>1 DEF P!appended
  <2>2. CASE loaded[j] # branch[z]
    <3>1. \E id \in exposed : id.zone = z BY <1>1, <1>2, <2>2 DEF Current, disturbed
    <3>2. \A r \in given \ exposed : r.zone = z => Placed(branch'[z], r)
      BY <1>1, ReplaceKeepsKept
    <3>3. P!given = given BY DEF P!given, given
    <3>4. Append(loaded[j], e) \in Seq(Entry) /\ Append(loaded[j], e) # <<>> BY <1>2
    <3> QED BY <1>3, <1>6, <3>1, <3>2, <3>3, <3>4 DEF P!rewritten, Placed
  <2> QED BY <2>1, <2>2
<1> HIDE DEF z, e
<1>10. P!leaves(j) BY <1>5 DEF P!leaves
<1>11. P!placed(j, z, e) BY <1>2, <1>7, <1>8, <1>9 DEF P!placed
<1> QED BY <1>2, <1>3, <1>4, <1>8, <1>10, <1>11 DEF P!Commit, z

LEMMA WritersLeave ==
  ASSUME TypeOK, NEW j \in Jobs, Start(j) \/ Refuse(j) \/ EndTransaction(j) \/ Fail(j)
  PROVE  \A z \in Zones : writers(z)' = IF Fail(j) THEN writers(z) \ {j} ELSE writers(z)
<1>1. CASE Start(j) \/ Refuse(j) \/ EndTransaction(j)
  <2>1. \A k \in Jobs : pc'[k] = "writing" <=> pc[k] = "writing"
    BY <1>1 DEF TypeOK, Start, Refuse, judged, onward, EndTransaction
  <2>2. Fail(j) => pc[j] # "writing"
    BY <1>1 DEF Start, Refuse, judged, EndTransaction
  <2> QED BY <2>1, <2>2 DEF writers
<1>2. CASE Fail(j)
  <2>1. \A k \in Jobs : pc'[k] = "writing" <=> pc[k] = "writing" /\ k # j
    BY <1>2 DEF TypeOK, Fail
  <2> QED BY <1>2, <2>1 DEF writers
<1> QED BY <1>1, <1>2

LEMMA NextKeepsPromise ==
  ASSUME StoreInv, [Next]_vars
  PROVE  [P!Next]_(P!promise)
<1> USE DEF StoreInv
<1>0. UNCHANGED branch => branch' = [z \in Zones |-> branch'[z]] BY DEF TypeOK
<1>1. ASSUME NEW j \in Jobs, Replace(j) PROVE P!Next
  <2>1. P!Commit(j, Branch[j]) BY <1>1, ReplaceCommits
  <2>2. Branch[j] \in Zones BY JobsAssumption
  <2>3. branch' = [z \in Zones |-> branch'[z]] BY <1>1 DEF Replace, TypeOK
  <2> QED BY <2>1, <2>2, <2>3 DEF P!Next
<1>2. ASSUME NEW j \in Jobs, EndTransaction(j) PROVE P!Next
  <2>1. \A z \in Zones : writers(z)' = writers(z)
    BY <1>2 DEF EndTransaction, writers, TypeOK
  <2>2. P!Record(j) BY <1>2, <2>1 DEF EndTransaction, P!Record
  <2> QED BY <1>0, <1>2, <2>2 DEF P!Next, EndTransaction
<1>3. ASSUME NEW j \in Jobs, Fail(j) PROVE P!Next
  <2>1. P!leaves(j) BY <1>3, WritersLeave DEF P!leaves
  <2>2. P!RollBack(j) BY <1>3, <2>1 DEF Fail, P!RollBack
  <2> QED BY <1>0, <1>3, <2>2 DEF P!Next, Fail
<1>4. ASSUME NEW j \in Jobs, Load(j) PROVE P!Next
  <2>0. \A k \in Jobs : pc'[k] = "writing" <=> pc[k] = "writing" \/ k = j
    BY <1>4 DEF Load, TypeOK
  <2>1. /\ Branch[j] \in Zones
        /\ \A z \in Zones : writers(z)' = IF z = Branch[j] THEN writers(z) \cup {j} ELSE writers(z)
    BY <2>0, JobsAssumption DEF writers
  <2>2. P!Begin(j, Branch[j]) BY <1>4, <2>1 DEF Load, past, P!Begin
  <2> QED BY <1>0, <1>4, <2>1, <2>2 DEF P!Next, Load
<1>5. ASSUME NEW j \in Jobs, Start(j) \/ Refuse(j) PROVE UNCHANGED P!promise
  <2>1. \A z \in Zones : writers(z)' = writers(z)
    BY <1>5 DEF Start, Refuse, judged, onward, writers, TypeOK
  <2> QED BY <1>5, <2>1 DEF Start, Refuse, past, P!promise
<1>6. ASSUME NEW j \in Jobs, NEW z \in Zones, FetchHead(j, z) PROVE UNCHANGED P!promise
  BY <1>6 DEF FetchHead, past, P!promise, writers
<1>7. CASE UNCHANGED vars BY <1>7 DEF vars, past, P!promise, writers
<1> QED BY <1>1, <1>2, <1>3, <1>4, <1>5, <1>6, <1>7 DEF Next

(* Reading a branch file, replacing it and ending the transaction, by any   *)
(* number of jobs on a branch and with failures in between, implement       *)
(* StorePromise: commits alone on their branch are atomic appends, others   *)
(* can drop nothing but each other, and ids are recorded together.          *)
THEOREM StoreKeepsPromise == Spec => KeepsStorePromise
<1>1. Init => P!Init
  BY DEF Init, P!Init, writers
<1>2. StoreInv /\ [Next]_vars => [P!Next]_(P!promise)
  BY NextKeepsPromise
<1> QED BY <1>1, <1>2, StoreInvariant, PTL DEF Spec, KeepsStorePromise, P!Spec

(* The promise alone makes the ids good that were not exposed.              *)
Promised == /\ branch \in [Zones -> Seq(Entry)]
            /\ rows \in [Jobs -> SUBSET Recorded]
            /\ ledger \in SUBSET Recorded

LEMMA PromiseKeepsIds ==
  ASSUME Promised, P!IdsAreGood, [P!Next]_(P!promise)
  PROVE  Promised' /\ P!IdsAreGood'
<1>1. ASSUME NEW j \in Jobs, NEW z \in Zones, P!Commit(j, z), branch' = [y \in Zones |-> branch'[y]]
      PROVE  Promised' /\ P!IdsAreGood'
  <2>0. PICK e \in Entry : P!placed(j, z, e) BY <1>1 DEF P!Commit
  <2> DEFINE id == [zone |-> z, index |-> Len(branch'[z]), entry |-> e]
  <2>1. /\ rows' = [rows EXCEPT ![j] = @ \cup {id}] /\ ledger' = ledger
        /\ exposed \subseteq exposed'
        /\ \A y \in Zones \ {z} : branch'[y] = branch[y]
        /\ P!appended(z, e) \/ P!rewritten(z, e)
    BY <1>1, <2>0 DEF P!Commit, P!placed
  <2>2. branch[z] \in Seq(Entry) BY DEF Promised
  <2>3. branch'[z] \in Seq(Entry) /\ Len(branch'[z]) \in DOMAIN branch'[z] /\ branch'[z][Len(branch'[z])] = e
    BY <2>1, <2>2 DEF P!appended, P!rewritten
  <2>4. id \in Recorded BY <2>3 DEF Recorded
  <2>5. P!given' = P!given \cup {id} /\ P!given \subseteq Recorded
    BY <2>1, <2>4 DEF P!given, Promised
  <2>6. ASSUME NEW r \in P!given \ exposed PROVE Placed(branch'[r.zone], r)
    <3>1. r \in Recorded /\ r.zone \in Zones /\ Placed(branch[r.zone], r)
      BY <2>5, <2>6 DEF P!IdsAreGood, P!good, Placed, Recorded
    <3>2. CASE r.zone # z BY <2>1, <3>1, <3>2
    <3>3. CASE r.zone = z
      <4>1. CASE P!appended(z, e) BY <2>2, <3>1, <3>3, <4>1, AppendKeepsPlaces DEF P!appended
      <4>2. CASE P!rewritten(z, e) BY <2>6, <3>3, <4>2 DEF P!rewritten, Placed
      <4> QED BY <2>1, <4>1, <4>2
    <3> QED BY <3>2, <3>3
  <2>7. Placed(branch'[id.zone], id) BY <2>3 DEF Placed
  <2>8. branch' \in [Zones -> Seq(Entry)]
    <3>1. \A y \in Zones : branch'[y] \in Seq(Entry) BY <2>1, <2>3 DEF Promised
    <3> DEFINE b == branch'
    <3>2. b = [y \in Zones |-> b[y]] BY <1>1
    <3>3. \A y \in Zones : b[y] \in Seq(Entry) BY <3>1
    <3> HIDE DEF b
    <3>4. b \in [Zones -> Seq(Entry)] BY <3>2, <3>3
    <3> QED BY <3>4 DEF b
  <2> HIDE DEF id
  <2>9. Promised' BY <2>1, <2>4, <2>8 DEF Promised
  <2>10. P!IdsAreGood' BY <2>1, <2>5, <2>6, <2>7 DEF P!IdsAreGood, P!good, Placed
  <2> QED BY <2>9, <2>10
<1>2. ASSUME NEW j \in Jobs, P!Record(j) \/ P!RollBack(j)
      PROVE  Promised' /\ P!IdsAreGood'
  <2>1. P!given' \subseteq P!given /\ UNCHANGED <<branch, exposed>>
    BY <1>2 DEF P!Record, P!RollBack, P!given, Promised
  <2>2. Promised' BY <1>2 DEF P!Record, P!RollBack, Promised
  <2> QED BY <2>1, <2>2 DEF P!IdsAreGood, P!good
<1>3. ASSUME NEW j \in Jobs, NEW z \in Zones, P!Begin(j, z) PROVE Promised' /\ P!IdsAreGood'
  <2>1. UNCHANGED <<branch, rows, ledger, exposed>> BY <1>3 DEF P!Begin
  <2>2. P!given' = P!given BY <2>1 DEF P!given
  <2>3. Promised' BY <2>1 DEF Promised
  <2>4. P!IdsAreGood' BY <2>1, <2>2 DEF P!IdsAreGood, P!good
  <2> QED BY <2>3, <2>4
<1>4. CASE UNCHANGED P!promise
  BY <1>4 DEF P!promise, Promised, P!IdsAreGood, P!given, P!good
<1> QED BY <1>1, <1>2, <1>3, <1>4 DEF P!Next

(* A store that keeps its promise never lets an id go bad that was given    *)
(* with nobody else about to commit on the branch, whatever is lost there   *)
(* before or after, and with any number of writers.                         *)
THEOREM PromisedIdsAreGood == P!Spec => []P!IdsAreGood
<1>1. P!Init => Promised /\ P!IdsAreGood
  BY DEF P!Init, Promised, P!IdsAreGood, P!given
<1>2. Promised /\ P!IdsAreGood /\ [P!Next]_(P!promise) => Promised' /\ P!IdsAreGood'
  BY PromiseKeepsIds
<1> QED BY <1>1, <1>2, PTL DEF P!Spec

------------------------------------------------------------------------------
(* Whoever runs while a job runs is beside it, so that a head it has read   *)
(* is out of date only by the commit of one beside it.                      *)
Known == \A i, j \in running : i # j => i \in beside[j]
Behind ==
  \A j \in Jobs : /\ fetched[j] # {} => pc[j] \in {"judging", "writing"}
                  /\ \A z \in fetched[j] : heads[j][z] = branch[z] \/ \E k \in beside[j] : Branch[k] = z
                  /\ pc[j] = "writing" => fetched[j] = Reads[j]

LEMMA NextStaysBehind ==
  ASSUME TypeOK, Known, Behind, [Next]_vars
  PROVE  Known' /\ Behind'
<1>1. ASSUME NEW j \in Jobs, Start(j) PROVE Known' /\ Behind'
  <2>1. running' = running \cup {j} /\ j \notin running BY <1>1 DEF TypeOK, running, Start
  <2>2. /\ beside'[j] = running /\ \A k \in running : beside'[k] = beside[k] \cup {j}
        /\ \A k \in Jobs : k \notin running /\ k # j => beside'[k] = beside[k]
    BY <1>1, <2>1 DEF Start, running
  <2>3. Known' BY <2>1, <2>2 DEF Known
  <2>4. fetched[j] = {} BY <2>1 DEF Behind, running
  <2>5. /\ UNCHANGED <<branch, heads, fetched>> /\ pc'[j] # "writing"
        /\ \A k \in Jobs \ {j} : pc'[k] = pc[k]
    BY <1>1 DEF Start, TypeOK
  <2>6. Behind'
    <3> SUFFICES ASSUME NEW k \in Jobs
                 PROVE  /\ fetched'[k] # {} => pc'[k] \in {"judging", "writing"}
                        /\ \A z \in fetched'[k] : \/ heads'[k][z] = branch'[z]
                                                  \/ \E i \in beside'[k] : Branch[i] = z
                        /\ pc'[k] = "writing" => fetched'[k] = Reads[k]
      BY DEF Behind
    <3>1. CASE k = j BY <2>4, <2>5, <3>1
    <3>2. CASE k # j
      <4>1. beside[k] \subseteq beside'[k] BY <2>2, <3>2
      <4> QED BY <2>5, <3>2, <4>1 DEF Behind
    <3> QED BY <3>1, <3>2
  <2> QED BY <2>3, <2>6
<1>2. ASSUME NEW j \in Jobs, NEW z \in Zones, FetchHead(j, z) PROVE Known' /\ Behind'
  <2>1. j \in running /\ running' = running /\ beside' = beside
    BY <1>2 DEF FetchHead, past, running
  <2>2. /\ pc[j] = "judging" /\ pc' = pc /\ branch' = branch
        /\ fetched'[j] = fetched[j] \cup {z} /\ heads'[j][z] = branch[z]
        /\ \A y \in Zones \ {z} : heads'[j][y] = heads[j][y]
        /\ \A k \in Jobs \ {j} : fetched'[k] = fetched[k] /\ heads'[k] = heads[k]
    BY <1>2 DEF FetchHead, branch_head, TypeOK
  <2>3. \A y \in fetched[j] : y \in Zones BY DEF TypeOK
  <2>4. Behind' BY <2>1, <2>2, <2>3 DEF Behind
  <2>5. Known' BY <2>1 DEF Known
  <2> QED BY <2>4, <2>5
<1>3. ASSUME NEW j \in Jobs, Refuse(j) PROVE Known' /\ Behind'
  <2>1. j \in running /\ running' = running /\ beside' = beside /\ branch' = branch
    BY <1>3 DEF Refuse, judged, onward, running, past, TypeOK
  <2>2. fetched'[j] = {} /\ pc'[j] # "writing" /\ \A k \in Jobs \ {j} :
          fetched'[k] = fetched[k] /\ heads'[k] = heads[k] /\ pc'[k] = pc[k]
    BY <1>3 DEF Refuse, onward, TypeOK
  <2> QED BY <2>1, <2>2 DEF Known, Behind
<1>4. ASSUME NEW j \in Jobs, Replace(j) PROVE Known' /\ Behind'
  <2>1. j \in running /\ running' = running /\ beside' = beside
    BY <1>4 DEF Replace, onward, running, TypeOK
  <2>2. fetched'[j] = {} /\ pc'[j] # "writing" /\ \A k \in Jobs \ {j} :
          fetched'[k] = fetched[k] /\ heads'[k] = heads[k] /\ pc'[k] = pc[k]
    BY <1>4 DEF Replace, onward, TypeOK
  <2>3. \A z \in Zones : z # Branch[j] => branch'[z] = branch[z]
    BY <1>4 DEF Replace, TypeOK
  <2>4. ASSUME NEW k \in Jobs \ {j}, NEW z \in fetched[k]
        PROVE  heads[k][z] = branch'[z] \/ \E i \in beside[k] : Branch[i] = z
    <3>0. k \in running /\ z \in Zones BY <2>4 DEF Behind, TypeOK, running
    <3>1. j \in beside[k] /\ z \in Zones BY <2>1, <2>4, <3>0 DEF Known
    <3> QED BY <2>3, <2>4, <3>1 DEF Behind
  <2>5. Known' BY <2>1 DEF Known
  <2>6. Behind' BY <2>1, <2>2, <2>4 DEF Behind
  <2> QED BY <2>5, <2>6
<1>5. ASSUME NEW j \in Jobs, Load(j) PROVE Known' /\ Behind'
  BY <1>5 DEF TypeOK, Known, Behind, running, Load, judged, past
<1>6. ASSUME NEW j \in Jobs, EndTransaction(j) PROVE Known' /\ Behind'
  <2>1. running' = running \ {j} BY <1>6 DEF EndTransaction, running, TypeOK
  <2>2. /\ UNCHANGED <<branch, fetched, heads>> /\ pc[j] = "ending" /\ pc'[j] = "done"
        /\ \A k \in Jobs \ {j} : pc'[k] = pc[k] /\ beside'[k] = beside[k]
    BY <1>6 DEF EndTransaction, TypeOK
  <2>3. Known' BY <2>1, <2>2 DEF Known, running
  <2>4. fetched[j] = {} BY <2>2 DEF Behind
  <2>5. Behind' BY <2>2, <2>4 DEF Behind
  <2> QED BY <2>3, <2>5
<1>7. ASSUME NEW j \in Jobs, Fail(j) PROVE Known' /\ Behind'
  <2>1. running' = running \ {j} BY <1>7 DEF Fail, running, TypeOK
  <2> QED BY <1>7, <2>1 DEF TypeOK, Known, Behind, Fail
<1>8. CASE UNCHANGED vars
  BY <1>8 DEF vars, past, Known, Behind, running
<1> QED BY <1>1, <1>2, <1>3, <1>4, <1>5, <1>6, <1>7, <1>8 DEF Next

LEMMA AlwaysBehind == Spec => [](TypeOK /\ Known /\ Behind)
<1>1. Init => Known /\ Behind
  BY DEF Init, Known, Behind, running
<1>2. TypeOK /\ Known /\ Behind /\ [Next]_vars => Known' /\ Behind'
  BY NextStaysBehind
<1> QED BY <1>1, <1>2, TypesAreInvariant, PTL DEF Spec

(* With any number of workers, the heads a move was judged against are out  *)
(* of date at its commit only by jobs that ran beside it.                   *)
THEOREM StaleHeadsAreConcurrent == Spec => StaleOnlyBeside
<1>1. Behind =>
        [\A j \in Jobs : commits(j) =>
           \A z \in Reads[j] : heads[j][z] = branch[z] \/ \E k \in beside[j] : Branch[k] = z]_vars
  BY DEF Behind, commits
<1> QED BY <1>1, AlwaysBehind, PTL DEF StaleOnlyBeside

(* One job at a time: what the running job has fetched is still current,    *)
(* because nobody else replaces a branch and its own commit ends the move.  *)
OneAtATime == Workers = 1 /\ IsFiniteSet(Jobs)
Alone == \A i, j \in running : i = j
SeenCurrent == \A j \in Jobs : /\ \A z \in fetched[j] : heads[j][z] = branch[z]
                               /\ pc[j] = "writing" => fetched[j] = Reads[j]
                               /\ pc[j] \notin {"judging", "writing"} => fetched[j] = {}

LEMMA StartsAlone ==
  ASSUME OneAtATime, NEW j \in Jobs, Start(j)
  PROVE  running = {}
<1>1. running \in SUBSET Jobs
  BY DEF running
<1>2. IsFiniteSet(running) /\ Cardinality(running) \in Nat
  BY <1>1, FS_Subset, FS_CardinalityType DEF OneAtATime
<1>3. Cardinality(running) < 1
  BY DEF Start, OneAtATime
<1>4. Cardinality(running) = 0
  BY <1>2, <1>3
<1> QED BY <1>2, <1>4, FS_EmptySet

LEMMA NextStaysCurrent ==
  ASSUME OneAtATime, TypeOK, Alone, SeenCurrent, [Next]_vars
  PROVE  Alone' /\ SeenCurrent'
<1>1. ASSUME NEW j \in Jobs, Start(j) PROVE Alone' /\ SeenCurrent'
  <2>1. running = {}
    BY <1>1, StartsAlone
  <2>2. running' = {j}
    BY <1>1, <2>1 DEF TypeOK, running, Start
  <2> QED BY <1>1, <2>1, <2>2 DEF Alone, SeenCurrent, Start, TypeOK
<1>2. ASSUME NEW j \in Jobs, NEW z \in Zones, FetchHead(j, z) PROVE Alone' /\ SeenCurrent'
  BY <1>2 DEF TypeOK, Alone, SeenCurrent, running, FetchHead, branch_head
<1>3. ASSUME NEW j \in Jobs, Refuse(j) \/ Replace(j) PROVE Alone' /\ SeenCurrent'
  <2>1. j \in running /\ pc[j] \in {"judging", "writing"} /\ onward(j)
    BY <1>3 DEF Refuse, judged, Replace, running
  <2>2. running' = running
    BY <2>1 DEF TypeOK, running, onward
  <2>3. \A k \in Jobs \ {j} : fetched[k] = {} /\ pc'[k] = pc[k] /\ pc[k] # "writing"
    BY <2>1 DEF Alone, SeenCurrent, onward, TypeOK, running
  <2>4. fetched'[j] = {} /\ \A k \in Jobs \ {j} : fetched'[k] = fetched[k]
    BY <2>1 DEF onward, TypeOK
  <2>5. pc'[j] # "writing"
    BY <2>1 DEF onward, TypeOK
  <2> QED BY <2>2, <2>3, <2>4, <2>5 DEF Alone, SeenCurrent
<1>4. ASSUME NEW j \in Jobs, Load(j) PROVE Alone' /\ SeenCurrent'
  BY <1>4 DEF TypeOK, Alone, SeenCurrent, running, Load, judged
<1>5. ASSUME NEW j \in Jobs, EndTransaction(j) PROVE Alone' /\ SeenCurrent'
  BY <1>5 DEF TypeOK, Alone, SeenCurrent, running, EndTransaction
<1>6. ASSUME NEW j \in Jobs, Fail(j) PROVE Alone' /\ SeenCurrent'
  BY <1>6 DEF TypeOK, Alone, SeenCurrent, running, Fail
<1>7. CASE UNCHANGED vars
  BY <1>7 DEF vars, Alone, SeenCurrent, running
<1> QED BY <1>1, <1>2, <1>3, <1>4, <1>5, <1>6, <1>7 DEF Next

(* One job at a time, every move lands on the building it was judged        *)
(* against, whatever fails and is delivered again.                          *)
THEOREM SerialRunsJudgeTheirHeads == OneAtATime => (Spec => JudgedAgainstHeads)
<1> SUFFICES ASSUME OneAtATime PROVE Spec => JudgedAgainstHeads
  OBVIOUS
<1>1. Init => Alone /\ SeenCurrent
  BY DEF Init, Alone, SeenCurrent, running
<1>2. TypeOK /\ Delivered /\ Alone /\ SeenCurrent /\ [Next]_vars => Alone' /\ SeenCurrent'
  BY NextStaysCurrent
<1>3. SeenCurrent =>
        [\A j \in Jobs : commits(j) => \A z \in Reads[j] : heads[j][z] = branch[z]]_vars
  BY DEF SeenCurrent, commits
<1> QED BY <1>1, <1>2, <1>3, TypesAreInvariant, PTL DEF Spec, JudgedAgainstHeads

==============================================================================
