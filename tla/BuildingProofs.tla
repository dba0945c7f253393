--------------------------- MODULE BuildingProofs ----------------------------
(***************************************************************************)
(* The zone plan of any building and what its moves leave: any number of    *)
(* elements, anywhere, any cell size and ceiling, any rules and vectors.    *)
(***************************************************************************)
EXTENDS Building, FiniteSetTheorems, TLAPS

(* A zone of the grid: whole cells that hang together, under the ceiling    *)
(* unless it is one cell, and none of them in the zone being grown.         *)
Room(cells) ==
  /\ cells \in SUBSET coords
  /\ joined(cells)
  /\ (\E c \in cells : cells = {c}) \/ size(cells) <= MaxElements

GridZone(z) ==
  \E cells \in SUBSET (claimed \ member) : Room(cells) /\ z.gids = within(cells)

Grows ==
  /\ loaded \in [Elements -> Int \X Int \X Int]
  /\ claimed \in SUBSET coords /\ member \in SUBSET claimed
  /\ member # {} => Room(member)
  /\ member = {} => ring = <<>>
  /\ frontier \in Seq(member)
  /\ ring \in Seq(Int \X Int \X Int)
  /\ \A i \in DOMAIN ring : \E m \in member : adjacent(m, ring[i])

Covers ==
  /\ \A c \in claimed \ member : \E z \in plan : within({c}) \subseteq z.gids
  /\ \A z \in plan : GridZone(z) \/ (gridDone /\ z \in rest)
  /\ \A y, z \in plan : y # z => y.gids \cap z.gids = {}

IInv == Grows /\ Covers

------------------------------------------------------------------------------
LEMMA CellsAreTriples ==
  ASSUME loaded \in [Elements -> Int \X Int \X Int] PROVE coords \subseteq Int \X Int \X Int
<1>1. ASSUME NEW e \in Elements PROVE cell(e) \in Int \X Int \X Int
  <2>1. loaded[e][1] \in Int /\ loaded[e][2] \in Int /\ loaded[e][3] \in Int OBVIOUS
  <2>2. loaded[e][1] \div CellSize \in Int /\ loaded[e][2] \div CellSize \in Int
    BY <2>1, ZoningAssumption
  <2> QED BY <2>1, <2>2 DEF cell, level
<1> QED BY <1>1 DEF coords, gridded

LEMMA BesideIsMutual ==
  ASSUME NEW c \in Int \X Int \X Int, NEW d, adjacent(c, d)
  PROVE  d \in Int \X Int \X Int /\ adjacent(d, c)
<1>1. PICK i \in 1..4 : beside(c)[i] = d BY DEF adjacent
<1>2. c = <<c[1], c[2], c[3]>> /\ c[1] \in Int /\ c[2] \in Int /\ c[3] \in Int OBVIOUS
<1>3. CASE i = 1
  <2>1. d = <<c[1], c[2] + 1, c[3]>> BY <1>1, <1>3 DEF beside
  <2>2. beside(d)[3] = c BY <1>2, <2>1 DEF beside
  <2> QED BY <1>2, <2>1, <2>2 DEF adjacent
<1>4. CASE i = 2
  <2>1. d = <<c[1], c[2], c[3] + 1>> BY <1>1, <1>4 DEF beside
  <2>2. beside(d)[4] = c BY <1>2, <2>1 DEF beside
  <2> QED BY <1>2, <2>1, <2>2 DEF adjacent
<1>5. CASE i = 3
  <2>1. d = <<c[1], c[2] - 1, c[3]>> BY <1>1, <1>5 DEF beside
  <2>2. beside(d)[1] = c BY <1>2, <2>1 DEF beside
  <2> QED BY <1>2, <2>1, <2>2 DEF adjacent
<1>6. CASE i = 4
  <2>1. d = <<c[1], c[2], c[3] - 1>> BY <1>1, <1>6 DEF beside
  <2>2. beside(d)[2] = c BY <1>2, <2>1 DEF beside
  <2> QED BY <1>2, <2>1, <2>2 DEF adjacent
<1> QED BY <1>1, <1>3, <1>4, <1>5, <1>6

(* A cell beside one of them can join cells that hang together.             *)
LEMMA NeighbourJoins ==
  ASSUME NEW cells \in SUBSET (Int \X Int \X Int), joined(cells),
         NEW m \in cells, NEW d, adjacent(m, d)
  PROVE  joined(cells \cup {d})
<1>1. adjacent(d, m) BY BesideIsMutual
<1> SUFFICES ASSUME NEW part \in (SUBSET (cells \cup {d})) \ {{}, cells \cup {d}}
             PROVE  \E b \in part, c \in (cells \cup {d}) \ part : adjacent(b, c)
  BY DEF joined
<1>2. CASE part = {d}
  <2>1. CASE m # d BY <1>1, <1>2, <2>1
  <2>2. CASE m = d
    <3>1. part \in (SUBSET cells) \ {{}, cells} BY <1>2, <2>2
    <3> QED BY <3>1 DEF joined
  <2> QED BY <2>1, <2>2
<1>3. CASE cells \subseteq part
  <2>1. d \notin part BY <1>3
  <2> QED BY <1>3, <2>1
<1>4. CASE part # {d} /\ ~(cells \subseteq part)
  <2>1. part \cap cells # {} BY <1>4
  <2>2. part \cap cells \in (SUBSET cells) \ {{}, cells} BY <1>4, <2>1
  <2>3. PICK b \in part \cap cells, c \in cells \ (part \cap cells) : adjacent(b, c)
    BY <2>2 DEF joined
  <2> QED BY <2>3
<1> QED BY <1>2, <1>3, <1>4

------------------------------------------------------------------------------
(* A step of the planning moves no element, so cells and what stands in     *)
(* them are the same after it.                                              *)
LEMMA PlanningMovesNothing == ASSUME PlanStep PROVE loaded' = loaded
BY DEF PlanStep, Open, Close, Turn, Take, Pass, Finish

LEMMA SameBuilding ==
  ASSUME loaded' = loaded
  PROVE  /\ coords' = coords /\ rest' = rest
         /\ \A cells : within(cells)' = within(cells)
BY DEF coords, rest, within, loose, cell, level

LEMMA RoomsStay ==
  ASSUME loaded' = loaded, NEW cells PROVE Room(cells)' <=> Room(cells)
<1>1. coords' = coords /\ within(cells)' = within(cells) BY SameBuilding
<1> QED BY <1>1 DEF Room, size

LEMMA OneCellIsARoom ==
  ASSUME NEW c \in coords PROVE Room({c})
BY DEF Room, joined

LEMMA RestOfTheRing ==
  ASSUME Grows, ring # <<>>
  PROVE  /\ \E m \in member : adjacent(m, Head(ring))
         /\ Tail(ring) \in Seq(Int \X Int \X Int)
         /\ \A i \in DOMAIN Tail(ring) : \E m \in member : adjacent(m, Tail(ring)[i])
<1>1. ring \in Seq(Int \X Int \X Int) BY DEF Grows
<1>2. 1 \in DOMAIN ring /\ Head(ring) = ring[1] BY <1>1
<1>3. ASSUME NEW i \in DOMAIN Tail(ring)
      PROVE  i + 1 \in DOMAIN ring /\ Tail(ring)[i] = ring[i + 1]
  BY <1>1
<1> QED BY <1>1, <1>2, <1>3 DEF Grows

LEMMA OpenGrows == ASSUME Grows, NEW c \in coords, Open(c) PROVE Grows'
<1>1. loaded' = loaded /\ coords' = coords BY SameBuilding DEF Open
<1>2. Room(member)' BY <1>1, RoomsStay, OneCellIsARoom DEF Open
<1> QED BY <1>1, <1>2 DEF Open, Grows, first

LEMMA TurnGrows == ASSUME Grows, Turn PROVE Grows'
<1>1. loaded' = loaded /\ coords' = coords BY SameBuilding DEF Turn
<1>2. Room(member)' BY <1>1, RoomsStay DEF Turn, growing, Grows
<1>3. Head(frontier) \in member /\ Tail(frontier) \in Seq(member)
  BY DEF Turn, growing, Grows
<1>4. Head(frontier) \in Int \X Int \X Int BY <1>3, CellsAreTriples DEF Grows
<1>5. \A i \in 1..4 : adjacent(Head(frontier), beside(Head(frontier))[i])
  BY DEF adjacent
<1>6. beside(Head(frontier)) \in Seq(Int \X Int \X Int) /\ DOMAIN beside(Head(frontier)) = 1..4
  BY <1>4 DEF beside
<1>7. /\ ring' = beside(Head(frontier)) /\ frontier' = Tail(frontier)
      /\ member' = member /\ claimed' = claimed /\ member # {}
  BY DEF Turn, growing
<1> HIDE DEF beside
<1> QED BY <1>1, <1>2, <1>3, <1>5, <1>6, <1>7 DEF Grows

LEMMA TakeGrows == ASSUME Grows, Take PROVE Grows'
<1>1. loaded' = loaded /\ coords' = coords BY SameBuilding DEF Take
<1> DEFINE x == Head(ring)
<1>2. /\ x \in coords /\ x \notin claimed /\ size(member \cup {x}) <= MaxElements
      /\ member' = member \cup {x} /\ claimed' = claimed \cup {x}
      /\ frontier' = Append(frontier, x) /\ ring' = Tail(ring) /\ member # {}
  BY DEF Take, joins, Grows
<1>3. Room(member \cup {x})
  <2>1. PICK m \in member : adjacent(m, x) BY RestOfTheRing DEF Take
  <2>2. member \in SUBSET (Int \X Int \X Int) /\ joined(member) /\ member \subseteq coords
    BY <1>2, CellsAreTriples DEF Grows, Room
  <2>3. joined(member \cup {x}) BY <2>1, <2>2, NeighbourJoins
  <2> QED BY <1>2, <2>2, <2>3 DEF Room
<1>4. Room(member)' BY <1>1, <1>2, <1>3, RoomsStay
<1>5. frontier' \in Seq(member') BY <1>2 DEF Grows
<1>6. ring' \in Seq(Int \X Int \X Int) /\ \A i \in DOMAIN ring' : \E m \in member' : adjacent(m, ring'[i])
  BY <1>2, RestOfTheRing DEF Take
<1> HIDE DEF x
<1> QED BY <1>1, <1>2, <1>4, <1>5, <1>6 DEF Grows

LEMMA PassGrows == ASSUME Grows, Pass PROVE Grows'
<1>1. loaded' = loaded /\ coords' = coords BY SameBuilding DEF Pass
<1>2. Room(member)' <=> Room(member) BY <1>1, RoomsStay DEF Pass
<1>3. member # {} BY DEF Pass, Grows
<1>4. ring' \in Seq(Int \X Int \X Int) /\ \A i \in DOMAIN ring' : \E m \in member : adjacent(m, ring'[i])
  BY RestOfTheRing DEF Pass
<1> QED BY <1>1, <1>2, <1>3, <1>4 DEF Pass, Grows

LEMMA CloseGrows == ASSUME Grows, NEW c \in coords, Close(c) PROVE Grows'
<1>1. loaded' = loaded /\ coords' = coords BY SameBuilding DEF Close
<1> QED BY <1>1 DEF Close, Grows

LEMMA FinishGrows == ASSUME Grows, Finish PROVE Grows'
<1>1. loaded' = loaded /\ coords' = coords BY SameBuilding DEF Finish
<1> QED BY <1>1 DEF Finish, Grows, gridDone

------------------------------------------------------------------------------
LEMMA CellsDoNotOverlap ==
  ASSUME NEW K, NEW J, K \cap J = {} PROVE within(K) \cap within(J) = {}
BY DEF within

LEMMA WithinEach ==
  ASSUME NEW K PROVE /\ within(K) \subseteq gridded
                     /\ \A c \in K : within({c}) \subseteq within(K)
BY DEF within

LEMMA RestIsOffTheGrid ==
  ASSUME NEW z \in rest PROVE z.gids \cap gridded = {}
BY DEF rest, zone, loose, dedicated, gridded

LEMMA RestIsApart ==
  ASSUME NEW y \in rest, NEW z \in rest, y # z PROVE y.gids \cap z.gids = {}
<1> DEFINE floor(l) == zone(<<l>>, loose(l))
           service(r, s) == zone(<<r, s>>, dedicated(r, s))
<1>1. \A x \in rest : (\E e \in Elements : x = floor(level(e)))
                      \/ \E e \in Elements : Reason[e] # "ordinary" /\ x = service(Reason[e], System[e])
  BY ZoningAssumption DEF rest
<1>2. ASSUME NEW l, NEW k, l # k PROVE floor(l).gids \cap floor(k).gids = {}
  BY <1>2 DEF zone, loose
<1>3. ASSUME NEW r, NEW s, NEW q, NEW t, r # q \/ s # t
      PROVE  service(r, s).gids \cap service(q, t).gids = {}
  BY <1>3 DEF zone, dedicated
<1>4. ASSUME NEW l, NEW r, NEW s, r # "ordinary"
      PROVE  floor(l).gids \cap service(r, s).gids = {}
  BY <1>4 DEF zone, loose, dedicated
<1> HIDE DEF floor, service
<1> QED BY <1>1, <1>2, <1>3, <1>4

(* A step that leaves the plan and the finished cells alone.                *)
LEMMA NothingNewCovers ==
  ASSUME Covers, loaded' = loaded, plan' = plan, claimed \ member \subseteq claimed' \ member',
         claimed' \ member' \subseteq claimed \ member, gridDone => gridDone'
  PROVE  Covers'
<1>1. claimed' \ member' = claimed \ member /\ rest' = rest BY SameBuilding
<1>2. \A cells : within(cells)' = within(cells) BY SameBuilding
<1>3. ASSUME NEW z, GridZone(z) PROVE GridZone(z)'
  <2>1. PICK cells \in SUBSET (claimed \ member) : Room(cells) /\ z.gids = within(cells)
    BY <1>3 DEF GridZone
  <2>2. Room(cells)' /\ z.gids = within(cells)' BY <2>1, <1>2, RoomsStay
  <2> QED BY <1>1, <2>1, <2>2 DEF GridZone
<1>4. \A c \in claimed' \ member' : \E z \in plan' : within({c})' \subseteq z.gids
  BY <1>1, <1>2 DEF Covers
<1>5. \A z \in plan' : GridZone(z)' \/ (gridDone' /\ z \in rest')
  BY <1>1, <1>3 DEF Covers
<1> QED BY <1>4, <1>5 DEF Covers

LEMMA CloseCovers == ASSUME IInv, NEW c \in coords, Close(c) PROVE Covers'
<1>0. PICK new, old : /\ new = zone(merged(c, Cardinality(member) - 1), within(member))
                    /\ old = member
  OBVIOUS
<1>1. /\ loaded' = loaded /\ claimed' = claimed /\ member' = {} /\ plan' = plan \cup {new}
      /\ ~gridDone /\ member # {} /\ member \subseteq claimed
  BY <1>0 DEF Close, gridDone, IInv, Grows
<1>2. new.gids = within(old) BY <1>0 DEF zone
<1>3. \A cells : within(cells)' = within(cells) BY <1>1, SameBuilding
<1>4. \A z \in plan : GridZone(z) BY <1>1 DEF IInv, Covers
<1>5. ASSUME NEW z \in plan PROVE GridZone(z)' /\ z.gids \cap new.gids = {}
  <2>1. PICK cells \in SUBSET (claimed \ member) : Room(cells) /\ z.gids = within(cells)
    BY <1>4 DEF GridZone
  <2>2. Room(cells)' /\ z.gids = within(cells)' BY <2>1, <1>1, <1>3, RoomsStay
  <2>3. within(cells) \cap within(old) = {} BY <1>0, CellsDoNotOverlap
  <2>4. cells \in SUBSET (claimed' \ member') BY <1>1
  <2> QED BY <1>2, <2>1, <2>2, <2>3, <2>4 DEF GridZone
<1>6. GridZone(new)'
  <2>1. Room(old) /\ old \in SUBSET (claimed' \ member') BY <1>0, <1>1 DEF IInv, Grows
  <2>2. Room(old)' /\ new.gids = within(old)' BY <1>1, <1>2, <1>3, <2>1, RoomsStay
  <2> QED BY <2>1, <2>2 DEF GridZone
<1>7. ASSUME NEW d \in claimed' \ member' PROVE \E z \in plan' : within({d})' \subseteq z.gids
  <2>1. CASE d \in old BY <1>1, <1>2, <1>3, <2>1, WithinEach
  <2>2. CASE d \notin old BY <1>0, <1>1, <1>3, <2>2 DEF IInv, Covers
  <2> QED BY <2>1, <2>2
<1>8. \A y, z \in plan' : y # z => y.gids \cap z.gids = {}
  BY <1>1, <1>5 DEF IInv, Covers
<1>9. \A z \in plan' : GridZone(z)' BY <1>1, <1>5, <1>6
<1> QED BY <1>7, <1>8, <1>9 DEF Covers

LEMMA FinishCovers == ASSUME IInv, Finish PROVE Covers'
<1>1. /\ loaded' = loaded /\ claimed' = claimed /\ member' = member /\ plan' = plan \cup rest
      /\ gridDone /\ rest' = rest /\ coords' = coords
  BY SameBuilding DEF Finish
<1>2. gridDone' BY <1>1 DEF gridDone
<1>3. \A cells : within(cells)' = within(cells) BY <1>1, SameBuilding
<1>4. ASSUME NEW z, GridZone(z) PROVE GridZone(z)' /\ z.gids \subseteq gridded
  <2>1. PICK cells \in SUBSET (claimed \ member) : Room(cells) /\ z.gids = within(cells)
    BY <1>4 DEF GridZone
  <2>2. Room(cells)' /\ z.gids = within(cells)' BY <2>1, <1>1, <1>3, RoomsStay
  <2> QED BY <1>1, <2>1, <2>2, WithinEach DEF GridZone
<1>5. \A z \in plan' : GridZone(z)' \/ z \in rest' BY <1>1, <1>4 DEF IInv, Covers
<1>6. \A c \in claimed' \ member' : \E z \in plan' : within({c})' \subseteq z.gids
  BY <1>1, <1>3 DEF IInv, Covers
<1>7. ASSUME NEW y \in plan', NEW z \in plan', y # z PROVE y.gids \cap z.gids = {}
  <2>1. CASE y \in plan /\ z \in plan BY <1>7, <2>1 DEF IInv, Covers
  <2>2. CASE y \in rest /\ z \in rest BY <1>7, <2>2, RestIsApart
  <2>3. CASE y \in plan /\ y \notin rest /\ z \in rest
    BY <1>4, <2>3, RestIsOffTheGrid DEF IInv, Covers
  <2>4. CASE z \in plan /\ z \notin rest /\ y \in rest
    BY <1>4, <2>4, RestIsOffTheGrid DEF IInv, Covers
  <2> QED BY <1>1, <1>7, <2>1, <2>2, <2>3, <2>4
<1> QED BY <1>2, <1>5, <1>6, <1>7 DEF Covers

LEMMA PlanKeeps ==
  ASSUME IInv, PlanStep PROVE IInv'
<1>1. loaded' = loaded BY PlanningMovesNothing
<1>2. Grows'
  BY OpenGrows, TurnGrows, TakeGrows, PassGrows, CloseGrows, FinishGrows DEF PlanStep, IInv
<1>3. CASE \E c \in coords : Open(c)
  <2>1. PICK c \in coords : Open(c) BY <1>3
  <2>2. claimed' \ member' = claimed \ member /\ plan' = plan /\ ~gridDone
    BY <2>1 DEF Open, first, IInv, Grows, gridDone
  <2> QED BY <1>1, <1>2, <2>2, NothingNewCovers DEF IInv
<1>4. CASE Turn \/ Pass
  <2>1. claimed' \ member' = claimed \ member /\ plan' = plan /\ ~gridDone
    BY <1>4 DEF Turn, growing, Pass, IInv, Grows, gridDone
  <2> QED BY <1>1, <1>2, <2>1, NothingNewCovers DEF IInv
<1>5. CASE Take
  <2>1. claimed' \ member' = claimed \ member /\ plan' = plan /\ ~gridDone
    BY <1>5 DEF Take, joins, IInv, Grows, gridDone
  <2> QED BY <1>1, <1>2, <2>1, NothingNewCovers DEF IInv
<1>6. CASE \E c \in coords : Close(c) BY <1>2, <1>6, CloseCovers DEF IInv
<1>7. CASE Finish BY <1>2, <1>7, FinishCovers DEF IInv
<1> QED BY <1>3, <1>4, <1>5, <1>6, <1>7 DEF PlanStep

LEMMA StartsEmpty == Init => IInv
<1> SUFFICES ASSUME Init PROVE IInv OBVIOUS
<1>1. loaded \in [Elements -> Int \X Int \X Int]
  BY ZoningAssumption DEF Init, InitPlan
<1> QED BY <1>1 DEF Init, InitPlan, IInv, Grows, Covers

LEMMA PlanHolds == Spec => []IInv
<1>1. IInv /\ [Next]_vars => IInv'
  <2> SUFFICES ASSUME IInv, [Next]_vars PROVE IInv' OBVIOUS
  <2>1. CASE PlanStep BY <2>1, PlanKeeps
  <2>2. CASE UNCHANGED <<loaded, planning>>
    <3>1. /\ loaded' = loaded /\ claimed' = claimed /\ member' = member /\ plan' = plan
          /\ ring' = ring /\ frontier' = frontier /\ coords' = coords
      BY <2>2, SameBuilding DEF planning
    <3>2. Room(member)' <=> Room(member) BY <3>1, RoomsStay
    <3>3. Grows' BY <3>1, <3>2 DEF IInv, Grows
    <3>4. gridDone => gridDone' BY <3>1 DEF gridDone
    <3> QED BY <3>1, <3>3, <3>4, NothingNewCovers DEF IInv
  <2> QED BY <2>1, <2>2 DEF Next, vars, Resolve, Arbitrate
<1> QED BY <1>1, StartsEmpty, PTL DEF Spec

(* Whatever the building: no element is ever in two zones, and a finished   *)
(* plan has every element in one.                                           *)
THEOREM PlanIsAPartition == Spec => []EveryElementInOneZone
<1>1. IInv => EveryElementInOneZone
  <2> SUFFICES ASSUME IInv, planned, NEW e \in Elements
               PROVE  \E z \in plan : e \in z.gids
    BY DEF EveryElementInOneZone, IInv, Covers
  <2>1. CASE e \in gridded
    <3>1. cell(e) \in claimed \ member BY <2>1 DEF planned, gridDone, coords
    <3>2. e \in within({cell(e)}) BY <2>1 DEF within
    <3> QED BY <3>1, <3>2 DEF IInv, Covers
  <2>2. CASE e \in Boxless /\ Reason[e] = "ordinary"
    <3>1. zone(<<level(e)>>, loose(level(e))) \in plan BY <2>2 DEF planned, rest
    <3>2. e \in zone(<<level(e)>>, loose(level(e))).gids BY <2>2 DEF zone, loose
    <3> QED BY <3>1, <3>2
  <2>3. CASE Reason[e] # "ordinary"
    <3>1. zone(<<Reason[e], System[e]>>, dedicated(Reason[e], System[e])) \in plan
      BY <2>3 DEF planned, rest
    <3>2. e \in zone(<<Reason[e], System[e]>>, dedicated(Reason[e], System[e])).gids
      BY DEF zone, dedicated
    <3> QED BY <3>1, <3>2
  <2> QED BY <2>1, <2>2, <2>3 DEF gridded
<1> QED BY <1>1, PlanHolds, PTL

(* Whatever the building: a zone of the grid is whole cells that hang       *)
(* together, over the ceiling only if it is one cell.                       *)
THEOREM ZonesAreWholeRooms == Spec => []ZonesAreRooms
<1>1. IInv => ZonesAreRooms
  <2> SUFFICES ASSUME IInv, NEW z \in plan, {cell(e) : e \in z.gids \cap gridded} # {}
               PROVE  LET cells == {cell(e) : e \in z.gids \cap gridded} IN
                      /\ z.gids = within(cells)
                      /\ joined(cells)
                      /\ Cardinality(cells) > 1 => Cardinality(z.gids) <= MaxElements
    BY DEF ZonesAreRooms
  <2>1. z \notin rest BY RestIsOffTheGrid
  <2>2. PICK cells \in SUBSET coords : Room(cells) /\ z.gids = within(cells)
    BY <2>1 DEF IInv, Covers, GridZone, Grows
  <2>3. {cell(e) : e \in z.gids \cap gridded} = cells BY <2>2 DEF within, coords
  <2>4. Cardinality(cells) > 1 => Cardinality(within(cells)) <= MaxElements
    <3>1. CASE \E c \in cells : cells = {c}
      <4>1. Cardinality(cells) = 1 BY <3>1, FS_Singleton
      <4> QED BY <4>1
    <3>2. CASE size(cells) <= MaxElements BY <3>2 DEF size
    <3> QED BY <2>2, <3>1, <3>2 DEF Room
  <2> QED BY <2>2, <2>3, <2>4 DEF Room
<1> QED BY <1>1, PlanHolds, PTL

------------------------------------------------------------------------------
Commit(zones) == [zone : {z.key : z \in zones}, element : Elements, vector : Vectors]

LEMMA CommitsOfAGrowingPlan ==
  ASSUME NEW K, NEW J, K \subseteq J, NEW s \in Seq(Commit(K)) PROVE s \in Seq(Commit(J))
<1>1. Commit(K) \subseteq Commit(J) BY DEF Commit
<1> HIDE DEF Commit
<1>2. s \in [1..Len(s) -> Commit(K)] /\ Len(s) \in Nat OBVIOUS
<1>3. s \in [1..Len(s) -> Commit(J)] BY <1>1, <1>2
<1> QED BY <1>2, <1>3

LEMMA ZonesHoldElements == ASSUME Covers, NEW z \in plan PROVE z.gids \subseteq Elements
<1>1. CASE GridZone(z)
  <2>1. PICK cells : z.gids = within(cells) BY <1>1 DEF GridZone, Grows
  <2> QED BY <2>1 DEF within, gridded
<1>2. CASE z \in rest
  <2>1. \A l : loose(l) \subseteq Elements BY ZoningAssumption DEF loose
  <2>2. \A r, s : dedicated(r, s) \subseteq Elements BY DEF dedicated
  <2>3. (\E l : z.gids = loose(l)) \/ (\E r, s : z.gids = dedicated(r, s))
    BY <1>2 DEF rest, zone
  <2> QED BY <2>1, <2>2, <2>3
<1> QED BY <1>1, <1>2 DEF Covers

LEMMA MovesAreCommits ==
  ASSUME IInv, commits \in Seq(Commit(plan)), NEW c \in clashes, NEW e \in Elements,
         NEW v \in Vectors, Resolve(c, e, v) \/ Arbitrate(c, e, v)
  PROVE  commits' \in Seq(Commit(plan))
<1>1. PICK z \in plan : commits' = Append(commits, [zone |-> z.key, element |-> e, vector |-> v])
  BY DEF Resolve, Arbitrate, commit, owning
<1>2. [zone |-> z.key, element |-> e, vector |-> v] \in Commit(plan) BY DEF Commit
<1> QED BY <1>1, <1>2

LEMMA PlanOnlyGrows == ASSUME PlanStep PROVE plan \subseteq plan'
BY DEF PlanStep, Open, Close, Turn, Take, Pass, Finish

(* Every zone, commit and loop variable of the planning keeps its type.     *)
THEOREM BuildingTypeCorrect == Spec => []TypeOK
<1> DEFINE Filed == commits \in Seq(Commit(plan))
           Placed == \A e \in Elements : loaded[e] \in Spots[e]
<1>1. Init => Filed /\ Placed
  BY DEF Init, InitPlan, Commit
<1>2. ASSUME IInv, Filed, Placed, [Next]_vars PROVE Filed' /\ Placed'
  <2>1. CASE PlanStep /\ UNCHANGED commits
    <3>1. commits \in Seq(Commit(plan')) BY <1>2, <2>1, PlanOnlyGrows, CommitsOfAGrowingPlan
    <3> QED BY <1>2, <2>1, <3>1, PlanningMovesNothing DEF Commit
  <2>2. CASE \E c \in clashes, e \in Elements, v \in Vectors : Resolve(c, e, v) \/ Arbitrate(c, e, v)
    <3>1. commits' \in Seq(Commit(plan)) BY <1>2, <2>2, MovesAreCommits
    <3>2. plan' = plan /\ loaded' = loaded BY <2>2 DEF Resolve, Arbitrate, planning
    <3> QED BY <1>2, <3>1, <3>2 DEF Commit
  <2>3. CASE UNCHANGED vars BY <1>2, <2>3 DEF vars, planning, Commit
  <2> QED BY <1>2, <2>1, <2>2, <2>3 DEF Next
<1>3. IInv /\ Filed /\ Placed => TypeOK
  BY ZonesHoldElements DEF IInv, Grows, TypeOK, PlanTypeOK, Commit
<1> HIDE DEF Filed, Placed
<1> QED BY <1>1, <1>2, <1>3, PlanHolds, PTL DEF Spec

------------------------------------------------------------------------------
(* The offsets on a branch accumulate, and one move is its own sum.         *)
LEMMA SumOfOne ==
  ASSUME NEW i, NEW k, commits[i].vector[k] \in Int
  PROVE  MapThenSumSet(LAMBDA j : commits[j].vector[k], {i}) = commits[i].vector[k]
<1> DEFINE turn(sums, s) ==
      IF s = {} THEN 0
      ELSE commits[CHOOSE x \in s : TRUE].vector[k] + sums[s \ {CHOOSE x \in s : TRUE}]
    sums == CHOOSE f : f = [s \in SUBSET {i} |-> turn(f, s)]
    one == [s \in SUBSET {i} |-> IF s = {} THEN 0 ELSE commits[i].vector[k]]
<1>1. one = [s \in SUBSET {i} |-> turn(one, s)]
  <2>1. ASSUME NEW s \in SUBSET {i} PROVE one[s] = turn(one, s)
    <3>1. CASE s = {} BY <3>1
    <3>2. CASE s = {i}
      <4>1. (CHOOSE x \in s : TRUE) = i BY <3>2
      <4>2. one[s \ {i}] = 0 BY <3>2
      <4>3. one[s] = commits[i].vector[k] BY <3>2
      <4> QED BY <3>2, <4>1, <4>2, <4>3
    <3> QED BY <3>1, <3>2
  <2> HIDE DEF turn
  <2> QED BY <2>1
<1>2. sums = [s \in SUBSET {i} |-> turn(sums, s)]
  <2> HIDE DEF one, turn
  <2> QED BY <1>1
<1>3. sums[{}] = 0
  <2> HIDE DEF sums
  <2> QED BY <1>2
<1>4. sums[{i}] = commits[i].vector[k]
  <2>1. (CHOOSE x \in {i} : TRUE) = i OBVIOUS
  <2>2. turn(sums, {i}) = commits[i].vector[k]
    <3> HIDE DEF sums
    <3> QED BY <1>3, <2>1
  <2> HIDE DEF turn, sums
  <2> QED BY <1>2, <2>2
<1>5. MapThenSumSet(LAMBDA j : commits[j].vector[k], {i}) = sums[{i}]
  BY DEF MapThenSumSet, MapThenFoldSet
<1> QED BY <1>4, <1>5

LEMMA OffsetOfOne ==
  ASSUME NEW y, NEW e, NEW i,
         {j \in DOMAIN commits : commits[j].zone = y.key /\ commits[j].element = e} = {i},
         commits[i].vector \in Int \X Int \X Int
  PROVE  offset_for(y, e) = commits[i].vector
<1>1. commits[i].vector[1] \in Int /\ commits[i].vector[2] \in Int /\ commits[i].vector[3] \in Int
  OBVIOUS
<1>2. /\ MapThenSumSet(LAMBDA j : commits[j].vector[1], {i}) = commits[i].vector[1]
      /\ MapThenSumSet(LAMBDA j : commits[j].vector[2], {i}) = commits[i].vector[2]
      /\ MapThenSumSet(LAMBDA j : commits[j].vector[3], {i}) = commits[i].vector[3]
  BY <1>1, SumOfOne
<1> QED BY <1>2 DEF offset_for

Points == Int \X Int \X Int

(* The kit's distance is a distance: it has no direction, and a vector      *)
(* brings two points no nearer than its own length.                         *)
LEMMA GapIsADistance ==
  ASSUME NEW p \in Points, NEW q \in Points, NEW v \in Points
  PROVE  /\ gap(p, q) \in Nat /\ travel(v) \in Nat
         /\ gap(p, q) = gap(q, p)
         /\ gap(p, q) <= gap(plus(p, v), q) + travel(v)
<1> DEFINE near(i) == abs(p[i] - q[i])
           far(i) == abs((p[i] + v[i]) - q[i])
           own(i) == abs(v[i] - 0)
<1>1. ASSUME NEW i \in {1, 2, 3}
      PROVE  /\ near(i) \in Nat /\ far(i) \in Nat /\ own(i) \in Nat
             /\ near(i) = abs(q[i] - p[i]) /\ near(i) <= far(i) + own(i)
  <2>1. PICK x \in Int, y \in Int, d \in Int : x = p[i] /\ y = q[i] /\ d = v[i] BY DEF Points
  <2>2. /\ abs(x - y) \in Nat /\ abs((x + d) - y) \in Nat /\ abs(d - 0) \in Nat
        /\ abs(x - y) = abs(y - x) /\ abs(x - y) <= abs((x + d) - y) + abs(d - 0)
    BY DEF abs
  <2> QED BY <2>1, <2>2
<1>2. gap(p, q) = larger(larger(near(1), near(2)), near(3)) BY DEF gap
<1>3. gap(q, p) = larger(larger(near(1), near(2)), near(3)) BY <1>1 DEF gap
<1>4. gap(plus(p, v), q) = larger(larger(far(1), far(2)), far(3)) BY DEF gap, plus
<1>5. travel(v) = larger(larger(own(1), own(2)), own(3)) BY DEF gap, travel
<1> HIDE DEF near, far, own
<1> QED BY <1>1, <1>2, <1>3, <1>4, <1>5 DEF larger

LEMMA SeverityIsBounded ==
  ASSUME NEW e \in Elements, NEW f \in Elements, NEW p \in Points, NEW q \in Points
  PROVE  /\ severity(e, p, f, q) \in 0..Contact
         /\ gap(p, q) > Widest => severity(e, p, f, q) = 0
         /\ severity(e, p, f, q) = severity(f, q, e, p)
<1>1. gap(p, q) \in Nat /\ gap(p, q) = gap(q, p) BY GapIsADistance
<1>2. MinGap[e][f] \in 0..Widest /\ MinGap[e][f] = MinGap[f][e] /\ Widest \in Nat
  BY BuildingAssumption
<1> QED BY <1>1, <1>2 DEF severity, Contact

LEMMA VectorsArePoints == Vectors \subseteq Points /\ \A p, v \in Points : plus(p, v) \in Points
BY BuildingAssumption DEF Points, plus

LEMMA OriginsArePoints ==
  ASSUME loaded \in [Elements -> Points], NEW e \in Elements PROVE origin(e) \in Points
<1>1. loaded[e][1] \in Int /\ loaded[e][2] \in Int /\ loaded[e][3] \in Int BY DEF Points
<1>2. Storey * loaded[e][3] \in Int BY <1>1, BuildingAssumption
<1> QED BY <1>1, <1>2 DEF origin, level, Points

(* The plan is made, and the commits are of its zones.                     *)
Standing == loaded \in [Elements -> Points] /\ planned /\ EveryElementInOneZone
            /\ commits \in Seq(Commit(plan))

LEMMA ZoneOfIsTheZone ==
  ASSUME Standing, NEW e \in Elements
  PROVE  zoneOf(e) \in plan /\ e \in zoneOf(e).gids /\ \A z \in plan : e \in z.gids => z = zoneOf(e)
BY DEF Standing, EveryElementInOneZone, zoneOf

LEMMA MovesAreFinite ==
  ASSUME Standing, NEW e
  PROVE  /\ IsFiniteSet(moves(e)) /\ Cardinality(moves(e)) \in Nat
         /\ \A i \in moves(e) : commits[i] \in Commit(plan) /\ commits[i].vector \in Points
         /\ moves(e) # {} /\ Cardinality(moves(e)) < 2 => \E i : moves(e) = {i}
<1>1. Len(commits) \in Nat /\ DOMAIN commits = 1..Len(commits)
      /\ \A i \in DOMAIN commits : commits[i] \in Commit(plan)
  <2> HIDE DEF Commit
  <2> QED BY DEF Standing
<1>2. moves(e) \subseteq 1..Len(commits) BY <1>1 DEF moves
<1>3. IsFiniteSet(1..Len(commits)) BY <1>1, FS_Interval
<1>4. IsFiniteSet(moves(e)) /\ Cardinality(moves(e)) \in Nat
  BY <1>2, <1>3, FS_Subset, FS_CardinalityType
<1>5. moves(e) # {} => Cardinality(moves(e)) # 0 BY <1>4, FS_EmptySet
<1>6. moves(e) # {} /\ Cardinality(moves(e)) < 2 => Cardinality(moves(e)) = 1 BY <1>4, <1>5
<1>7. Cardinality(moves(e)) = 1 => \E i : moves(e) = {i} BY <1>4, FS_Singleton
<1>8. \A i \in DOMAIN commits : commits[i].vector \in Points
  BY <1>1, VectorsArePoints DEF Commit
<1> HIDE DEF moves
<1>9. \A i \in moves(e) : commits[i] \in Commit(plan) /\ commits[i].vector \in Points
  BY <1>1, <1>2, <1>8
<1> QED BY <1>4, <1>6, <1>7, <1>9

(* Where an element stands is a point, and its zone's branch says where.    *)
LEMMA WhereItStands ==
  ASSUME Standing, NEW e \in Elements, Cardinality(moves(e)) < 2
  PROVE  /\ at(e) \in Points
         /\ moves(e) # {} /\ filedAtHome(e) => at(e) = plus(origin(e), offset_for(zoneOf(e), e))
<1>1. origin(e) \in Points BY OriginsArePoints DEF Standing
<1>2. CASE moves(e) = {} BY <1>1, <1>2 DEF at
<1>3. CASE moves(e) # {}
  <2>1. PICK i : moves(e) = {i} BY <1>3, MovesAreFinite
  <2>2. commits[i].vector \in Points BY <2>1, MovesAreFinite
  <2>3. (CHOOSE j \in moves(e) : TRUE) = i BY <2>1
  <2>4. at(e) = plus(origin(e), commits[i].vector) BY <2>1, <2>3 DEF at
  <2>5. ASSUME filedAtHome(e) PROVE offset_for(zoneOf(e), e) = commits[i].vector
    <3>1. \A j \in DOMAIN commits : commits[j].element = e => commits[j].zone = zoneOf(e).key
      BY <2>5 DEF filedAtHome, moves
    <3>2. {j \in DOMAIN commits : commits[j].zone = zoneOf(e).key /\ commits[j].element = e} = {i}
      BY <2>1, <3>1 DEF moves
    <3> HIDE DEF filedAtHome
      <3> QED BY <2>2, <3>2, OffsetOfOne DEF Points
  <2> QED BY <1>1, <2>2, <2>4, <2>5, VectorsArePoints
<1> QED BY <1>2, <1>3

LEMMA NearIsInTheBuffer ==
  ASSUME Standing, NEW z \in plan, NEW e \in boxed(z.gids), NEW f \in boxed(Elements \ z.gids),
         e \in Elements, gap(origin(e), origin(f)) <= Buffer
  PROVE  f \in buffer_gids(z)
<1>1. origin(e) \in Points /\ origin(f) \in Points BY OriginsArePoints DEF Standing, boxed
<1> DEFINE p == origin(e)
           q == origin(f)
<1>2. PICK x1 \in Int, x2 \in Int, x3 \in Int : x1 = p[1] /\ x2 = p[2] /\ x3 = p[3]
  BY <1>1 DEF Points
<1>3. PICK y1 \in Int, y2 \in Int, y3 \in Int : y1 = q[1] /\ y2 = q[2] /\ y3 = q[3]
  BY <1>1 DEF Points
<1>4. larger(larger(abs(x1 - y1), abs(x2 - y2)), abs(x3 - y3)) <= Buffer
  BY <1>2, <1>3 DEF gap
<1>5. /\ x1 - Buffer <= y1 /\ y1 <= x1 + Buffer
      /\ x2 - Buffer <= y2 /\ y2 <= x2 + Buffer
      /\ x3 - Buffer <= y3 /\ y3 <= x3 + Buffer
  BY <1>4, BuildingAssumption DEF larger, abs
<1>6. \A i \in 1..3 : p[i] - Buffer <= q[i] /\ q[i] <= p[i] + Buffer
  <2> HIDE DEF p, q
  <2> QED BY <1>2, <1>3, <1>5
<1>7. \A i \in 1..3 : \E lo, hi \in boxed(z.gids) :
        origin(lo)[i] - Buffer <= origin(f)[i] /\ origin(f)[i] <= origin(hi)[i] + Buffer
  <2> HIDE DEF boxed
  <2> QED BY <1>6
<1> QED BY <1>7 DEF buffer_gids

------------------------------------------------------------------------------
(* What the rules ask is met by two that are out of each other's range.     *)
LEMMA OutOfRangeIsClear ==
  ASSUME NEW e \in Elements, NEW f \in Elements, loaded \in [Elements -> Points],
         NEW v \in Points, NEW p \in Points, ~in_range(e, v, p)
  PROVE  severity(e, plus(origin(e), v), f, p) = 0
<1>1. origin(e) \in Points /\ plus(origin(e), v) \in Points
  BY OriginsArePoints, VectorsArePoints
<1> DEFINE was == gap(origin(e), p)
           is == gap(plus(origin(e), v), p)
<1>2. was \in Nat /\ travel(v) \in Nat /\ was <= is + travel(v) BY <1>1, GapIsADistance
<1>3. is \in Nat BY <1>1, GapIsADistance
<1>4. was > Widest + travel(v) BY <1>2, BuildingAssumption DEF in_range
<1>5. is > Widest
  <2> HIDE DEF was, is
  <2> QED BY <1>2, <1>3, <1>4, BuildingAssumption
<1> QED BY <1>1, <1>5, SeverityIsBounded

LEMMA ClearOfOneThatStays ==
  ASSUME Standing, NEW e \in boxed(Elements), NEW f \in boxed(Elements), NEW v \in Vectors,
         accepts(zoneOf(e), e, v), f \in scope(zoneOf(e), e)
  PROVE  \/ severity(e, plus(origin(e), v), f, origin(f)) = 0
         \/ severity(e, origin(e), f, origin(f)) = Contact
<1>1. /\ e \in Elements /\ f \in Elements /\ v \in Points /\ loaded \in [Elements -> Points]
      /\ origin(e) \in Points /\ origin(f) \in Points
  BY OriginsArePoints, VectorsArePoints DEF boxed, Standing
<1>2. plus(origin(e), v) \in Points BY <1>1, VectorsArePoints
<1>3. CASE ~in_range(e, v, origin(f)) BY <1>1, <1>3, OutOfRangeIsClear
<1>4. CASE in_range(e, v, origin(f))
  <2>1. severity(e, plus(origin(e), v), f, origin(f)) \in {0, Contact}
    BY <1>4 DEF accepts, integrity
  <2>2. severity(e, plus(origin(e), v), f, origin(f)) <= severity(e, origin(e), f, origin(f))
    BY <1>4 DEF accepts, geometry, noWorse
  <2>3. severity(e, origin(e), f, origin(f)) \in 0..Contact /\ Contact \in Nat
    BY <1>1, SeverityIsBounded, BuildingAssumption DEF Contact
  <2> QED BY <2>1, <2>2, <2>3
<1> QED BY <1>3, <1>4

LEMMA ClearOfAMovedNeighbour ==
  ASSUME Standing, NEW e \in boxed(Elements), NEW f \in boxed(Elements), e # f,
         NEW v \in Vectors, accepts(zoneOf(e), e, v), moves(e) = {},
         f \in buffer_gids(zoneOf(e)), zoneOf(f) # zoneOf(e),
         moves(f) # {}, Cardinality(moves(f)) < 2, filedAtHome(f), standClear(f, e)
  PROVE  \/ severity(e, plus(origin(e), v), f, at(f)) = 0
         \/ severity(e, origin(e), f, origin(f)) = Contact
<1>1. /\ e \in Elements /\ f \in Elements /\ v \in Points /\ loaded \in [Elements -> Points]
      /\ origin(e) \in Points /\ origin(f) \in Points /\ at(f) \in Points
  BY OriginsArePoints, VectorsArePoints, WhereItStands DEF boxed, Standing
<1>2. plus(origin(e), v) \in Points BY <1>1, VectorsArePoints
<1>3. zoneOf(f) \in neighbours_of(zoneOf(e)) /\ f \in (zoneOf(f).gids \cap buffer_gids(zoneOf(e))) \ {e}
  BY <1>1, ZoneOfIsTheZone DEF neighbours_of
<1>4. at(f) = plus(origin(f), offset_for(zoneOf(f), f)) BY <1>1, WhereItStands
<1>5. in_range(e, v, at(f)) => noWorse(e, v, f, at(f))
  BY <1>3, <1>4 DEF accepts, boundary
<1>6. CASE ~in_range(e, v, at(f)) BY <1>1, <1>6, OutOfRangeIsClear
<1>7. CASE in_range(e, v, at(f))
  <2>1. severity(e, plus(origin(e), v), f, at(f)) <= severity(e, origin(e), f, at(f))
    BY <1>5, <1>7 DEF noWorse
  <2>2. severity(e, plus(origin(e), v), f, at(f)) \in 0..Contact
    BY <1>1, <1>2, SeverityIsBounded
  <2>3. at(e) = origin(e) BY DEF at
  <2>4. \/ severity(e, origin(e), f, at(f)) = 0
        \/ severity(e, origin(e), f, origin(f)) = Contact
    BY <1>1, <2>3, SeverityIsBounded DEF standClear
  <2> QED BY <2>1, <2>2, <2>4, BuildingAssumption DEF Contact
<1> QED BY <1>6, <1>7

LEMMA ApartIsMutual ==
  ASSUME loaded \in [Elements -> Points], NEW e \in Elements, NEW f \in Elements
  PROVE  apart(e, f) <=> apart(f, e)
<1>1. gap(origin(e), origin(f)) = gap(origin(f), origin(e)) BY OriginsArePoints, GapIsADistance
<1> QED BY <1>1 DEF apart

(* A move both monitors of the mover's zone accept ends it clear.           *)
LEMMA MoveEndsClear ==
  ASSUME Standing, MovedElementsStandClear,
         NEW e \in boxed(Elements), NEW f \in boxed(Elements), e # f,
         NEW v \in Vectors, accepts(zoneOf(e), e, v), moves(e) = {},
         Cardinality(moves(f)) < 2, filedAtHome(f), apart(e, f) \/ matesOneStays(e, f)
  PROVE  \/ severity(e, plus(origin(e), v), f, at(f)) = 0
         \/ severity(e, origin(e), f, origin(f)) = Contact
<1>1. e \in Elements /\ f \in Elements /\ e \notin Boxless /\ f \notin Boxless
      /\ loaded \in [Elements -> Points] BY DEF boxed, Standing
<1>2. zoneOf(e) \in plan /\ e \in boxed(zoneOf(e).gids) /\ f \in zoneOf(f).gids
  BY <1>1, ZoneOfIsTheZone DEF boxed
<1>3. apart(e, f) => f \in buffer_gids(zoneOf(e))
  <2> SUFFICES ASSUME apart(e, f) PROVE f \in buffer_gids(zoneOf(e)) OBVIOUS
  <2>1. f \notin zoneOf(e).gids BY <1>1, <1>2, ZoneOfIsTheZone DEF apart
  <2>2. f \in boxed(Elements \ zoneOf(e).gids) BY <1>1, <2>1 DEF boxed
  <2> QED BY <1>1, <1>2, <2>2, NearIsInTheBuffer DEF apart
<1>4. CASE moves(f) = {}
  <2>1. at(f) = origin(f) BY <1>4 DEF at
  <2>2. f \in scope(zoneOf(e), e) BY <1>1, <1>2, <1>3 DEF scope, matesOneStays, boxed
  <2> QED BY <2>1, <2>2, ClearOfOneThatStays
<1>5. CASE moves(f) # {}
  <2>1. apart(e, f) BY <1>5 DEF matesOneStays
  <2>2. Cardinality(moves(e)) < 2 BY FS_EmptySet
  <2>3. filedAtHome(e) BY DEF filedAtHome
  <2>4. movedPair(f, e) BY <1>5, <2>2 DEF movedPair
  <2>5. standClear(f, e) BY <1>1, <2>1, <2>3, <2>4, ApartIsMutual DEF MovedElementsStandClear, Standing
  <2>6. zoneOf(f) # zoneOf(e) BY <2>1 DEF apart
  <2> QED BY <1>3, <1>5, <2>1, <2>5, <2>6, ClearOfAMovedNeighbour
<1> QED BY <1>4, <1>5

------------------------------------------------------------------------------
LEMMA SamePlanSameGround ==
  ASSUME loaded' = loaded, plan' = plan
  PROVE  /\ \A e : origin(e)' = origin(e) /\ zoneOf(e)' = zoneOf(e)
         /\ \A e, f : apart(e, f)' <=> apart(e, f)
BY DEF origin, level, zoneOf, apart

LEMMA OthersStayPut ==
  ASSUME Standing, loaded' = loaded, plan' = plan, NEW r, commits' = Append(commits, r),
         NEW e, e # r.element
  PROVE  moves(e)' = moves(e) /\ at(e)' = at(e) /\ (filedAtHome(e)' => filedAtHome(e))
<1>1. commits \in Seq(Commit(plan)) BY DEF Standing
<1> HIDE DEF Commit
<1>2. Len(commits) \in Nat /\ DOMAIN commits = 1..Len(commits)
      /\ DOMAIN commits' = 1..Len(commits) + 1 /\ commits'[Len(commits) + 1] = r
      /\ \A i \in DOMAIN commits : commits'[i] = commits[i]
  BY <1>1
<1>3. moves(e)' = moves(e)
  <2>1. Len(commits) + 1 \notin moves(e)' BY <1>2 DEF moves
  <2>2. \A i \in DOMAIN commits' : i \in DOMAIN commits \/ i = Len(commits) + 1 BY <1>2
  <2>3. \A i \in DOMAIN commits : i \in DOMAIN commits' /\ (i \in moves(e)' <=> i \in moves(e))
    BY <1>2 DEF moves
  <2>4. moves(e)' \subseteq DOMAIN commits' /\ moves(e) \subseteq DOMAIN commits BY DEF moves
  <2> HIDE DEF moves
  <2> QED BY <2>1, <2>2, <2>3, <2>4
<1>4. moves(e) \subseteq DOMAIN commits BY DEF moves
<1>5. origin(e)' = origin(e) /\ zoneOf(e)' = zoneOf(e) BY SamePlanSameGround
<1>6. at(e)' = at(e)
  <2>1. CASE moves(e) = {} BY <1>3, <1>5, <2>1 DEF at
  <2>2. CASE moves(e) # {}
    <3>1. PICK i : i = (CHOOSE j \in moves(e) : TRUE) OBVIOUS
    <3>2. i \in DOMAIN commits BY <1>4, <2>2, <3>1
    <3>3. i = (CHOOSE j \in moves(e)' : TRUE) BY <1>3, <3>1
    <3>4. at(e) = plus(origin(e), commits[i].vector) BY <2>2, <3>1 DEF at
    <3>5. at(e)' = plus(origin(e)', commits'[i].vector) BY <1>3, <2>2, <3>3 DEF at
    <3> QED BY <1>2, <1>5, <3>2, <3>4, <3>5
  <2> QED BY <2>1, <2>2
<1>7. filedAtHome(e)' => filedAtHome(e)
  <2> SUFFICES ASSUME filedAtHome(e)', NEW i \in moves(e) PROVE commits[i].zone = zoneOf(e).key
    BY DEF filedAtHome
  <2>1. commits'[i].zone = zoneOf(e)'.key BY <1>3 DEF filedAtHome
  <2> QED BY <1>2, <1>4, <1>5, <2>1
<1> QED BY <1>3, <1>6, <1>7

LEMMA TheMover ==
  ASSUME Standing, loaded' = loaded, plan' = plan, NEW k, NEW e, NEW v,
         commits' = Append(commits, [zone |-> k, element |-> e, vector |-> v]),
         (Cardinality(moves(e)) < 2)'
  PROVE  /\ moves(e) = {} /\ moves(e)' # {}
         /\ at(e)' = plus(origin(e), v)
<1>1. commits \in Seq(Commit(plan)) BY DEF Standing
<1> HIDE DEF Commit
<1>2. PICK r : r = [zone |-> k, element |-> e, vector |-> v] OBVIOUS
<1>3. PICK n : n = Len(commits) + 1 OBVIOUS
<1>4. /\ n \in Nat /\ DOMAIN commits = 1..Len(commits) /\ DOMAIN commits' = 1..n
      /\ commits'[n] = r /\ n \notin DOMAIN commits
      /\ \A i \in DOMAIN commits : i \in DOMAIN commits' /\ commits'[i] = commits[i]
  BY <1>1, <1>2, <1>3
<1>5. n \in moves(e)' BY <1>2, <1>4 DEF moves
<1>6. n \notin moves(e) /\ moves(e) \subseteq moves(e)' BY <1>4 DEF moves
<1>7. IsFiniteSet(moves(e)')
  <2>1. IsFiniteSet(1..n) BY <1>4, FS_Interval
  <2>2. moves(e)' \subseteq 1..n BY <1>4 DEF moves
  <2> QED BY <2>1, <2>2, FS_Subset
<1>8. moves(e)' = {n}
  <2>1. Cardinality(moves(e)') \in Nat /\ Cardinality(moves(e)') # 0
    BY <1>5, <1>7, FS_CardinalityType, FS_EmptySet
  <2>2. Cardinality(moves(e)') = 1 BY <2>1
  <2>3. PICK i : moves(e)' = {i} BY <1>7, <2>2, FS_Singleton
  <2> QED BY <1>5, <2>3
<1>9. moves(e) = {} BY <1>6, <1>8
<1>10. (CHOOSE j \in moves(e)' : TRUE) = n BY <1>8
<1>11. at(e)' = plus(origin(e)', commits'[n].vector) BY <1>5, <1>10 DEF at
<1>12. origin(e)' = origin(e) BY SamePlanSameGround
<1> QED BY <1>2, <1>4, <1>5, <1>9, <1>11, <1>12

(* The step lemma: a move the zone of the mover accepts, filed anywhere.    *)
LEMMA CommitKeepsClear ==
  ASSUME Standing, MovedElementsStandClear, NEW k, NEW g \in Elements, NEW v \in Vectors,
         accepts(zoneOf(g), g, v), loaded' = loaded, plan' = plan,
         commits' = Append(commits, [zone |-> k, element |-> g, vector |-> v])
  PROVE  MovedElementsStandClear'
<1> SUFFICES ASSUME NEW e \in boxed(Elements), NEW f \in boxed(Elements), movedPair(e, f)',
                    filedAtHome(e)', filedAtHome(f)', apart(e, f)' \/ matesOneStays(e, f)'
             PROVE  standClear(e, f)'
  BY DEF MovedElementsStandClear, boxed
<1>1. e \in Elements /\ f \in Elements /\ e # f BY DEF boxed, movedPair
<1>2. /\ \A h \in Elements : origin(h)' = origin(h) /\ zoneOf(h)' = zoneOf(h)
      /\ apart(e, f)' <=> apart(e, f)
  BY SamePlanSameGround
<1>3. \A h \in Elements : h # g => moves(h)' = moves(h) /\ at(h)' = at(h) /\ (filedAtHome(h)' => filedAtHome(h))
  BY OthersStayPut
<1>4. standClear(e, f)' <=> \/ severity(e, at(e)', f, at(f)') = 0
                            \/ severity(e, origin(e), f, origin(f)) = Contact
  BY <1>1, <1>2 DEF standClear
<1>5. (Cardinality(moves(e)) < 2)' /\ (Cardinality(moves(f)) < 2)' /\ (moves(e) # {})'
  BY DEF movedPair
<1>6. loaded \in [Elements -> Points] BY DEF Standing
<1>7. CASE e # g /\ f # g
  <2>1. movedPair(e, f) /\ filedAtHome(e) /\ filedAtHome(f) /\ (apart(e, f) \/ matesOneStays(e, f))
    BY <1>1, <1>2, <1>3, <1>5, <1>7 DEF movedPair, matesOneStays
  <2>2. standClear(e, f) BY <2>1 DEF MovedElementsStandClear, Standing
  <2> QED BY <1>1, <1>3, <1>4, <1>7, <2>2 DEF standClear
<1>8. CASE e = g
  <2>1. moves(e) = {} /\ at(e)' = plus(origin(e), v) BY <1>5, <1>8, TheMover
  <2>2. moves(f)' = moves(f) /\ at(f)' = at(f) /\ filedAtHome(f) BY <1>1, <1>3, <1>8
  <2>3. Cardinality(moves(f)) < 2 BY <1>5, <2>2
  <2>4. apart(e, f) \/ matesOneStays(e, f) BY <1>1, <1>2, <2>2 DEF matesOneStays
  <2>5. \/ severity(e, plus(origin(e), v), f, at(f)) = 0
        \/ severity(e, origin(e), f, origin(f)) = Contact
    BY <1>1, <1>8, <2>1, <2>2, <2>3, <2>4, MoveEndsClear
  <2> QED BY <1>4, <2>1, <2>2, <2>5
<1>9. CASE f = g
  <2>1. moves(f) = {} /\ moves(f)' # {} /\ at(f)' = plus(origin(f), v) BY <1>5, <1>9, TheMover
  <2>2. moves(e)' = moves(e) /\ at(e)' = at(e) /\ filedAtHome(e) BY <1>1, <1>3, <1>9
  <2>3. Cardinality(moves(e)) < 2 BY <1>5, <2>2
  <2>4. apart(f, e) BY <1>1, <1>2, <1>6, <2>1, ApartIsMutual DEF matesOneStays
  <2>5. \/ severity(f, plus(origin(f), v), e, at(e)) = 0
        \/ severity(f, origin(f), e, origin(e)) = Contact
    BY <1>1, <1>9, <2>1, <2>2, <2>3, <2>4, MoveEndsClear
  <2>6. /\ origin(e) \in Points /\ origin(f) \in Points /\ at(e) \in Points
        /\ plus(origin(f), v) \in Points
    BY <1>1, <1>6, <2>3, OriginsArePoints, VectorsArePoints, WhereItStands
  <2>7. /\ severity(f, plus(origin(f), v), e, at(e)) = severity(e, at(e), f, plus(origin(f), v))
        /\ severity(f, origin(f), e, origin(e)) = severity(e, origin(e), f, origin(f))
    BY <1>1, <2>6, SeverityIsBounded
  <2> QED BY <1>4, <2>1, <2>2, <2>5, <2>7
<1> QED BY <1>7, <1>8, <1>9

(* No turn of the planning is left once the plan stands, so what the         *)
(* monitors look at is what they were promised.                             *)
LEMMA PlanningIsOver == ASSUME Grows, planned PROVE ~PlanStep
<1>1. member = {} /\ coords \ claimed = {} /\ ring = <<>> BY DEF Grows, planned, gridDone
<1> QED BY <1>1 DEF PlanStep, Open, Close, Turn, growing, Take, Pass, Finish, first

LEMMA ClearIsKept ==
  ASSUME IInv, TypeOK, EveryElementInOneZone, MovedElementsStandClear,
         commits # <<>> => planned, [Next]_vars
  PROVE  MovedElementsStandClear' /\ (commits # <<>> => planned)'
<1>1. commits \in Seq(Commit(plan)) /\ loaded \in [Elements -> Points]
  BY DEF TypeOK, Commit, IInv, Grows, Points
<1>2. CASE PlanStep /\ UNCHANGED commits
  <2>1. commits' = <<>> BY <1>2, PlanningIsOver DEF IInv
  <2>2. \A e : moves(e)' = {} BY <2>1 DEF moves
  <2> QED BY <2>1, <2>2 DEF MovedElementsStandClear, movedPair
<1>3. CASE UNCHANGED vars
  <2>1. /\ loaded' = loaded /\ plan' = plan /\ commits' = commits
        /\ claimed' = claimed /\ member' = member
    BY <1>3 DEF vars, planning
  <2>2. planned' <=> planned BY <2>1, SameBuilding DEF planned, gridDone
  <2>3. \A e : /\ moves(e)' = moves(e) /\ at(e)' = at(e)
               /\ filedAtHome(e)' <=> filedAtHome(e)
    BY <2>1, SamePlanSameGround DEF moves, at, filedAtHome
  <2>4. \A e, f : /\ apart(e, f)' <=> apart(e, f)
                  /\ matesOneStays(e, f)' <=> matesOneStays(e, f)
                  /\ movedPair(e, f)' <=> movedPair(e, f)
                  /\ standClear(e, f)' <=> standClear(e, f)
    BY <2>1, <2>3, SamePlanSameGround DEF matesOneStays, movedPair, standClear
  <2> QED BY <2>1, <2>2, <2>3, <2>4 DEF MovedElementsStandClear, boxed
<1>4. ASSUME NEW c \in clashes, NEW e \in Elements, NEW v \in Vectors,
             Resolve(c, e, v) \/ Arbitrate(c, e, v)
      PROVE  MovedElementsStandClear' /\ planned'
  <2>1. /\ planned /\ loaded' = loaded /\ plan' = plan /\ claimed' = claimed /\ member' = member
        /\ e \in movable(c)
    BY <1>4 DEF Resolve, Arbitrate, planning
  <2>2. planned' BY <2>1, SameBuilding DEF planned, gridDone
  <2>3. Standing BY <1>1, <2>1 DEF Standing
  <2>4. zoneOf(e) \in owning(c) BY <2>1, <2>3, ZoneOfIsTheZone DEF owning, movable
  <2>5. accepts(zoneOf(e), e, v) BY <1>4, <2>4 DEF Resolve, Arbitrate
  <2>6. PICK z : commits' = Append(commits, [zone |-> z.key, element |-> e, vector |-> v])
    BY <1>4 DEF Resolve, Arbitrate, commit
  <2>7. MovedElementsStandClear' BY <2>1, <2>3, <2>5, <2>6, CommitKeepsClear
  <2> QED BY <2>2, <2>7
<1> QED BY <1>2, <1>3, <1>4 DEF Next

(* Whatever the building, the rules and the vectors the kit proposes: an     *)
(* element moved once by its own zone's monitors ends clear of its moved    *)
(* and unmoved neighbours alike, unless the two touched from the start,     *)
(* although no zone knows of another's move but through its branch.         *)
THEOREM MovesLeaveNoNewClash == Spec => []MovedElementsStandClear
<1> DEFINE Clear == MovedElementsStandClear /\ (commits # <<>> => planned)
<1>1. Init => Clear
  <2> SUFFICES ASSUME Init PROVE Clear OBVIOUS
  <2>1. commits = <<>> BY DEF Init
  <2>2. \A e : moves(e) = {} BY <2>1 DEF moves
  <2> QED BY <2>1, <2>2 DEF MovedElementsStandClear, movedPair
<1>2. IInv /\ TypeOK /\ EveryElementInOneZone /\ Clear /\ [Next]_vars => Clear'
  BY ClearIsKept
<1> HIDE DEF Clear
<1>3. Spec => []Clear
  BY <1>1, <1>2, PlanHolds, BuildingTypeCorrect, PlanIsAPartition, PTL DEF Spec
<1>4. Clear => MovedElementsStandClear BY DEF Clear
<1> QED BY <1>3, <1>4, PTL
==============================================================================
