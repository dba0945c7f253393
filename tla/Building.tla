------------------------------ MODULE Building -------------------------------
(***************************************************************************)
(* What the monitors judge a move against (app/monitors), once the plan of *)
(* Zoning stands.  An element is a point, and moves are vectors; the kit's *)
(* exact distance is the larger of the differences along the axes.         *)
(***************************************************************************)
EXTENDS Zoning, FiniteSetsExt

CONSTANTS
  Storey,    \* height between levels
  Buffer,    \* zone_buffer_m
  Widest,    \* the widest gap any rule asks for
  MinGap,    \* MinGap[e][f]: what the rules ask between the two, 0 for nothing
  Structural,\* elements that are never moved
  Gravity,   \* elements that keep their fall
  Joined,    \* Joined[e]: those it is joined to
  Vectors,   \* the moves the kit may propose
  MaxCommits \* bound on commits

ASSUME BuildingAssumption ==
  /\ Storey \in Nat /\ Buffer \in Nat /\ Widest \in Nat /\ MaxCommits \in Nat
  /\ MinGap \in [Elements -> [Elements -> 0..Widest]]
  /\ \A e, f \in Elements : MinGap[e][f] = MinGap[f][e]
  /\ Structural \in SUBSET Elements /\ Gravity \in SUBSET Elements
  /\ Joined \in [Elements -> SUBSET Elements]
  /\ Vectors \in SUBSET (Int \X Int \X Int)

VARIABLE commits  \* the commits in the zone branches, in order

vars == <<loaded, planning, commits>>

------------------------------------------------------------------------------
abs(n) == IF n < 0 THEN -n ELSE n
larger(m, n) == IF m >= n THEN m ELSE n
plus(p, v) == <<p[1] + v[1], p[2] + v[2], p[3] + v[3]>>
gap(p, q) == larger(larger(abs(p[1] - q[1]), abs(p[2] - q[2])), abs(p[3] - q[3]))
travel(v) == gap(v, <<0, 0, 0>>)

origin(e) == <<loaded[e][1], loaded[e][2], Storey * level(e)>>

(* judge_pair, and the severity compare() holds against the baseline: a     *)
(* contact is worst, then the shortfall of what the rule asks.              *)
Contact == Widest + 1
severity(e, p, f, q) ==
  IF gap(p, q) = 0 THEN Contact
  ELSE IF gap(p, q) < MinGap[e][f] THEN MinGap[e][f] - gap(p, q)
  ELSE 0

boxed(gids) == gids \ Boxless

(* Mutant: the zone is not padded.                                          *)
buffer_gids_bare(z) ==
  {f \in boxed(Elements \ z.gids) : \E e \in boxed(z.gids) : gap(origin(f), origin(e)) = 0}

(* buffer_gids: what lies outside the zone, within its padded bounding box. *)
buffer_gids(z) ==
  {f \in boxed(Elements \ z.gids) :
    \A i \in 1..3 : \E lo, hi \in boxed(z.gids) :
      origin(lo)[i] - Buffer <= origin(f)[i] /\ origin(f)[i] <= origin(hi)[i] + Buffer}

neighbours_of(z) == {y \in plan \ {z} : y.gids \cap buffer_gids(z) # {}}

(* branch_head: the offsets on a zone's branch accumulate.                  *)
offset_for(z, e) ==
  LET on == {i \in DOMAIN commits : commits[i].zone = z.key /\ commits[i].element = e} IN
  <<MapThenSumSet(LAMBDA i : commits[i].vector[1], on),
    MapThenSumSet(LAMBDA i : commits[i].vector[2], on),
    MapThenSumSet(LAMBDA i : commits[i].vector[3], on)>>

(* reach_m and in_range: the elements near enough to matter, before or      *)
(* after the move.                                                          *)
in_range(e, v, p) == gap(origin(e), p) <= Widest + travel(v)

(* compare: the move makes nothing worse between e and an f that stands     *)
(* at p.                                                                    *)
noWorse(e, v, f, p) ==
  severity(e, plus(origin(e), v), f, p) <= severity(e, origin(e), f, p)

scope(z, e) == boxed(z.gids \cup buffer_gids(z)) \ {e}

(* GeometryMonitor: the zone and its buffer, where they were loaded.        *)
geometry(z, e, v) ==
  \A f \in scope(z, e) : in_range(e, v, origin(f)) => noWorse(e, v, f, origin(f))

(* Mutant: the neighbours are judged where they were loaded.                *)
boundary_as_loaded(z, e, v) ==
  \A y \in neighbours_of(z) : \A f \in (y.gids \cap buffer_gids(z)) \ {e} :
    in_range(e, v, origin(f)) => noWorse(e, v, f, origin(f))

(* BoundaryMonitor: the neighbours where their own branches have put them.  *)
boundary(z, e, v) ==
  \A y \in neighbours_of(z) : \A f \in (y.gids \cap buffer_gids(z)) \ {e} :
    LET p == plus(origin(f), offset_for(y, f)) IN
    in_range(e, v, p) => noWorse(e, v, f, p)

(* IntegrityMonitor: no joint torn, no fall changed, and every rule met by  *)
(* what does not touch; this one compares with nothing.                     *)
integrity(z, e, v) ==
  /\ Joined[e] = {} \/ travel(v) = 0
  /\ e \in Gravity => v[3] = 0
  /\ \A f \in scope(z, e) : in_range(e, v, origin(f)) =>
       severity(e, plus(origin(e), v), f, origin(f)) \in {0, Contact}

accepts(z, e, v) == geometry(z, e, v) /\ boundary(z, e, v) /\ integrity(z, e, v)

------------------------------------------------------------------------------
(* The pairs the full pass reports.                                         *)
clashes ==
  {c \in [a : boxed(Elements), b : boxed(Elements)] :
    c.a # c.b /\ severity(c.a, origin(c.a), c.b, origin(c.b)) > 0}

owning(c) == {z \in plan : c.a \in z.gids \/ c.b \in z.gids}

commit(z, e, v) == commits' = Append(commits, [zone |-> z.key, element |-> e, vector |-> v])

movable(c) == {c.a, c.b} \ Structural

(* A zone's resolver, for a clash that is its own.                          *)
Resolve(c, e, v) ==
  /\ planned /\ Len(commits) < MaxCommits
  /\ c \in clashes /\ e \in movable(c)
  /\ \E z \in plan : owning(c) = {z} /\ accepts(z, e, v) /\ commit(z, e, v)
  /\ UNCHANGED <<loaded, planning>>

(* The coordinator, for a clash of two zones: both accept, and the move is  *)
(* filed under the first of them in the order of the rows, which may be     *)
(* either.                                                                  *)
Arbitrate(c, e, v) ==
  /\ planned /\ Len(commits) < MaxCommits
  /\ c \in clashes /\ e \in movable(c)
  /\ Cardinality(owning(c)) > 1
  /\ \A z \in owning(c) : accepts(z, e, v)
  /\ \E z \in owning(c) : commit(z, e, v)
  /\ UNCHANGED <<loaded, planning>>

Init == InitPlan /\ commits = <<>>

Next ==
  \/ PlanStep /\ UNCHANGED commits
  \/ \E c \in clashes, e \in Elements, v \in Vectors : Resolve(c, e, v)
  \/ \E c \in clashes, e \in Elements, v \in Vectors : Arbitrate(c, e, v)

Spec == Init /\ [][Next]_vars

------------------------------------------------------------------------------
TypeOK ==
  /\ PlanTypeOK
  /\ commits \in Seq([zone : {z.key : z \in plan}, element : Elements, vector : Vectors])

moves(e) == {i \in DOMAIN commits : commits[i].element = e}
zoneOf(e) == CHOOSE z \in plan : e \in z.gids
filedAtHome(e) == \A i \in moves(e) : commits[i].zone = zoneOf(e).key

at(e) == IF moves(e) = {} THEN origin(e)
         ELSE plus(origin(e), commits[CHOOSE i \in moves(e) : TRUE].vector)

standClear(e, f) ==
  \/ severity(e, at(e), f, at(f)) = 0
  \/ severity(e, origin(e), f, origin(f)) = Contact

(* Two elements moved at most once each, of which one was moved.            *)
movedPair(e, f) ==
  e # f /\ moves(e) # {} /\ Cardinality(moves(e)) < 2 /\ Cardinality(moves(f)) < 2

apart(e, f) == zoneOf(e) # zoneOf(f) /\ gap(origin(e), origin(f)) <= Buffer
matesOneStays(e, f) == zoneOf(e) = zoneOf(f) /\ moves(f) = {}

(* Zoning makes the work parallel; the monitors have to make up for it: a   *)
(* moved element ends clear of every element in view (neighbours within the *)
(* buffer, zone mates that stayed), wherever that has been moved meanwhile, *)
(* unless the two touched from the start.  It takes moves that are filed on *)
(* the mover's own branch, where the boundary monitor looks.                *)
MovedElementsStandClear ==
  planned => \A e, f \in boxed(Elements) :
    movedPair(e, f) /\ filedAtHome(e) /\ filedAtHome(f)
      /\ (apart(e, f) \/ matesOneStays(e, f)) => standClear(e, f)

(* boundary.py 54: the monitor judges against "every neighbour element in   *)
(* its committed position", so elements of two zones end clear of each      *)
(* other whichever branch their moves are filed on.                         *)
NeighboursJudgedAsBuilt ==
  planned => \A e, f \in boxed(Elements) :
    movedPair(e, f) /\ apart(e, f) => standClear(e, f)
==============================================================================
