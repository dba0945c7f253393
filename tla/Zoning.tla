------------------------------- MODULE Zoning --------------------------------
(***************************************************************************)
(* How an ingest cuts a model into zones (app/agents/zoning.plan_zones):   *)
(* risers and corridors by system, everything else by level and grid cell, *)
(* neighbouring cells merged breadth first while the zone stays under the  *)
(* ceiling.  One step is one turn of a loop of the code.                   *)
(***************************************************************************)
EXTENDS Integers, Sequences, FiniteSets

CONSTANTS
  Elements,
  Spots,       \* Spots[e]: where it can be, as <<x, y, level>>
  Boxless,     \* elements whose geometry could not be meshed
  Reason,      \* Reason[e]: "riser_or_shaft", "main_corridor" or "ordinary"
  System,      \* System[e]
  CellSize,    \* grid_fallback_m
  MaxElements  \* max_elements_per_zone

ASSUME ZoningAssumption ==
  /\ IsFiniteSet(Elements)
  /\ Spots \in [Elements -> SUBSET (Int \X Int \X Int)]
  /\ Boxless \in SUBSET Elements
  /\ Reason \in [Elements -> {"riser_or_shaft", "main_corridor", "ordinary"}]
  /\ CellSize \in Nat \ {0} /\ MaxElements \in Nat \ {0}

VARIABLES
  loaded,    \* where each element is in the model
  claimed,   \* the cells given to a zone
  member,    \* the cells of the zone being grown
  frontier,  \* its cells whose neighbours have not been looked at
  ring,      \* the neighbours of the cell being looked at, in order
  plan       \* the zones planned so far

planning == <<claimed, member, frontier, ring, plan>>

level(e) == loaded[e][3]

(* zone_key: an element without a box has a level and no cell.              *)
cell(e) == <<level(e), loaded[e][1] \div CellSize, loaded[e][2] \div CellSize>>

gridded == {e \in Elements \ Boxless : Reason[e] = "ordinary"}
loose(l) == {e \in Boxless : Reason[e] = "ordinary" /\ level(e) = l}
dedicated(r, s) == {e \in Elements : Reason[e] = r /\ System[e] = s}

coords == {cell(e) : e \in gridded}
within(cells) == {e \in gridded : cell(e) \in cells}
size(cells) == Cardinality(within(cells))

(* sorted(coords), levels in order.                                         *)
before(c, d) ==
  \/ c[1] < d[1]
  \/ c[1] = d[1] /\ c[2] < d[2]
  \/ c[1] = d[1] /\ c[2] = d[2] /\ c[3] < d[3]
first(c, cells) == c \in cells /\ \A d \in cells \ {c} : before(c, d)

beside(c) == << <<c[1], c[2] + 1, c[3]>>, <<c[1], c[2], c[3] + 1>>,
                <<c[1], c[2] - 1, c[3]>>, <<c[1], c[2], c[3] - 1>> >>

(* A merged zone is named for its first cell and how many joined it.        *)
merged(c, n) == <<c[1], c[2], c[3], n>>

zone(key, gids) == [key |-> key, gids |-> gids]

InitPlan ==
  /\ loaded \in [Elements -> UNION {Spots[e] : e \in Elements}]
  /\ \A e \in Elements : loaded[e] \in Spots[e]
  /\ claimed = {} /\ member = {} /\ frontier = <<>> /\ ring = <<>>
  /\ plan = {}

------------------------------------------------------------------------------
Open(c) ==
  /\ member = {} /\ first(c, coords \ claimed)
  /\ claimed' = claimed \cup {c} /\ member' = {c}
  /\ frontier' = <<c>>
  /\ UNCHANGED <<loaded, ring, plan>>

growing == member # {} /\ ring = <<>> /\ frontier # <<>> /\ size(member) < MaxElements

Turn ==
  /\ growing
  /\ ring' = beside(Head(frontier))
  /\ frontier' = Tail(frontier)
  /\ UNCHANGED <<loaded, claimed, member, plan>>

(* Mutant: only the cell's own size is held against the ceiling.            *)
joins_alone(c) == c \in coords \ claimed /\ size({c}) <= MaxElements

(* Mutant: cells nothing stands in are taken as well.                       *)
joins_empty(c) == c \notin claimed /\ size(member \cup {c}) <= MaxElements

(* Mutant: cells another zone has claimed are taken again.                  *)
joins_again(c) == c \in coords \ member /\ size(member \cup {c}) <= MaxElements

joins(c) == c \in coords \ claimed /\ size(member \cup {c}) <= MaxElements

Take ==
  /\ ring # <<>> /\ joins(Head(ring))
  /\ claimed' = claimed \cup {Head(ring)} /\ member' = member \cup {Head(ring)}
  /\ frontier' = Append(frontier, Head(ring))
  /\ ring' = Tail(ring)
  /\ UNCHANGED <<loaded, plan>>

Pass ==
  /\ ring # <<>> /\ ~joins(Head(ring))
  /\ ring' = Tail(ring)
  /\ UNCHANGED <<loaded, claimed, member, frontier, plan>>

Close(c) ==
  /\ member # {} /\ ring = <<>> /\ ~growing /\ first(c, member)
  /\ plan' = plan \cup {zone(merged(c, Cardinality(member) - 1), within(member))}
  /\ member' = {} /\ frontier' = <<>>
  /\ UNCHANGED <<loaded, claimed, ring>>

(* What has no cell stays together, level by level; risers and corridors    *)
(* span levels and get a zone for each system.                              *)
rest ==
  LET lost == {e \in Boxless : Reason[e] = "ordinary"}
      special == {e \in Elements : Reason[e] # "ordinary"} IN
  {zone(<<level(e)>>, loose(level(e))) : e \in lost}
    \cup {zone(<<Reason[e], System[e]>>, dedicated(Reason[e], System[e])) : e \in special}

gridDone == member = {} /\ coords \subseteq claimed
planned == gridDone /\ rest \subseteq plan

Finish ==
  /\ gridDone /\ ~planned
  /\ plan' = plan \cup rest
  /\ UNCHANGED <<loaded, claimed, member, frontier, ring>>

PlanStep ==
  \/ \E c \in coords : Open(c)
  \/ \E c \in coords : Close(c)
  \/ Turn
  \/ Take
  \/ Pass
  \/ Finish

PlanSpec == InitPlan /\ [][PlanStep]_<<loaded, planning>>

------------------------------------------------------------------------------
PlanTypeOK ==
  /\ \A e \in Elements : loaded[e] \in Spots[e]
  /\ claimed \in SUBSET coords /\ member \in SUBSET claimed
  /\ frontier \in Seq(member)
  /\ ring \in Seq(Int \X Int \X Int)
  /\ \A z \in plan : z.gids \in SUBSET Elements

(* A zone is one resolver's to move: no element is ever in two, and a       *)
(* finished plan has left none out.                                         *)
EveryElementInOneZone ==
  /\ \A y, z \in plan : y # z => y.gids \cap z.gids = {}
  /\ planned => \A e \in Elements : \E z \in plan : e \in z.gids

adjacent(c, d) == \E i \in 1..4 : beside(c)[i] = d
joined(cells) ==
  \A part \in (SUBSET cells) \ {{}, cells} :
    \E c \in part, d \in cells \ part : adjacent(c, d)

(* Never split a room, and hold the ceiling: a zone of the grid is made of  *)
(* whole cells that hang together, and is over the ceiling only if it is    *)
(* the one cell that is.                                                    *)
ZonesAreRooms ==
  \A z \in plan :
    LET cells == {cell(e) : e \in z.gids \cap gridded} IN
    cells # {} =>
      /\ z.gids = within(cells)
      /\ joined(cells)
      /\ Cardinality(cells) > 1 => Cardinality(z.gids) <= MaxElements
==============================================================================
