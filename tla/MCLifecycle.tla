----------------------------- MODULE MCLifecycle -----------------------------
(* Three zones in a row.  The shared clash sits on the border of west and   *)
(* mid; what it moves is inside the buffer of east, whose own clash a       *)
(* commit can therefore invalidate; mid has no clash of its own.            *)
EXTENDS Lifecycle, TLC
CONSTANTS west, mid, east, border, outer

MCHome == [c \in Clashes |-> IF c = border THEN west ELSE east]
MCOwning == [c \in Clashes |-> IF c = border THEN {west, mid} ELSE {east}]
MCNear == [c \in Clashes |-> Zones]
MCPriority == [z \in Zones |-> IF z = west THEN 2 ELSE 1]
CheckSymmetry == Permutations(Checks)
==============================================================================
