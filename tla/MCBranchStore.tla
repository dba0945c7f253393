---------------------------- MODULE MCBranchStore ----------------------------
(* Two neighbouring zones.  One resolver per zone, and the arbitration of a *)
(* clash the two share, whose moved element belongs to the second zone; an  *)
(* arbitration commits on the first of the owning zones.                    *)
EXTENDS BranchStore, TLC
CONSTANTS west, east, duct, pipe, tray, resolveWest, resolveEast, arbitration

MCBranch == [j \in Jobs |-> IF j = resolveEast THEN east ELSE west]
MCReads == [j \in Jobs |-> IF j = resolveWest THEN {east}
                           ELSE IF j = resolveEast THEN {west} ELSE {west, east}]
MCMoves == [j \in Jobs |-> IF j = resolveWest THEN <<duct, pipe>>
                           ELSE IF j = resolveEast THEN <<pipe>> ELSE <<tray>>]
==============================================================================
