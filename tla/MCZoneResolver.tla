--------------------------- MODULE MCZoneResolver ----------------------------
(* A clash the zone owns, one it shares, one nobody can move and one with   *)
(* no rule.  Three moves east, of different sizes, and one west.            *)
EXTENDS ZoneResolver, TLC
CONSTANTS own, border, walled, bare

MCPlace == [c \in Clashes |-> CASE c = own -> 1 [] c = walled -> 2 [] c = border -> 3 [] c = bare -> 4]
MCHeading == [m \in Moves |-> IF m = 2 THEN "west" ELSE "east"]
==============================================================================
