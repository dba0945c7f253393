----------------------------- MODULE MCBuilding ------------------------------
(* A duct, a pipe and a tray on bays of one level and of the one above, a   *)
(* riser and an element without geometry.                                   *)
EXTENDS Building, TLC
CONSTANTS duct, pipe, tray, stack, ghost

anywhere == {<<-1, 0, 0>>, <<0, 0, 0>>, <<1, 0, 0>>, <<3, 0, 0>>, <<2, 3, 0>>, <<0, 0, 1>>}
MCSpots == [e \in Elements |->
  CASE e = stack -> {<<0, 0, 0>>, <<2, 2, 0>>} [] e = ghost -> {<<0, 0, 0>>}
    [] e = tray -> {<<1, 0, 0>>, <<3, 0, 0>>, <<0, 0, 1>>} [] OTHER -> anywhere]
MCReason == [e \in Elements |-> IF e = stack THEN "riser_or_shaft" ELSE "ordinary"]
MCSystem == [e \in Elements |-> "service"]
MCMinGap == [e \in Elements |-> [f \in Elements |-> IF tray \in {e, f} THEN 2 ELSE 1]]
MCJoined == [e \in Elements |-> {}]
MCVectors == {<<1, 0, 0>>, <<-1, 0, 0>>, <<0, 2, 0>>, <<0, 0, 1>>}
==============================================================================
