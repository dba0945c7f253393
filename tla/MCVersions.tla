------------------------------ MODULE MCVersions -----------------------------
(* Two uploads of the first model and one of its revision, which meets the  *)
(* pairs in another order, mends one and breaks one.                        *)
EXTENDS Versions, TLC
CONSTANTS v1, v2, v3, first, revised

MCContent == v1 :> first @@ v2 :> revised @@ v3 :> first
(* The revision comes under the name of the first upload.                   *)
MCName == v1 :> 1 @@ v2 :> 1 @@ v3 :> 2
MCFindings ==
  first :> {<<1, 2, "clash">>, <<3, 1, "clearance">>, <<3, 2, "clear">>, <<2, 4, "clash">>}
  @@ revised :> {<<2, 1, "clash">>, <<1, 3, "clear">>, <<2, 3, "clearance">>, <<4, 2, "clash">>,
                 <<4, 3, "clash">>}
MCNoise == {<<2, 4>>}
==============================================================================
