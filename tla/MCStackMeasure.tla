--------------------------- MODULE MCStackMeasure ---------------------------
(* Two calls: the first, deeper than the smallest canary, leaves a hole    *)
(* where that canary ends, the second is shallow.                          *)
EXTENDS StackMeasure, TLC

MCDepth == 1 :> 4 @@ 2 :> 1
MCFootprint == 1 :> {2, 4} @@ 2 :> {1}
=============================================================================
