----------------------------- MODULE MCGatherer -----------------------------
(* Small instances of the gatherer.                                        *)
EXTENDS Gatherer
CONSTANTS b1, b2, b3, p1, p2, r1

OnePluginTwoMetrics == p1 :> <<b1, b2>>
TwoPlugins          == (p1 :> <<b1>>) @@ (p2 :> <<b2>>)
EqualIntervals      == [b \in Blocks |-> 2]
MixedIntervals      == (b1 :> 1) @@ (b2 :> 2)
=============================================================================
