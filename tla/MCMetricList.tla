---------------------------- MODULE MCMetricList ----------------------------
(* Small instances of the metric list.                                     *)
EXTENDS MetricList
CONSTANTS b1, b2, b3

MixedIntervals == (b1 :> 1) @@ (b2 :> 2) @@ (b3 :> 3)
=============================================================================
