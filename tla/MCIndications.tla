---------------------------- MODULE MCIndications ----------------------------
(* Small instances of the indications.                                     *)
EXTENDS Indications
CONSTANTS f1, f2, f3

OneMetric    == f1 :> 1
TwoMetrics   == (f1 :> 1) @@ (f2 :> 2)
=============================================================================
