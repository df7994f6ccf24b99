--------------------------- MODULE MCSubscriptions ---------------------------
(* Small instances of the subscriptions: metric 3 is calculated from 1,    *)
(* metric 5, like metric 2 itself, from 2.                                 *)
EXTENDS Subscriptions

ThreeMetrics == {2, 3, 5}
BasesOfThree == (2 :> 2) @@ (3 :> 1) @@ (5 :> 2)
=============================================================================
