--------------------------- MODULE MCLocalCommands ----------------------------
(* A process with two threads and one, built with another layout or not,   *)
(* with a single thread.                                                   *)
EXTENDS LocalCommands, TLC
CONSTANTS t1, t2, t3
Two == (t1 :> "p1") @@ (t2 :> "p1") @@ (t3 :> "p2")
Using(t) == CASE t = t1 -> Commands.gather \union Commands.repos
              [] t = t2 -> {Short, rreposresource_list}
              [] t = t3 -> {Short}
Calls == (t1 :> 2) @@ (t2 :> 1) @@ (t3 :> 1)
=============================================================================
