--------------------------- MODULE MCRemoteValues ----------------------------
(* Small instances of the clients and the pool.                            *)
EXTENDS RemoteValues, TLC
CONSTANTS c1, c2
TwoAndOne == c1 :> 2 @@ c2 :> 1
=============================================================================
