------------------------- MODULE MCLocalRepository --------------------------
(* Small instances of the local repository.                                *)
EXTENDS LocalRepository
CONSTANTS w1, w2

TwoKeys == {<<1, 1>>, <<1, 2>>}
SixKeys == {1, 2, 3} \X {1, 2}
=============================================================================
