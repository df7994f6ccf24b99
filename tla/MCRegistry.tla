----------------------------- MODULE MCRegistry -----------------------------
(* Small instances of the registry.                                        *)
EXTENDS Registry
CONSTANTS n1, n2, t1
=============================================================================
