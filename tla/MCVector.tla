------------------------------- MODULE MCVector -------------------------------
(* Vector for TLC: the values of its constants are all in the .cfg files.   *)
EXTENDS Vector
=============================================================================
