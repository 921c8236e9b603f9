------------------------------ MODULE MCAvlTree ------------------------------
(* Values of the constants of AvlTree for TLC.  A node is named after the   *)
(* key it was created for when that cell is free, and is the lowest free    *)
(* cell otherwise: which free cell malloc returns makes no difference.      *)
EXTENDS AvlTree, FiniteSetsExt

CellOfKey(used, key) ==
  IF key \notin used THEN {key}
  ELSE LET unused == Cells \ used IN IF unused = {} THEN {} ELSE {Min(unused)}

FourKeys == 1 .. 4
FiveKeys == 1 .. 5
EightKeys == 1 .. 8
NineKeys == 1 .. 9
=============================================================================
