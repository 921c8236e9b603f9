-------------------------------- MODULE MCMap --------------------------------
(* Values of the constants of Map for TLC.  Cells are named as in MCAvlTree. *)
EXTENDS Map, TLC, FiniteSetsExt

CellOfKey(used, key) ==
  IF key \notin used THEN {key}
  ELSE LET unused == Cells \ used IN IF unused = {} THEN {} ELSE {Min(unused)}

FourKeys == 1 .. 4

ValuesAlike == Permutations(Values)
=============================================================================
