------------------------------ MODULE OrderedSet ------------------------------
(***************************************************************************)
(* What map and set promise of their keys (map.h, set.h): a set to which   *)
(* single keys are added and from which single keys are removed, and what  *)
(* the calls answer.                                                       *)
(***************************************************************************)
CONSTANTS Keys, NULL

VARIABLES
  set,    (* the keys, or NULL when there is no container                  *)
  last    (* the last call and its answer                                  *)

Said(op, key, answer) == last' = [op |-> op, key |-> key, answer |-> answer]

Init == set = NULL /\ last = [op |-> "none", key |-> NULL, answer |-> "none"]

New == set = NULL /\ set' = {} /\ Said("new", NULL, "none")

(* A key that exists is not inserted again; an allocation may fail.        *)
Insert(key) ==
  /\ set # NULL
  /\ \/ key \in set /\ set' = set /\ Said("insert", key, "already_exists")
     \/ key \notin set /\ set' = set \cup {key} /\ Said("insert", key, "inserted")
     \/ key \notin set /\ set' = set /\ Said("insert", key, "failed")

Erase(key) == set # NULL /\ set' = set \ {key} /\ Said("erase", key, "none")

Clear == set # NULL /\ set' = {} /\ Said("clear", NULL, "none")

Free == set # NULL /\ set' = NULL /\ Said("free", NULL, "none")

Next == New \/ Clear \/ Free \/ \E key \in Keys : Insert(key) \/ Erase(key)

Spec == Init /\ [][Next]_<<set, last>>
=============================================================================
