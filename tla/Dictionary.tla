------------------------------ MODULE Dictionary ------------------------------
(***************************************************************************)
(* What map.h and set.h promise: keys with values, and calls that do what  *)
(* they answer.  A set is a dictionary whose values are all NULL.          *)
(***************************************************************************)
CONSTANTS Keys, Values, NULL

VARIABLES
  dict,   (* the function from keys to values, or NULL: no container       *)
  last    (* the last call, its arguments and its answer                   *)

Said(op, key, value, answer) ==
  last' = [op |-> op, key |-> key, value |-> value, answer |-> answer]

Init == dict = NULL /\ last = [op |-> "none", key |-> NULL, value |-> NULL, answer |-> "none"]

New ==
  /\ dict = NULL
  /\ \/ dict' = [key \in {} |-> NULL] /\ Said("new", NULL, NULL, "created")
     \/ dict' = NULL /\ Said("new", NULL, NULL, "failed")

(* A key that exists keeps its value; a failing insertion changes nothing. *)
Insert(key, value) ==
  /\ dict # NULL
  /\ \/ /\ key \in DOMAIN dict
        /\ dict' = dict /\ Said("insert", key, value, "already_exists")
     \/ /\ key \notin DOMAIN dict
        /\ \/ /\ dict' = [k \in DOMAIN dict \cup {key} |-> IF k = key THEN value ELSE dict[k]]
              /\ Said("insert", key, value, "inserted")
           \/ dict' = dict /\ Said("insert", key, value, "failed")

Erase(key) ==
  /\ dict # NULL
  /\ dict' = [k \in DOMAIN dict \ {key} |-> dict[k]]
  /\ Said("erase", key, NULL, "none")

(* The program assigns to a value through an iterator.                     *)
Assign(key, value) ==
  /\ dict # NULL /\ key \in DOMAIN dict
  /\ dict' = [dict EXCEPT ![key] = value]
  /\ Said("assign", key, value, "none")

Clear == dict # NULL /\ dict' = [key \in {} |-> NULL] /\ Said("clear", NULL, NULL, "none")

Free == dict # NULL /\ dict' = NULL /\ Said("free", NULL, NULL, "none")

Next ==
  \/ New \/ Clear \/ Free
  \/ \E key \in Keys : Erase(key)
  \/ \E key \in Keys, value \in Values \cup {NULL} : Insert(key, value) \/ Assign(key, value)

Spec == Init /\ [][Next]_<<dict, last>>
=============================================================================
