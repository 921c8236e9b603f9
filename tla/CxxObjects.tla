------------------------------ MODULE CxxObjects ------------------------------
(***************************************************************************)
(* What the class templates of src/include_cxx/cmagic share.  A program    *)
(* has objects of one template; an object holds the handle of a C          *)
(* container, or a null handle.  A C container has slots, in which         *)
(* elements of a C++ type are constructed and destroyed.                   *)
(*                                                                         *)
(* A slot has one part in a vector and in a set and two in a map.  A part  *)
(* whose element is not constructed, or no longer, is RAW memory.          *)
(***************************************************************************)
EXTENDS Integers, Sequences, SequencesExt, FiniteSets

CONSTANTS
  Objects,      (* the objects of a program                                *)
  Handles,      (* the addresses of C containers                           *)
  Kinds,        (* the templates: "vector", "map", "set"                   *)
  Keys, Values, (* what a program stores                                   *)
  NULL,
  NONE,         (* the handle of an object that does not exist             *)
  RAW

ASSUME CxxAssumption ==
  /\ Kinds \subseteq {"vector", "map", "set"}
  /\ Keys \subseteq Int
  /\ NULL # NONE /\ {NULL, NONE} \cap Handles = {} /\ NULL \notin Objects
  /\ RAW \notin Keys \cup Values

VARIABLES
  kind,         (* the template of the objects                             *)
  handle,       (* vector_handle, map_handle or set_handle of each object  *)
  heap,         (* the C containers: handle -> container                   *)
  living,       (* auxiliary: elements constructed and not destroyed       *)
  iterator,     (* an iterator of a map or a set that the program keeps    *)
  call,         (* the call in progress with its local variables           *)
  last,         (* the last call that returned, and its answer             *)
  status        (* "ok", "undefined" behaviour, or an assertion "aborted"  *)

cxx_vars == <<kind, handle, heap, living, iterator, call, last, status>>

-----------------------------------------------------------------------------
STD == "STD"
CUSTOM_CMAGIC == "CUSTOM_CMAGIC"

(* The elements of one slot, and a program's arguments.                    *)
AllItems == [value : Values] \cup [key : Keys, value : Values] \cup [key : Keys]

Parts ==
  CASE kind = "vector" -> {"value"}
    [] kind = "map"    -> {"key", "value"}
    [] kind = "set"    -> {"key"}

IsItem(item) == DOMAIN item = Parts

IsRaw(slot) == \E part \in DOMAIN slot : slot[part] = RAW

Slots(o) == heap[handle[o]].slots

(* operator bool                                                           *)
Initialized(o) == handle[o] \notin {NONE, NULL}

-----------------------------------------------------------------------------
(* Calls.                                                                  *)

Idle == [op |-> "none", self |-> NULL, other |-> NULL, stage |-> "idle", at |-> 0]

Ready == call = Idle /\ status = "ok"

(* The call has come to a stage of its work.                               *)
Continues(stage) == call.stage = stage /\ status = "ok"

(* The handle of the object the call works on.                             *)
Mine == handle[call.self]

(* consumed: the call moved its argument's value into an element.          *)
Answer(op, o, answer, consumed) ==
  last' = [op |-> op, object |-> o, answer |-> answer, consumed |-> consumed]

Return(answer) == call' = Idle /\ Answer(call.op, call.self, answer, FALSE)

(* Every call that works in several steps begins with clear().             *)
Enter(op, o, x) ==
  call' = [op |-> op, self |-> o, other |-> x, stage |-> "clear", at |-> 1]

-----------------------------------------------------------------------------
(* Constructors and destructors of elements.                               *)

(* new(slot) value_type {item}, for every part; item may lie in a slot.    *)
construct(item) ==
  /\ living' = living + Cardinality(DOMAIN item)
  /\ status' = IF IsRaw(item) THEN "undefined" ELSE status

(* slot->~value_type(), for every part.                                    *)
destruct(slot) ==
  /\ living' = living - Cardinality(DOMAIN slot)
  /\ status' = IF IsRaw(slot) THEN "undefined" ELSE status

Destroyed(slot) == [part \in DOMAIN slot |-> RAW]

-----------------------------------------------------------------------------
(* Iterators of maps and sets.                                             *)

(* Iterators to these keys of the container at h are no longer used.       *)
invalidate(h, keys) ==
  iterator' = IF iterator # NULL /\ iterator.container = h /\ iterator.key \in keys
              THEN NULL ELSE iterator
=============================================================================
