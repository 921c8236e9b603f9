-------------------------------- MODULE Stack --------------------------------
(***************************************************************************)
(* What a vector promises (vector.h): a sequence of elements that grows    *)
(* and shrinks at its end, and that a failing call does not modify.        *)
(***************************************************************************)
EXTENDS Naturals, Sequences, SequencesExt

CONSTANTS Values, UNINIT, NULL

VARIABLES
  elements,   (* the elements, or NULL when there is no vector             *)
  last        (* the last call, its argument and its answer                *)

Said(op, value, answer) == last' = [op |-> op, value |-> value, answer |-> answer]

Init == elements = NULL /\ last = [op |-> "none", value |-> UNINIT, answer |-> TRUE]

New ==
  /\ elements = NULL
  /\ \/ elements' = <<>> /\ Said("new", UNINIT, TRUE)
     \/ elements' = NULL /\ Said("new", UNINIT, FALSE)

PushBack(value) ==
  /\ elements # NULL
  /\ \/ elements' = Append(elements, value) /\ Said("push_back", value, TRUE)
     \/ elements' = elements /\ Said("push_back", value, FALSE)

(* The new element is not initialized: it has any value.                   *)
AllocateBack ==
  /\ elements # NULL
  /\ \/ /\ \E any \in Values \cup {UNINIT} : elements' = Append(elements, any)
        /\ Said("allocate_back", UNINIT, TRUE)
     \/ elements' = elements /\ Said("allocate_back", UNINIT, FALSE)

PopBack ==
  /\ elements # NULL /\ elements # <<>>
  /\ elements' = Front(elements)
  /\ Said("pop_back", UNINIT, TRUE)

(* The program assigns to an element.                                      *)
Write(i, value) ==
  /\ elements # NULL
  /\ elements' = [elements EXCEPT ![i] = value]
  /\ Said("write", value, TRUE)

Free == elements # NULL /\ elements' = NULL /\ Said("free", UNINIT, TRUE)

Next ==
  \/ New \/ PopBack \/ Free \/ AllocateBack
  \/ \E value \in Values \cup {UNINIT} : PushBack(value)
  \/ elements # NULL /\ \E i \in DOMAIN elements, value \in Values : Write(i, value)

Spec == Init /\ [][Next]_<<elements, last>>
=============================================================================
