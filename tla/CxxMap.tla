-------------------------------- MODULE CxxMap --------------------------------
(***************************************************************************)
(* The elements and iterators of cmagic::map and cmagic::set               *)
(* (src/include_cxx/cmagic/map.hpp, set.hpp) over the C map and set, which *)
(* are here what Dictionary promises: entries in the order of their keys,  *)
(* and insertions that may fail.  Entries do not move (CellsStay of Map).  *)
(***************************************************************************)
EXTENDS CxxObjects

IsTree == kind \in {"map", "set"}

(* CMAGIC_MAP_NEW, CMAGIC_SET_NEW                                          *)
empty_trees(packet) == {[packet |-> packet, slots |-> <<>>]}

KeysOf(slots) == {slots[i].key : i \in DOMAIN slots}

(* Where key is, or would be inserted, by key_comparator.                  *)
Position(slots, key) == Cardinality({k \in KeysOf(slots) : k < key}) + 1

(* The C tree may release the node behind the one it erases, whose entry   *)
(* moves (IteratorsSurvive of AvlTree).                                    *)
Successor(slots, key) ==
  LET i == Position(slots, key + 1) IN IF i \in DOMAIN slots THEN {slots[i].key} ELSE {}

(* CMAGIC_MAP_ALLOCATE answers a new entry, whose parts are constructed.   *)
insert_template(h, item) ==
  /\ item.key \notin KeysOf(heap[h].slots)
  /\ heap' = [heap EXCEPT ![h].slots = InsertAt(@, Position(@, item.key), item)]
  /\ construct(item)

-----------------------------------------------------------------------------
insert_new(o, item, argument) ==
  /\ Ready /\ IsTree /\ IsItem(item) /\ Initialized(o)
  /\ insert_template(handle[o], item)
  /\ Answer("insert", o, "inserted", argument = "&&")
  /\ UNCHANGED <<kind, handle, iterator, call>>

(* already_exists                                                          *)
insert_existing(o, item, argument) ==
  /\ Ready /\ IsTree /\ IsItem(item) /\ Initialized(o)
  /\ item.key \in KeysOf(Slots(o))
  /\ Answer("insert", o, "exists", FALSE)
  /\ UNCHANGED <<kind, handle, heap, living, iterator, call, status>>

(* The iterator answered is end().                                         *)
insert_fails(o, item) ==
  /\ Ready /\ IsTree /\ IsItem(item) /\ Initialized(o)
  /\ item.key \notin KeysOf(Slots(o))
  /\ invalidate(handle[o], Successor(Slots(o), item.key))
  /\ Answer("insert", o, "failed", FALSE)
  /\ UNCHANGED <<kind, handle, heap, living, call, status>>

erase(o, key) ==
  /\ Ready /\ IsTree /\ Initialized(o)
  /\ IF key \in KeysOf(Slots(o))
     THEN LET i == Position(Slots(o), key)
          IN  /\ destruct(Slots(o)[i])
              /\ heap' = [heap EXCEPT ![handle[o]].slots = RemoveAt(@, i)]
              /\ invalidate(handle[o], {key} \cup Successor(Slots(o), key))
     ELSE UNCHANGED <<heap, living, iterator, status>>
  /\ Answer("erase", o, TRUE, FALSE)
  /\ UNCHANGED <<kind, handle, call>>

-----------------------------------------------------------------------------
(* Iterators.                                                              *)

(* mutant: the adapter keeps the entry of the place before                 *)
Mut_update_adapter(slots, i, adapter) ==
  IF adapter = NULL /\ i \in DOMAIN slots THEN slots[i] ELSE adapter

(* An iterator of a map keeps a copy of the entry; at the end it keeps the *)
(* copy of the last one.  One of a set reads the key through its pointer.  *)
update_adapter(slots, i, adapter) ==
  IF kind = "map" /\ i \in DOMAIN slots THEN slots[i] ELSE adapter

(* The iterator at entry i of the container at h; a null pointer when      *)
(* there is no such entry.                                                 *)
iterator_at(h, i, adapter) ==
  LET slots == heap[h].slots
  IN  [container |-> h,
       key       |-> IF i \in DOMAIN slots THEN slots[i].key ELSE NULL,
       adapter   |-> update_adapter(slots, i, adapter)]

UsingIterator == Ready /\ iterator # NULL /\ iterator.key # NULL

begin(o) ==
  /\ Ready /\ IsTree /\ Initialized(o)
  /\ iterator' = iterator_at(handle[o], 1, NULL)
  /\ UNCHANGED <<kind, handle, heap, living, call, last, status>>

find(o, key) ==
  /\ Ready /\ IsTree /\ Initialized(o)
  /\ iterator' = iterator_at(handle[o], IF key \in KeysOf(Slots(o))
                                        THEN Position(Slots(o), key) ELSE 0, NULL)
  /\ UNCHANGED <<kind, handle, heap, living, call, last, status>>

MoveIterator(steps) ==
  /\ UsingIterator
  /\ LET h == iterator.container
     IN  iterator' = iterator_at(h, Position(heap[h].slots, iterator.key) + steps,
                                 iterator.adapter)
  /\ UNCHANGED <<kind, handle, heap, living, call, last, status>>

increment == MoveIterator(1)

decrement == MoveIterator(-1)

-----------------------------------------------------------------------------
(* clear(): one iteration of the loop that destroys the elements, or       *)
(* CMAGIC_MAP_CLEAR, which releases the entries.                           *)
clear_tree ==
  /\ Continues("clear") /\ IsTree
  /\ IF call.at <= Len(heap[Mine].slots)
     THEN /\ destruct(heap[Mine].slots[call.at])
          /\ heap' = [heap EXCEPT ![Mine].slots[call.at] = Destroyed(@)]
          /\ call' = [call EXCEPT !.at = @ + 1]
     ELSE /\ heap' = [heap EXCEPT ![Mine].slots = <<>>]
          /\ call' = [call EXCEPT !.stage = "cleared"]
          /\ UNCHANGED <<living, status>>
  /\ invalidate(Mine, Keys)
  /\ UNCHANGED <<kind, handle, last>>

(* One iteration of the loop of operator=(const map &), whose assertion    *)
(* says that no key of the source exists in the target already.            *)
copy_insert ==
  LET source == Slots(call.other)
  IN  /\ Continues("copy") /\ IsTree /\ call.at <= Len(source)
      /\ LET item == source[call.at]
         IN  \/ /\ insert_template(Mine, item)
                /\ call' = [call EXCEPT !.at = @ + 1]
             \/ /\ item.key \notin KeysOf(heap[Mine].slots)
                /\ call' = [call EXCEPT !.op = "failed_copy", !.stage = "clear", !.at = 1]
                /\ UNCHANGED <<heap, living, status>>
             \/ /\ item.key \in KeysOf(heap[Mine].slots)
                /\ status' = "aborted"
                /\ UNCHANGED <<heap, living, call>>
      /\ UNCHANGED <<kind, handle, iterator, last>>
=============================================================================
