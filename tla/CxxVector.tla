------------------------------- MODULE CxxVector -------------------------------
(***************************************************************************)
(* The elements of cmagic::vector (src/include_cxx/cmagic/vector.hpp) over *)
(* the C vector, whose thresholds and allocator are those of Vector.       *)
(* homes says at which address of the array each element was constructed:  *)
(* realloc moves elements byte by byte, without their constructors.        *)
(***************************************************************************)
EXTENDS CxxObjects

CONSTANTS
  VECTOR_MIN_CAPACITY,  (* 5 in the code                                   *)
  Addresses,            (* where realloc may place an array                *)
  OwnPushWhenFull,      (* the program pushes elements of a full vector    *)
                        (* to the vector itself                            *)
  MaxSize               (* bound on the size of a vector                   *)

ASSUME CxxVectorAssumption ==
  /\ VECTOR_MIN_CAPACITY \in Nat \ {0} /\ Addresses # {} /\ MaxSize \in Nat
  /\ OwnPushWhenFull \in BOOLEAN

(* The C vector v as the module Vector has it.                             *)
C(v) == INSTANCE Vector WITH
  alive <- TRUE, alloc_packet <- v.packet,
  size <- Len(v.slots), capacity <- v.capacity, data <- v.slots,
  last <- last, calls <- 0, copied <- 0,
  UNINIT <- RAW, OwnPushWhenFull <- FALSE, MaxCalls <- 0

(* CMAGIC_VECTOR_NEW                                                       *)
empty_vectors(packet) ==
  {[packet |-> packet, slots |-> <<>>, capacity |-> VECTOR_MIN_CAPACITY,
    address |-> a, homes |-> <<>>] : a \in Addresses}

reallocated(v, new_capacity) ==
  {[v EXCEPT !.capacity = new_capacity, !.address = a] : a \in Addresses}

(* mutant: the array does not grow                                        *)
Mut_allocate_back(v) == {v}

(* What allocate_back makes of v when it succeeds.                         *)
allocate_back(v) ==
  IF C(v)!is_full THEN reallocated(v, C(v)!grown) ELSE {v}

(* The new element is constructed behind the last one.                     *)
push_back_template(h, item) ==
  /\ \E v \in allocate_back(heap[h]) :
       heap' = [heap EXCEPT ![h] =
                  [v EXCEPT !.slots = Append(@, item), !.homes = Append(@, v.address)]]
  /\ construct(item)

(* realloc returns NULL.                                                   *)
push_back_fails(h) ==
  /\ C(heap[h])!is_full
  /\ UNCHANGED <<heap, living, status>>

(* What CMAGIC_VECTOR_POP_BACK makes of v.                                 *)
popped(v) ==
  LET w == [v EXCEPT !.slots = Front(@), !.homes = Front(@)]
  IN  IF ~C(v)!is_sparse(Len(w.slots)) THEN {w}
      ELSE reallocated(w, v.capacity \div 2) \cup (IF C(v)!ShrinkMayFail THEN {w} ELSE {})

(* mutant: the last element is not destroyed                               *)
Mut_pop_last(h) ==
  /\ \E v \in popped(heap[h]) : heap' = [heap EXCEPT ![h] = v]
  /\ UNCHANGED <<living, status>>

pop_last(h) ==
  /\ destruct(Last(heap[h].slots))
  /\ \E v \in popped(heap[h]) : heap' = [heap EXCEPT ![h] = v]

-----------------------------------------------------------------------------
(* The argument is an lvalue, an rvalue, or the arguments of a constructor *)
(* (emplace_back); only an rvalue is consumed.                             *)
Argument == {"const &", "&&", "args"}

push_back(o, item, argument) ==
  /\ Ready /\ kind = "vector" /\ IsItem(item) /\ Initialized(o)
  /\ Len(Slots(o)) < MaxSize
  /\ \/ /\ push_back_template(handle[o], item)
        /\ Answer("push_back", o, TRUE, argument = "&&")
     \/ /\ push_back_fails(handle[o])
        /\ Answer("push_back", o, FALSE, FALSE)
  /\ UNCHANGED <<kind, handle, iterator, call>>

(* The argument refers to an element of the vector itself.  When the array *)
(* has to grow, realloc may move it, and the constructor of the new        *)
(* element reads the released one.                                         *)
push_back_own(o, pos) ==
  LET full == C(heap[handle[o]])!is_full
  IN  /\ Ready /\ kind = "vector" /\ Initialized(o)
      /\ pos \in DOMAIN Slots(o) /\ Len(Slots(o)) < MaxSize
      /\ full => OwnPushWhenFull
      /\ \E released \in IF full THEN BOOLEAN ELSE {FALSE} :
           IF released
           THEN /\ status' = "undefined"
                /\ UNCHANGED <<kind, handle, heap, living, iterator, call, last>>
           ELSE /\ push_back(o, Slots(o)[pos], "const &")
                /\ heap'[handle[o]].address = heap[handle[o]].address

pop_back(o) ==
  /\ Ready /\ kind = "vector" /\ Initialized(o) /\ Slots(o) # <<>>
  /\ pop_last(handle[o])
  /\ Answer("pop_back", o, TRUE, FALSE)
  /\ UNCHANGED <<kind, handle, iterator, call>>

(* The program assigns to an element through operator[].                  *)
subscript(o, pos, item) ==
  /\ Ready /\ kind = "vector" /\ IsItem(item) /\ Initialized(o)
  /\ pos \in DOMAIN Slots(o)
  /\ heap' = [heap EXCEPT ![handle[o]].slots[pos] = item]
  /\ Answer("assign", o, TRUE, FALSE)
  /\ UNCHANGED <<kind, handle, living, iterator, call, status>>

-----------------------------------------------------------------------------
(* One iteration of clear(), or its end.                                   *)
clear_vector ==
  /\ Continues("clear") /\ kind = "vector"
  /\ IF heap[Mine].slots # <<>>
     THEN pop_last(Mine) /\ UNCHANGED call
     ELSE call' = [call EXCEPT !.stage = "cleared"] /\ UNCHANGED <<heap, living, status>>
  /\ UNCHANGED <<kind, handle, iterator, last>>

(* One iteration of the loop of operator=(const vector &).                 *)
copy_push_back ==
  LET source == Slots(call.other)
  IN  /\ Continues("copy") /\ kind = "vector" /\ call.at <= Len(source)
      /\ \/ /\ push_back_template(Mine, source[call.at])
            /\ call' = [call EXCEPT !.at = @ + 1]
         \/ /\ push_back_fails(Mine)
            /\ call' = [call EXCEPT !.op = "failed_copy", !.stage = "clear", !.at = 1]
      /\ UNCHANGED <<kind, handle, iterator, last>>
=============================================================================
