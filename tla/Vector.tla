-------------------------------- MODULE Vector --------------------------------
(***************************************************************************)
(* The vector of src/src/vector.c: a descriptor and a data array, which    *)
(* realloc doubles and halves.  The array is the function data, from the   *)
(* indexes of its capacity to elements.  An allocator may refuse a request *)
(* and may move the array or leave it where it is; the one of memory.c     *)
(* never refuses to make a block smaller (ReallocFindsRoom of Memory).     *)
(***************************************************************************)
EXTENDS Integers, Sequences

CONSTANTS
  VECTOR_MIN_CAPACITY,  (* 5 in the code                                   *)
  Values,               (* what a program stores in an element             *)
  UNINIT,               (* the contents of memory nobody wrote             *)
  OwnPushWhenFull,      (* the program pushes elements of the vector itself
                           also when the vector is full                    *)
  MaxSize,              (* bound on the size of the vector                 *)
  MaxCalls,             (* bound on the calls that push or pop             *)
  NULL

ASSUME VectorAssumption ==
  /\ VECTOR_MIN_CAPACITY \in Nat \ {0}
  /\ OwnPushWhenFull \in BOOLEAN
  /\ MaxSize \in Nat /\ MaxCalls \in Nat

VARIABLES
  alive,          (* the descriptor exists                                 *)
  alloc_packet,   (* the allocator the vector was made with                *)
  size, capacity, data,
  last,           (* the last call, its argument and its answer            *)
  calls,          (* auxiliary: successful pushes and pops since new       *)
  copied          (* auxiliary: elements realloc has copied since new      *)

vars == <<alive, alloc_packet, size, capacity, data, last, calls, copied>>

STD == "STD"
CUSTOM_CMAGIC == "CUSTOM_CMAGIC"

ShrinkMayFail == alloc_packet = STD

Elements == Values \cup {UNINIT}

MIN(x, y) == IF x < y THEN x ELSE y

Fresh(n) == [i \in 0 .. n - 1 |-> UNINIT]

(* mutant: the last element of a full array is not copied                  *)
Mut_resized(new_capacity) ==
  [i \in 0 .. new_capacity - 1 |-> IF i < size - 1 THEN data[i] ELSE UNINIT]

(* What realloc makes of the array.                                        *)
resized(new_capacity) ==
  [i \in 0 .. new_capacity - 1 |-> IF i < capacity THEN data[i] ELSE UNINIT]

Return(op, value, answer) == last' = [op |-> op, value |-> value, answer |-> answer]

-----------------------------------------------------------------------------
Init ==
  /\ alive = FALSE /\ alloc_packet = STD
  /\ size = 0 /\ capacity = 0 /\ data = Fresh(0)
  /\ last = [op |-> "none", value |-> UNINIT, answer |-> TRUE]
  /\ calls = 0 /\ copied = 0

new(packet) ==
  /\ ~alive
  /\ alive' = TRUE /\ alloc_packet' = packet
  /\ size' = 0
  /\ capacity' = VECTOR_MIN_CAPACITY
  /\ data' = Fresh(VECTOR_MIN_CAPACITY)
  /\ calls' = 0 /\ copied' = 0
  /\ Return("new", UNINIT, TRUE)

(* One of the two mallocs fails; the descriptor is freed again.            *)
new_fails ==
  /\ ~alive
  /\ Return("new", UNINIT, FALSE)
  /\ UNCHANGED <<alive, alloc_packet, size, capacity, data, calls, copied>>

(* realloc succeeds in _change_capacity.  It copies the smaller one of the *)
(* two capacities (memory.c:126), whatever the size is.                    *)
change_capacity(new_capacity) ==
  /\ capacity' = new_capacity
  /\ copied' = copied + MIN(capacity, new_capacity)

keep_capacity == UNCHANGED <<capacity, copied>>

(* mutant: the last element may lie just behind the array                  *)
Mut_is_full == size > capacity

is_full == size = capacity

grown == 2 * capacity

(* What allocate_back does to the array, and the array it leaves behind.   *)
make_room == IF is_full THEN change_capacity(grown) ELSE keep_capacity

data_with_room == IF is_full THEN resized(grown) ELSE data

(* The vector can be asked for one more element.                           *)
Pushing == alive /\ size < MaxSize /\ calls < MaxCalls

allocate_back ==
  /\ Pushing
  /\ make_room /\ data' = data_with_room
  /\ size' = size + 1
  /\ calls' = calls + 1
  /\ Return("allocate_back", UNINIT, TRUE)
  /\ UNCHANGED <<alive, alloc_packet>>

(* realloc returns NULL: push_back returns before it copies anything.      *)
push_fails(op, value) ==
  /\ Pushing /\ is_full
  /\ Return(op, value, FALSE)
  /\ UNCHANGED <<alive, alloc_packet, size, capacity, data, calls, copied>>

(* allocate_back, then memcpy of read into the last element; value is what *)
(* new_element_ptr pointed to when push_back was called.                   *)
push(value, read) ==
  /\ Pushing
  /\ make_room /\ data' = [data_with_room EXCEPT ![size] = read]
  /\ size' = size + 1
  /\ calls' = calls + 1
  /\ Return("push_back", value, TRUE)
  /\ UNCHANGED <<alive, alloc_packet>>

push_back(value) == push(value, value) \/ push_fails("push_back", value)

(* new_element_ptr points to an element of the vector itself.  When the    *)
(* array has to grow, realloc may move it, and the memcpy reads what is    *)
(* left of the old one.                                                    *)
push_back_own(i) ==
  LET what_is_left == IF is_full THEN Elements ELSE {data[i]}
  IN  /\ is_full => OwnPushWhenFull
      /\ \/ \E read \in what_is_left : push(data[i], read)
         \/ push_fails("push_back", data[i])

(* mutant: shrinks as soon as half of the capacity is unused               *)
Mut_is_sparse(n) == capacity > VECTOR_MIN_CAPACITY /\ n <= capacity \div 2

(* mutant: does not shrink when exactly a quarter is used                  *)
Mut_is_below_quarter(n) == capacity > VECTOR_MIN_CAPACITY /\ n < capacity \div 4

(* At most a quarter of the array is in use by n elements.                 *)
is_sparse(n) == capacity > VECTOR_MIN_CAPACITY /\ n <= capacity \div 4

(* mutant: the descriptor takes the new capacity before realloc succeeds   *)
Mut_pop_back ==
  /\ alive /\ size > 0 /\ calls < MaxCalls
  /\ size' = size - 1
  /\ calls' = calls + 1
  /\ IF is_sparse(size - 1)
     THEN /\ change_capacity(capacity \div 2)
          /\ data' = resized(capacity \div 2) \/ (ShrinkMayFail /\ data' = data)
     ELSE keep_capacity /\ UNCHANGED data
  /\ Return("pop_back", UNINIT, TRUE)
  /\ UNCHANGED <<alive, alloc_packet>>

(* The answer of _change_capacity is ignored.                              *)
pop_back ==
  /\ alive /\ size > 0 /\ calls < MaxCalls
  /\ size' = size - 1
  /\ calls' = calls + 1
  /\ \/ /\ is_sparse(size - 1)
        /\ change_capacity(capacity \div 2)
        /\ data' = resized(capacity \div 2)
     \/ /\ ~is_sparse(size - 1) \/ ShrinkMayFail
        /\ keep_capacity /\ UNCHANGED data
  /\ Return("pop_back", UNINIT, TRUE)
  /\ UNCHANGED <<alive, alloc_packet>>

(* The program assigns to an element through CMAGIC_VECTOR_DATA.           *)
write(i, value) ==
  /\ alive /\ i < size
  /\ data' = [data EXCEPT ![i] = value]
  /\ Return("write", value, TRUE)
  /\ UNCHANGED <<alive, alloc_packet, size, capacity, calls, copied>>

free ==
  /\ alive
  /\ alive' = FALSE /\ alloc_packet' = STD
  /\ size' = 0 /\ capacity' = 0 /\ data' = Fresh(0)
  /\ calls' = 0 /\ copied' = 0
  /\ Return("free", UNINIT, TRUE)

Next ==
  \/ \E packet \in {STD, CUSTOM_CMAGIC} : new(packet)
  \/ new_fails \/ free
  \/ allocate_back \/ push_fails("allocate_back", UNINIT)
  \/ \E value \in Values : push_back(value)
  \/ \E i \in 0 .. size - 1 : push_back_own(i)
  \/ pop_back
  \/ \E i \in 0 .. size - 1, value \in Values : write(i, value)

Spec == Init /\ [][Next]_vars

-----------------------------------------------------------------------------
(* Properties.                                                             *)

(* Types of the variables.                                                 *)
TypeOK ==
  /\ alive \in BOOLEAN /\ alloc_packet \in {STD, CUSTOM_CMAGIC}
  /\ size \in Nat /\ capacity \in Nat
  /\ data \in [0 .. capacity - 1 -> Elements]
  /\ calls \in 0 .. MaxCalls /\ copied \in Nat

(* Every element lies inside the array that realloc returned, whatever     *)
(* reallocations failed on the way; the capacity never falls below its     *)
(* minimum, from where doubling could not start.                           *)
SizeWithinCapacity ==
  alive => size <= capacity /\ VECTOR_MIN_CAPACITY <= capacity

(* Pushing and popping in any order around a threshold does not thrash:    *)
(* the elements copied by all reallocations together are at most two for   *)
(* each call, also when some of the shrinking reallocations failed.        *)
AmortisedCost == copied <= VECTOR_MIN_CAPACITY + 2 * calls

(* With the allocator of memory.c the array is less than four times as big *)
(* as the elements in it.                                                  *)
CapacityTight ==
  alive /\ ~ShrinkMayFail => capacity = VECTOR_MIN_CAPACITY \/ capacity < 4 * size

-----------------------------------------------------------------------------
(* Refinement.                                                             *)

St == INSTANCE Stack WITH
  elements <- IF alive THEN [i \in 1 .. size |-> data[i - 1]] ELSE NULL

(* No reallocation loses, moves or invents an element, and a call that     *)
(* fails modifies nothing (vector.h:85-86, 96-97).                         *)
ImplementsStack == St!Spec

-----------------------------------------------------------------------------
(* What the documentation says and the code does not do.                   *)

(* vector.h:92: the new element is initialized with the data under         *)
(* new_element_ptr.                                                        *)
PushBackCopies ==
  [][last'.op = "push_back" /\ last'.answer /\ size' > size
       => data'[size] = last'.value]_vars
=============================================================================
