---------------------------- MODULE VectorProofs ----------------------------
(***************************************************************************)
(* Proofs about the vector, for every minimum capacity, every allocator    *)
(* that may refuse or not, and every sequence of calls.                    *)
(***************************************************************************)
EXTENDS Vector, SequenceTheorems, TLAPS

-----------------------------------------------------------------------------
(* The capacities.                                                         *)

(* The numbers that doubling reaches from the minimum: the least set with  *)
(* the minimum that is closed under doubling.                              *)
ClosedUnderDoubling(S) == \A c \in S : 2 * c \in S

Doublings ==
  {c \in Nat : \A S \in SUBSET Nat :
                 VECTOR_MIN_CAPACITY \in S /\ ClosedUnderDoubling(S) => c \in S}

(* The minimum is reachable and doubling stays among the reachable ones.   *)
LEMMA DoublingsGrow ==
  /\ VECTOR_MIN_CAPACITY \in Doublings
  /\ \A c \in Doublings : 2 * c \in Doublings
<1>1. VECTOR_MIN_CAPACITY \in Doublings
  BY VectorAssumption DEF Doublings
<1>2. ASSUME NEW c \in Doublings PROVE 2 * c \in Doublings
  <2>0. c \in Nat
    BY DEF Doublings
  <2>1. 2 * c \in Nat
    BY <2>0
  <2>2. ASSUME NEW S \in SUBSET Nat, VECTOR_MIN_CAPACITY \in S, ClosedUnderDoubling(S)
        PROVE  2 * c \in S
    BY <2>2 DEF Doublings, ClosedUnderDoubling
  <2> QED BY <2>1, <2>2 DEF Doublings
<1> QED BY <1>1, <1>2

(* Reachable capacities are not below the minimum, and the other ones are  *)
(* twice a reachable one: halving loses nothing to the integer division    *)
(* and does not go below the minimum.                                      *)
LEMMA DoublingsHalve ==
  ASSUME NEW c \in Doublings
  PROVE  /\ c \in Nat /\ VECTOR_MIN_CAPACITY <= c
         /\ c > VECTOR_MIN_CAPACITY => c \div 2 \in Doublings /\ 2 * (c \div 2) = c
<1>1. c \in Nat
  BY DEF Doublings
<1>2. VECTOR_MIN_CAPACITY <= c
  <2> DEFINE S == {x \in Nat : VECTOR_MIN_CAPACITY <= x}
  <2>1. VECTOR_MIN_CAPACITY \in S /\ S \in SUBSET Nat
    BY VectorAssumption
  <2>2. ClosedUnderDoubling(S)
    BY VectorAssumption DEF ClosedUnderDoubling
  <2>3. c \in S
    BY <2>1, <2>2 DEF Doublings
  <2> QED BY <2>3
<1>3. ASSUME c > VECTOR_MIN_CAPACITY PROVE \E x \in Doublings : c = 2 * x
  <2> DEFINE S == {VECTOR_MIN_CAPACITY} \cup {2 * x : x \in Doublings}
  <2>0. Doublings \subseteq Nat
    BY DEF Doublings
  <2>1. VECTOR_MIN_CAPACITY \in S /\ S \in SUBSET Nat
    <3>1. ASSUME NEW x \in Doublings PROVE 2 * x \in Nat
      <4>1. x \in Nat
        BY <2>0
      <4> QED BY <4>1
    <3> QED BY <3>1, VectorAssumption
  <2>2. ClosedUnderDoubling(S)
    <3> SUFFICES ASSUME NEW y \in S PROVE 2 * y \in S
      BY DEF ClosedUnderDoubling
    <3>1. y \in Doublings
      BY DoublingsGrow
    <3> QED BY <3>1
  <2>3. c \in S
    BY <2>1, <2>2 DEF Doublings
  <2> QED BY <2>3, <1>1, <1>3, VectorAssumption
<1>4. ASSUME c > VECTOR_MIN_CAPACITY PROVE c \div 2 \in Doublings /\ 2 * (c \div 2) = c
  <2>1. PICK x \in Doublings : c = 2 * x
    BY <1>3, <1>4
  <2>2. x \in Nat
    BY DEF Doublings
  <2>3. c \div 2 = x
    BY <2>1, <2>2
  <2> QED BY <2>1, <2>3
<1> QED BY <1>1, <1>2, <1>4
-----------------------------------------------------------------------------
(* The inductive invariant.                                                *)

(* No call and no copy is counted while there is no vector. *)
NothingWithoutVector == ~alive => size = 0 /\ capacity = 0 /\ calls = 0 /\ copied = 0

CapacityReachable == alive => capacity \in Doublings /\ size <= capacity

(* What still may be copied without another call: copying a full or an     *)
(* almost empty array costs as much as it is away from being half full.    *)
Imbalance == IF capacity <= 2 * size THEN 2 * size - capacity ELSE capacity - 2 * size

CostPaid == alive => copied + Imbalance <= VECTOR_MIN_CAPACITY + 2 * calls

IInv == TypeOK /\ NothingWithoutVector /\ CapacityReachable /\ CostPaid /\ CapacityTight

LEMMA InitIInv == Init => IInv
<1> SUFFICES ASSUME Init PROVE IInv
  OBVIOUS
<1>1. data \in [0 .. capacity - 1 -> Elements]
  BY DEF Init, Fresh, Elements
<1>2. alive \in BOOLEAN /\ size \in Nat /\ capacity \in Nat /\ copied \in Nat
      /\ alloc_packet \in {STD, CUSTOM_CMAGIC}
  BY DEF Init
<1>3. calls \in 0 .. MaxCalls
  BY VectorAssumption DEF Init
<1>4. TypeOK
  BY <1>1, <1>2, <1>3 DEF TypeOK
<1> QED BY <1>4 DEF Init, IInv, NothingWithoutVector, CapacityReachable, CostPaid, CapacityTight

(* What the steps know about the capacity.                                 *)
LEMMA CapacityFacts ==
  ASSUME IInv, alive
  PROVE  /\ size \in Nat /\ capacity \in Nat /\ calls \in Nat /\ copied \in Nat
         /\ size <= capacity /\ VECTOR_MIN_CAPACITY <= capacity
         /\ VECTOR_MIN_CAPACITY \in Nat \ {0}
         /\ 2 * capacity \in Doublings
         /\ capacity > VECTOR_MIN_CAPACITY =>
              capacity \div 2 \in Doublings /\ 2 * (capacity \div 2) = capacity
<1>1. capacity \in Doublings /\ size <= capacity
  BY DEF IInv, CapacityReachable
<1>2. size \in Nat /\ capacity \in Nat /\ calls \in Nat /\ copied \in Nat
  BY VectorAssumption DEF IInv, TypeOK
<1> QED BY <1>1, <1>2, DoublingsGrow, DoublingsHalve, VectorAssumption

LEMMA ResizedType ==
  ASSUME TypeOK, NEW n \in Nat
  PROVE  resized(n) \in [0 .. n - 1 -> Elements]
BY DEF TypeOK, resized, Elements

(* The array that allocate_back leaves has room for one more element.      *)
LEMMA RoomType ==
  ASSUME IInv, alive, make_room
  PROVE  /\ data_with_room \in [0 .. capacity' - 1 -> Elements]
         /\ capacity' \in Nat /\ copied' \in Nat /\ size < capacity'
         /\ capacity' \in Doublings
<1>1. CASE is_full
  <2>1. capacity' = 2 * capacity /\ copied' = copied + MIN(capacity, 2 * capacity)
        /\ data_with_room = resized(2 * capacity) /\ size = capacity
    BY <1>1 DEF make_room, change_capacity, grown, data_with_room, is_full
  <2>2. 2 * capacity \in Nat /\ size < 2 * capacity
    BY <2>1, CapacityFacts
  <2>3. resized(2 * capacity) \in [0 .. 2 * capacity - 1 -> Elements]
    BY <2>2, ResizedType DEF IInv
  <2>4. MIN(capacity, 2 * capacity) \in Nat
    BY <2>2, CapacityFacts DEF MIN
  <2> QED BY <2>1, <2>2, <2>3, <2>4, CapacityFacts
<1>2. CASE ~is_full
  <2>1. capacity' = capacity /\ copied' = copied /\ data_with_room = data /\ size # capacity
    BY <1>2 DEF make_room, keep_capacity, data_with_room, is_full
  <2> QED BY <2>1, CapacityFacts DEF IInv, TypeOK, CapacityReachable
<1> QED BY <1>1, <1>2

(* A growing array was full: copying it is paid for by the calls that      *)
(* filled it, and afterwards it is half full.                              *)
LEMMA RoomCost ==
  ASSUME IInv, alive, make_room, size' = size + 1, calls' = calls + 1, alive'
  PROVE  CostPaid'
<1>0. copied + Imbalance <= VECTOR_MIN_CAPACITY + 2 * calls
  BY DEF IInv, CostPaid
<1>1. CASE is_full
  <2>1. capacity' = 2 * capacity /\ copied' = copied + MIN(capacity, 2 * capacity)
        /\ size = capacity
    BY <1>1 DEF make_room, change_capacity, grown, is_full
  <2>2. MIN(capacity, 2 * capacity) = capacity
    BY CapacityFacts DEF MIN
  <2>3. Imbalance = capacity /\ Imbalance' = 2
    BY <2>1, CapacityFacts DEF Imbalance
  <2> QED BY <1>0, <2>1, <2>2, <2>3, CapacityFacts DEF CostPaid
<1>2. CASE ~is_full
  <2>1. capacity' = capacity /\ copied' = copied
    BY <1>2 DEF make_room, keep_capacity
  <2>2. Imbalance' \in Nat /\ Imbalance \in Nat /\ Imbalance' <= Imbalance + 2
    BY <2>1, CapacityFacts DEF Imbalance
  <2> QED BY <1>0, <2>1, <2>2, CapacityFacts DEF CostPaid
<1> QED BY <1>1, <1>2

LEMMA RoomTight ==
  ASSUME IInv, alive, make_room, size' = size + 1, alloc_packet' = alloc_packet
  PROVE  CapacityTight'
<1>1. CASE is_full
  <2>1. capacity' = 2 * capacity /\ size = capacity
    BY <1>1 DEF make_room, change_capacity, grown, is_full
  <2> QED BY <2>1, CapacityFacts DEF CapacityTight
<1>2. CASE ~is_full
  <2>1. capacity' = capacity
    BY <1>2 DEF make_room, keep_capacity
  <2> QED BY <2>1, CapacityFacts DEF IInv, CapacityTight, ShrinkMayFail
<1> QED BY <1>1, <1>2

-----------------------------------------------------------------------------
(* The steps.                                                              *)

LEMMA NewIInv ==
  ASSUME IInv, NEW packet \in {STD, CUSTOM_CMAGIC}, new(packet)
  PROVE  IInv'
<1>1. Fresh(VECTOR_MIN_CAPACITY) \in [0 .. VECTOR_MIN_CAPACITY - 1 -> Elements]
  BY DEF Fresh, Elements
<1>2. TypeOK'
  BY <1>1, VectorAssumption DEF new, TypeOK
<1>3. Imbalance' = VECTOR_MIN_CAPACITY
  BY VectorAssumption DEF new, Imbalance
<1>4. CostPaid'
  BY <1>3, VectorAssumption DEF new, CostPaid
<1>5. CapacityReachable'
  BY DoublingsGrow, VectorAssumption DEF new, CapacityReachable
<1> QED BY <1>2, <1>4, <1>5 DEF new, IInv, NothingWithoutVector, CapacityTight

LEMMA AllocateBackIInv ==
  ASSUME IInv, allocate_back
  PROVE  IInv'
<1>1. alive /\ make_room /\ size' = size + 1 /\ calls' = calls + 1 /\ alive' = alive
      /\ alloc_packet' = alloc_packet /\ data' = data_with_room /\ calls < MaxCalls
  BY DEF allocate_back, Pushing
<1>2. TypeOK'
  BY <1>1, RoomType, CapacityFacts, VectorAssumption DEF IInv, TypeOK
<1>3. CapacityReachable'
  BY <1>1, RoomType, CapacityFacts DEF CapacityReachable
<1> QED BY <1>1, <1>2, <1>3, RoomCost, RoomTight DEF IInv, NothingWithoutVector

LEMMA PushIInv ==
  ASSUME IInv, NEW value, NEW read \in Elements, push(value, read)
  PROVE  IInv'
<1>1. alive /\ make_room /\ size' = size + 1 /\ calls' = calls + 1 /\ alive' = alive
      /\ alloc_packet' = alloc_packet /\ data' = [data_with_room EXCEPT ![size] = read]
      /\ calls < MaxCalls
  BY DEF push, Pushing
<1>2. data' \in [0 .. capacity' - 1 -> Elements]
  BY <1>1, RoomType
<1>3. TypeOK'
  BY <1>1, <1>2, RoomType, CapacityFacts, VectorAssumption DEF IInv, TypeOK
<1>4. CapacityReachable'
  BY <1>1, RoomType, CapacityFacts DEF CapacityReachable
<1> QED BY <1>1, <1>3, <1>4, RoomCost, RoomTight DEF IInv, NothingWithoutVector

LEMMA PopBackIInv ==
  ASSUME IInv, pop_back
  PROVE  IInv'
<1>1. alive /\ alive' = alive /\ alloc_packet' = alloc_packet /\ size > 0
      /\ size' = size - 1 /\ calls < MaxCalls /\ calls' = calls + 1
  BY DEF pop_back
<1>2. copied + Imbalance <= VECTOR_MIN_CAPACITY + 2 * calls
  BY <1>1 DEF IInv, CostPaid
<1>3. calls' \in 0 .. MaxCalls /\ size' \in Nat
  BY <1>1, CapacityFacts, VectorAssumption
<1>4. CASE is_sparse(size - 1) /\ change_capacity(capacity \div 2)
           /\ data' = resized(capacity \div 2)
  <2> DEFINE half == capacity \div 2
  <2>1. half \in Doublings /\ 2 * half = capacity /\ half \in Nat
        /\ VECTOR_MIN_CAPACITY <= half
    BY <1>1, <1>4, CapacityFacts, DoublingsHalve DEF is_sparse
  <2>2. size - 1 <= capacity \div 4 /\ capacity > VECTOR_MIN_CAPACITY
    BY <1>4 DEF is_sparse
  <2>3. 4 * (size - 1) <= 2 * half
    BY <1>1, <2>1, <2>2, CapacityFacts
  <2>4. capacity' = half /\ copied' = copied + MIN(capacity, half) /\ data' = resized(half)
    BY <1>4 DEF change_capacity
  <2> HIDE DEF half
  <2>5. MIN(capacity, half) = half
    BY <2>1 DEF MIN
  <2>6. data' \in [0 .. half - 1 -> Elements]
    BY <2>1, <2>4, ResizedType DEF IInv
  <2>7. TypeOK'
    BY <1>1, <1>3, <2>1, <2>4, <2>5, <2>6, CapacityFacts DEF IInv, TypeOK
  <2>8. CapacityReachable'
    BY <1>1, <2>1, <2>3, <2>4, CapacityFacts DEF CapacityReachable
  <2>9. CostPaid'
    <3>1. Imbalance' = half - 2 * (size - 1) /\ Imbalance >= 2 * half - 2 * size
          /\ Imbalance \in Nat
      BY <1>1, <2>1, <2>3, <2>4, CapacityFacts DEF Imbalance
    <3> QED BY <1>1, <1>2, <2>1, <2>4, <2>5, <3>1, CapacityFacts DEF CostPaid
  <2>10. CapacityTight'
    <3> SUFFICES ASSUME ~ShrinkMayFail
                 PROVE  half = VECTOR_MIN_CAPACITY \/ half < 4 * (size - 1)
      BY <1>1, <2>4 DEF CapacityTight, ShrinkMayFail
    <3>1. 2 * half < 4 * size
      BY <1>1, <2>1, <2>2, CapacityFacts DEF IInv, CapacityTight
    <3>2. size \in Nat /\ VECTOR_MIN_CAPACITY \in Nat \ {0}
      BY <1>1, CapacityFacts
    <3>3. CASE size >= 2
      BY <2>1, <3>1, <3>2, <3>3
    <3>4. CASE size = 1
      BY <2>1, <3>1, <3>2, <3>4
    <3> QED BY <1>1, <3>2, <3>3, <3>4
  <2> QED BY <1>1, <2>7, <2>8, <2>9, <2>10 DEF IInv, NothingWithoutVector
<1>5. CASE (~is_sparse(size - 1) \/ ShrinkMayFail) /\ keep_capacity /\ UNCHANGED data
  <2>1. capacity' = capacity /\ copied' = copied /\ data' = data
    BY <1>5 DEF keep_capacity
  <2>2. TypeOK'
    BY <1>1, <1>3, <2>1 DEF IInv, TypeOK
  <2>3. CapacityReachable'
    BY <1>1, <2>1, CapacityFacts DEF IInv, CapacityReachable
  <2>4. CostPaid'
    <3>1. Imbalance' \in Nat /\ Imbalance \in Nat /\ Imbalance' <= Imbalance + 2
      BY <1>1, <2>1, CapacityFacts DEF Imbalance
    <3> QED BY <1>1, <1>2, <2>1, <3>1, CapacityFacts DEF CostPaid
  <2>5. CapacityTight'
    <3> SUFFICES ASSUME ~ShrinkMayFail, capacity > VECTOR_MIN_CAPACITY
                 PROVE  capacity < 4 * (size - 1)
      BY <1>1, <2>1, CapacityFacts DEF CapacityTight, ShrinkMayFail
    <3>1. capacity \div 4 < size - 1
      BY <1>1, <1>5, CapacityFacts DEF is_sparse
    <3> QED BY <1>1, <3>1, CapacityFacts
  <2> QED BY <1>1, <2>2, <2>3, <2>4, <2>5 DEF IInv, NothingWithoutVector
<1> QED BY <1>4, <1>5 DEF pop_back

(* Steps that leave the capacity, the size and the counters alone.         *)
LEMMA WriteIInv ==
  ASSUME IInv, NEW i \in 0 .. size - 1, NEW value \in Values, write(i, value)
  PROVE  IInv'
<1>1. data' \in [0 .. capacity - 1 -> Elements]
  BY DEF IInv, TypeOK, write, Elements
<1>2. TypeOK'
  BY <1>1 DEF IInv, TypeOK, write
<1>3. NothingWithoutVector' /\ CapacityReachable' /\ CostPaid' /\ CapacityTight'
  BY DEF IInv, write, NothingWithoutVector, CapacityReachable, CostPaid, Imbalance,
         CapacityTight, ShrinkMayFail
<1> QED BY <1>2, <1>3 DEF IInv

LEMMA UnchangedIInv ==
  ASSUME IInv, UNCHANGED <<alive, alloc_packet, size, capacity, data, calls, copied>>
  PROVE  IInv'
BY DEF IInv, TypeOK, NothingWithoutVector, CapacityReachable, CostPaid, Imbalance,
       CapacityTight, ShrinkMayFail

LEMMA FreeIInv ==
  ASSUME IInv, free
  PROVE  IInv'
<1>1. Fresh(0) \in [0 .. 0 - 1 -> Elements]
  BY DEF Fresh, Elements
<1>2. data' \in [0 .. capacity' - 1 -> Elements]
  BY <1>1 DEF free
<1>3. calls' \in 0 .. MaxCalls
  BY VectorAssumption DEF free
<1>4. TypeOK'
  BY <1>2, <1>3 DEF free, TypeOK
<1> QED BY <1>4 DEF free, IInv, NothingWithoutVector, CapacityReachable, CostPaid, CapacityTight

LEMMA NextIInv == IInv /\ [Next]_vars => IInv'
<1> SUFFICES ASSUME IInv, [Next]_vars PROVE IInv'
  OBVIOUS
<1>1. ASSUME NEW packet \in {STD, CUSTOM_CMAGIC}, new(packet) PROVE IInv'
  BY <1>1, NewIInv
<1>2. CASE new_fails
  BY <1>2, UnchangedIInv DEF new_fails
<1>3. CASE free
  BY <1>3, FreeIInv
<1>4. CASE allocate_back
  BY <1>4, AllocateBackIInv
<1>5. ASSUME NEW op, NEW value, push_fails(op, value) PROVE IInv'
  BY <1>5, UnchangedIInv DEF push_fails
<1>6. ASSUME NEW value \in Values, push_back(value) PROVE IInv'
  <2>1. value \in Elements
    BY DEF Elements
  <2> QED BY <1>5, <1>6, <2>1, PushIInv DEF push_back
<1>7. ASSUME NEW i \in 0 .. size - 1, push_back_own(i) PROVE IInv'
  <2>1. data[i] \in Elements
    <3>1. alive
      BY <1>7 DEF push_back_own, push, push_fails, Pushing
    <3>2. i \in 0 .. capacity - 1
      BY <3>1, CapacityFacts
    <3> QED BY <3>2 DEF IInv, TypeOK
  <2>2. ASSUME NEW read \in IF is_full THEN Elements ELSE {data[i]}
        PROVE  read \in Elements
    BY <2>1
  <2> QED BY <1>5, <1>7, <2>2, PushIInv DEF push_back_own
<1>8. CASE pop_back
  BY <1>8, PopBackIInv
<1>9. ASSUME NEW i \in 0 .. size - 1, NEW value \in Values, write(i, value) PROVE IInv'
  BY <1>9, WriteIInv
<1>10. CASE UNCHANGED vars
  BY <1>10, UnchangedIInv DEF vars
<1> QED BY <1>1, <1>2, <1>3, <1>4, <1>5, <1>6, <1>7, <1>8, <1>9, <1>10 DEF Next

-----------------------------------------------------------------------------
(* The theorems.                                                           *)

THEOREM Invariance == Spec => []IInv
BY InitIInv, NextIInv, PTL DEF Spec

(* The variables keep their types: the array always has the capacity that  *)
(* the descriptor says it has.                                             *)
THEOREM TypeCorrect == Spec => []TypeOK
<1>1. IInv => TypeOK
  BY DEF IInv
<1> QED BY <1>1, Invariance, PTL

(* No element is ever outside of the array, and the capacity never falls   *)
(* below the minimum.                                                      *)
THEOREM ElementsInside == Spec => []SizeWithinCapacity
<1>1. IInv => SizeWithinCapacity
  BY CapacityFacts DEF SizeWithinCapacity
<1> QED BY <1>1, Invariance, PTL

(* n calls copy at most 2n elements and the minimum capacity, whatever the *)
(* order of the calls and whatever shrinking reallocations fail.           *)
THEOREM CostIsAmortised == Spec => []AmortisedCost
<1>1. ASSUME IInv PROVE AmortisedCost
  <2>1. CASE alive
    <3>1. Imbalance \in Nat
      BY <1>1, <2>1, CapacityFacts DEF Imbalance
    <3> QED BY <1>1, <2>1, <3>1, CapacityFacts DEF IInv, CostPaid, AmortisedCost
  <2>2. CASE ~alive
    BY <1>1, <2>2, VectorAssumption DEF IInv, NothingWithoutVector, AmortisedCost
  <2> QED BY <2>1, <2>2
<1> QED BY <1>1, Invariance, PTL

(* With the allocator of memory.c at least a quarter of the array is in    *)
(* use, or it has the minimum capacity.                                    *)
THEOREM CapacityIsTight == Spec => []CapacityTight
<1>1. IInv => CapacityTight
  BY DEF IInv
<1> QED BY <1>1, Invariance, PTL
-----------------------------------------------------------------------------
(* The vector implements a stack.                                          *)

(* The sequence of the first n elements of an array. *)
FirstElements(array, n) == [i \in 1 .. n |-> array[i - 1]]

View == IF alive THEN FirstElements(data, size) ELSE NULL

LEMMA FirstElementsSeq ==
  ASSUME NEW n \in Nat, NEW c \in Nat, n <= c, NEW array \in [0 .. c - 1 -> Elements]
  PROVE  /\ FirstElements(array, n) \in Seq(Elements)
         /\ Len(FirstElements(array, n)) = n
         /\ \A i \in 1 .. n : FirstElements(array, n)[i] = array[i - 1]
<1>1. ASSUME NEW i \in 1 .. n PROVE array[i - 1] \in Elements
  OBVIOUS
<1> QED BY <1>1 DEF FirstElements

(* An array with the same elements shows the same sequence.                *)
LEMMA FirstElementsSame ==
  ASSUME NEW n \in Nat, NEW a, NEW b, \A i \in 0 .. n - 1 : a[i] = b[i]
  PROVE  FirstElements(a, n) = FirstElements(b, n)
<1>1. ASSUME NEW i \in 1 .. n PROVE a[i - 1] = b[i - 1]
  OBVIOUS
<1> QED BY <1>1 DEF FirstElements

(* Growing keeps every element where it is.                                *)
LEMMA RoomKeeps ==
  ASSUME IInv, alive
  PROVE  \A i \in 0 .. size - 1 : data_with_room[i] = data[i]
<1> SUFFICES ASSUME NEW i \in 0 .. size - 1 PROVE data_with_room[i] = data[i]
  OBVIOUS
<1>1. i \in 0 .. 2 * capacity - 1 /\ i < capacity
  BY CapacityFacts
<1>2. resized(2 * capacity)[i] = data[i]
  BY <1>1 DEF resized
<1> QED BY <1>2 DEF data_with_room, grown

(* allocate_back and push_back append what they leave in the new element.  *)
LEMMA PushAppends ==
  ASSUME IInv, alive, make_room, size' = size + 1, alive' = alive,
         data' \in [0 .. capacity' - 1 -> Elements],
         \A i \in 0 .. size - 1 : data'[i] = data_with_room[i]
  PROVE  View' = Append(View, data'[size]) /\ data'[size] \in Elements
<1>1. size \in Nat /\ capacity \in Nat /\ size <= capacity
      /\ capacity' \in Nat /\ size + 1 <= capacity'
  BY CapacityFacts, RoomType
<1>2. data \in [0 .. capacity - 1 -> Elements]
  BY DEF IInv, TypeOK
<1>3. data'[size] \in Elements
  <2>1. size \in 0 .. capacity' - 1
    BY RoomType, CapacityFacts
  <2> QED BY <2>1
<1> DEFINE old == FirstElements(data, size)
           new1 == FirstElements(data', size + 1)
<1>4. old \in Seq(Elements) /\ Len(old) = size /\ \A i \in 1 .. size : old[i] = data[i - 1]
  BY <1>1, <1>2, FirstElementsSeq
<1>5. new1 \in Seq(Elements) /\ Len(new1) = size + 1
      /\ \A i \in 1 .. size + 1 : new1[i] = data'[i - 1]
  BY <1>1, FirstElementsSeq
<1> HIDE DEF old, new1
<1>6. /\ Append(old, data'[size]) \in Seq(Elements)
      /\ Len(Append(old, data'[size])) = size + 1
      /\ \A i \in 1 .. size : Append(old, data'[size])[i] = old[i]
      /\ Append(old, data'[size])[size + 1] = data'[size]
  BY <1>3, <1>4, AppendProperties
<1>7. ASSUME NEW i \in 1 .. size + 1 PROVE new1[i] = Append(old, data'[size])[i]
  <2>1. CASE i = size + 1
    <3>1. new1[i] = data'[size]
      BY <1>1, <1>5, <2>1
    <3> QED BY <1>6, <2>1, <3>1
  <2>2. CASE i # size + 1
    <3>1. i \in 1 .. size /\ i - 1 \in 0 .. size - 1
      BY <1>1, <2>2
    <3>2. data'[i - 1] = data_with_room[i - 1] /\ data_with_room[i - 1] = data[i - 1]
      BY <3>1, RoomKeeps
    <3> QED BY <1>4, <1>5, <1>6, <3>1, <3>2
  <2> QED BY <2>1, <2>2
<1>8. new1 = Append(old, data'[size])
  BY <1>5, <1>6, <1>7, SeqEqual
<1>9. View' = new1 /\ View = old
  BY DEF View, old, new1
<1> QED BY <1>3, <1>8, <1>9

(* NULL is not a sequence of elements.                                     *)
NullIsNoSequence == NULL \notin Seq(Elements)

LEMMA ViewIsSequence ==
  ASSUME IInv, alive
  PROVE  View \in Seq(Elements) /\ Len(View) = size
<1>1. size \in Nat /\ capacity \in Nat /\ size <= capacity
  BY CapacityFacts
<1>2. data \in [0 .. capacity - 1 -> Elements]
  BY DEF IInv, TypeOK
<1> QED BY <1>1, <1>2, FirstElementsSeq DEF View

LEMMA AllocateBackRefines ==
  ASSUME IInv, NullIsNoSequence, allocate_back
  PROVE  St!AllocateBack
<1>1. alive /\ make_room /\ size' = size + 1 /\ alive' = alive /\ data' = data_with_room
  BY DEF allocate_back, Pushing
<1>2. data' \in [0 .. capacity' - 1 -> Elements]
  BY <1>1, RoomType
<1>3. View' = Append(View, data'[size]) /\ data'[size] \in Elements
  BY <1>1, <1>2, PushAppends
<1>4. View # NULL
  BY <1>1, ViewIsSequence DEF NullIsNoSequence
<1>5. \E any \in Values \cup {UNINIT} : View' = Append(View, any)
  BY <1>3 DEF Elements
<1>6. last' = [op |-> "allocate_back", value |-> UNINIT, answer |-> TRUE]
  BY DEF allocate_back, Return
<1> QED BY <1>4, <1>5, <1>6 DEF View, FirstElements, St!AllocateBack, St!Said

LEMMA PushRefines ==
  ASSUME IInv, NullIsNoSequence, NEW value \in Elements, push(value, value)
  PROVE  St!PushBack(value)
<1>1. alive /\ make_room /\ size' = size + 1 /\ alive' = alive
      /\ data' = [data_with_room EXCEPT ![size] = value]
  BY DEF push, Pushing
<1>2. data_with_room \in [0 .. capacity' - 1 -> Elements] /\ size \in 0 .. capacity' - 1
  BY <1>1, RoomType, CapacityFacts
<1>3. /\ data' \in [0 .. capacity' - 1 -> Elements] /\ data'[size] = value
      /\ \A i \in 0 .. size - 1 : data'[i] = data_with_room[i]
  BY <1>1, <1>2
<1>4. View' = Append(View, value)
  BY <1>1, <1>3, PushAppends
<1>5. View # NULL
  BY <1>1, ViewIsSequence DEF NullIsNoSequence
<1>6. last' = [op |-> "push_back", value |-> value, answer |-> TRUE]
  BY DEF push, Return
<1> QED BY <1>4, <1>5, <1>6 DEF View, FirstElements, St!PushBack, St!Said

LEMMA PushFailsRefines ==
  ASSUME IInv, NullIsNoSequence, NEW op, NEW value, push_fails(op, value)
  PROVE  /\ op = "push_back" => St!PushBack(value)
         /\ op = "allocate_back" /\ value = UNINIT => St!AllocateBack
<1>1. View' = View /\ View # NULL
  BY ViewIsSequence DEF push_fails, Pushing, View, FirstElements, NullIsNoSequence
<1>2. last' = [op |-> op, value |-> value, answer |-> FALSE]
  BY DEF push_fails, Return
<1> QED BY <1>1, <1>2 DEF View, FirstElements, St!PushBack, St!AllocateBack, St!Said

LEMMA PopBackRefines ==
  ASSUME IInv, NullIsNoSequence, pop_back
  PROVE  St!PopBack
<1>1. alive /\ alive' = alive /\ size' = size - 1 /\ size > 0
  BY DEF pop_back
<1>2. IInv'
  BY PopBackIInv
<1>3. View \in Seq(Elements) /\ Len(View) = size
      /\ \A i \in 1 .. size : View[i] = data[i - 1]
  BY <1>1, ViewIsSequence DEF View, FirstElements
<1>4. size \in Nat /\ size' \in Nat /\ capacity \in Nat /\ capacity' \in Nat
      /\ size <= capacity /\ size' <= capacity'
  BY <1>1, <1>2, CapacityFacts DEF IInv, TypeOK, CapacityReachable
<1>5. ASSUME NEW i \in 0 .. size - 2 PROVE data'[i] = data[i]
  <2>1. CASE data' = resized(capacity \div 2) /\ change_capacity(capacity \div 2)
    <3>1. i \in 0 .. capacity \div 2 - 1 /\ i < capacity
      BY <1>1, <1>4, <2>1 DEF change_capacity
    <3> QED BY <2>1, <3>1 DEF resized
  <2>2. CASE data' = data
    BY <2>2
  <2> QED BY <2>1, <2>2 DEF pop_back
<1>6. data' \in [0 .. capacity' - 1 -> Elements]
  BY <1>2 DEF IInv, TypeOK
<1> DEFINE new1 == FirstElements(data', size')
<1>7. new1 \in Seq(Elements) /\ Len(new1) = size - 1
      /\ \A i \in 1 .. size - 1 : new1[i] = data'[i - 1]
  BY <1>1, <1>4, <1>6, FirstElementsSeq
<1> HIDE DEF new1
<1>8. /\ SubSeq(View, 1, size - 1) \in Seq(Elements)
      /\ Len(SubSeq(View, 1, size - 1)) = size - 1
      /\ \A i \in 1 .. size - 1 : SubSeq(View, 1, size - 1)[i] = View[i]
  <2>1. 1 \in Int /\ size - 1 \in Int /\ \A i \in 1 .. size - 1 : View[i] \in Elements
    BY <1>3, <1>4, ElementOfSeq
  <2>2. /\ SubSeq(View, 1, size - 1) \in Seq(Elements)
        /\ Len(SubSeq(View, 1, size - 1)) = IF 1 <= size - 1 THEN size - 1 - 1 + 1 ELSE 0
        /\ \A i \in 1 .. size - 1 - 1 + 1 : SubSeq(View, 1, size - 1)[i] = View[1 + i - 1]
    BY <2>1, SubSeqProperties
  <2> HIDE DEF View
  <2> QED BY <1>1, <1>4, <2>2
<1>9. ASSUME NEW i \in 1 .. size - 1 PROVE new1[i] = SubSeq(View, 1, size - 1)[i]
  <2>1. i - 1 \in 0 .. size - 2 /\ i \in 1 .. size
    BY <1>4
  <2> QED BY <1>3, <1>5, <1>7, <1>8, <2>1
<1>10. new1 = SubSeq(View, 1, size - 1)
  BY <1>7, <1>8, <1>9, SeqEqual
<1>11. View' = new1
  BY <1>1 DEF View, new1
<1>12. View' = SubSeq(View, 1, Len(View) - 1) /\ View # NULL /\ View # <<>>
  BY <1>1, <1>3, <1>4, <1>10, <1>11, EmptySeq DEF NullIsNoSequence
<1>13. last' = [op |-> "pop_back", value |-> UNINIT, answer |-> TRUE]
  BY DEF pop_back, Return
<1> QED BY <1>12, <1>13 DEF View, FirstElements, St!PopBack, St!Front, St!Said

LEMMA WriteRefines ==
  ASSUME IInv, NullIsNoSequence, NEW i \in 0 .. size - 1, NEW value \in Values,
         write(i, value)
  PROVE  /\ View # NULL
         /\ i + 1 \in DOMAIN View
         /\ St!Write(i + 1, value)
<1>1. alive /\ alive' = alive /\ size' = size /\ data' = [data EXCEPT ![i] = value]
  BY DEF write
<1>2. size \in Nat /\ capacity \in Nat /\ size <= capacity
  BY <1>1, CapacityFacts
<1>3. data \in [0 .. capacity - 1 -> Elements] /\ i \in 0 .. capacity - 1
  BY <1>2 DEF IInv, TypeOK
<1>4. View = [j \in 1 .. size |-> data[j - 1]] /\ View' = [j \in 1 .. size |-> data'[j - 1]]
  BY <1>1 DEF View, FirstElements
<1>5. ASSUME NEW j \in 1 .. size
      PROVE  data'[j - 1] = IF j = i + 1 THEN value ELSE data[j - 1]
  <2>1. j - 1 \in 0 .. capacity - 1 /\ (j - 1 = i <=> j = i + 1)
    BY <1>2
  <2> QED BY <1>1, <1>3, <2>1
<1>6. View' = [View EXCEPT ![i + 1] = value]
  BY <1>4, <1>5
<1>7. i + 1 \in DOMAIN View
  BY <1>2, <1>4
<1>8. View # NULL
  BY <1>1, ViewIsSequence DEF NullIsNoSequence
<1>9. last' = [op |-> "write", value |-> value, answer |-> TRUE]
  BY DEF write, Return
<1> QED BY <1>6, <1>7, <1>8, <1>9 DEF View, FirstElements, St!Write, St!Said

LEMMA NewAndFreeRefine ==
  ASSUME IInv, NullIsNoSequence
  PROVE  /\ \A packet \in {STD, CUSTOM_CMAGIC} : new(packet) => St!New
         /\ new_fails => St!New
         /\ free => St!Free
<1>1. ASSUME NEW packet, new(packet) PROVE St!New
  <2>1. View = NULL /\ View' = FirstElements(data', 0)
    BY <1>1 DEF new, View
  <2>2. FirstElements(data', 0) = <<>>
    BY DEF FirstElements
  <2>3. last' = [op |-> "new", value |-> UNINIT, answer |-> TRUE]
    BY <1>1 DEF new, Return
  <2> QED BY <2>1, <2>2, <2>3 DEF View, FirstElements, St!New, St!Said
<1>2. ASSUME new_fails PROVE St!New
  BY <1>2 DEF new_fails, Return, St!New, St!Said
<1>3. ASSUME free PROVE St!Free
  <2>1. View # NULL
    BY <1>3, ViewIsSequence DEF free, NullIsNoSequence
  <2>2. alive' = FALSE /\ last' = [op |-> "free", value |-> UNINIT, answer |-> TRUE]
    BY <1>3 DEF free, Return
  <2> QED BY <2>1, <2>2 DEF View, FirstElements, St!Free, St!Said
<1> QED BY <1>1, <1>2, <1>3

LEMMA StepRefines ==
  ASSUME IInv, NullIsNoSequence, ~OwnPushWhenFull, [Next]_vars
  PROVE  [St!Next]_<<View, last>>
<1>1. ASSUME NEW packet \in {STD, CUSTOM_CMAGIC}, new(packet) PROVE St!Next
  BY <1>1, NewAndFreeRefine DEF St!Next
<1>2. ASSUME new_fails PROVE St!Next
  BY <1>2, NewAndFreeRefine DEF St!Next
<1>3. ASSUME free PROVE St!Next
  BY <1>3, NewAndFreeRefine DEF St!Next
<1>4. ASSUME allocate_back PROVE St!Next
  BY <1>4, AllocateBackRefines DEF St!Next
<1>5. ASSUME push_fails("allocate_back", UNINIT) PROVE St!Next
  BY <1>5, PushFailsRefines DEF St!Next
<1>6. ASSUME NEW value \in Elements, push(value, value) \/ push_fails("push_back", value)
      PROVE  St!Next
  <2>1. St!PushBack(value)
    BY <1>6, PushRefines, PushFailsRefines
  <2> QED BY <2>1 DEF St!Next, Elements
<1>7. ASSUME NEW value \in Values, push_back(value) PROVE St!Next
  <2>1. value \in Elements
    BY DEF Elements
  <2> QED BY <1>6, <1>7, <2>1 DEF push_back
<1>8. ASSUME NEW i \in 0 .. size - 1, push_back_own(i) PROVE St!Next
  <2>1. alive
    BY <1>8 DEF push_back_own, push, push_fails, Pushing
  <2>2. i \in 0 .. capacity - 1
    BY <2>1, CapacityFacts
  <2>3. data[i] \in Elements
    BY <2>2 DEF IInv, TypeOK
  <2>4. push(data[i], data[i]) \/ push_fails("push_back", data[i])
    BY <1>8 DEF push_back_own
  <2> QED BY <1>6, <2>3, <2>4
<1>9. ASSUME pop_back PROVE St!Next
  BY <1>9, PopBackRefines DEF St!Next
<1>10. ASSUME NEW i \in 0 .. size - 1, NEW value \in Values, write(i, value) PROVE St!Next
  <2>1. View # NULL /\ i + 1 \in DOMAIN View /\ St!Write(i + 1, value)
    BY <1>10, WriteRefines
  <2> QED BY <2>1 DEF View, FirstElements, St!Next
<1>11. ASSUME UNCHANGED vars PROVE UNCHANGED <<View, last>>
  BY <1>11 DEF vars, View, FirstElements
<1> QED BY <1>1, <1>2, <1>3, <1>4, <1>5, <1>7, <1>8, <1>9, <1>10, <1>11 DEF Next

(* When the program does not push an element of the full vector itself,    *)
(* the array with its growing and shrinking implements a stack: a call     *)
(* appends, removes or replaces one element and a failing call none.       *)
THEOREM VectorImplementsStack ==
  ASSUME NullIsNoSequence, ~OwnPushWhenFull
  PROVE  Spec => ImplementsStack
<1>1. Init => St!Init
  BY DEF Init, St!Init
<1>2. IInv /\ [Next]_vars => [St!Next]_<<View, last>>
  BY StepRefines
<1> QED BY <1>1, <1>2, Invariance, PTL DEF Spec, ImplementsStack, St!Spec, View, FirstElements
=============================================================================
