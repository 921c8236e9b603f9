----------------------------- MODULE HeapProofs -----------------------------
(***************************************************************************)
(* Proof that the allocator of Memory implements the abstract heap of      *)
(* Heap, for all pools that fit (PoolsFit), all sizes that need a block of *)
(* data and whose block counts do not wrap, and every sequence of calls.   *)
(***************************************************************************)
EXTENDS MemoryHeldProofs

-----------------------------------------------------------------------------
(* The regions of the abstract heap are the blocks that are held.          *)
LEMMA RegionsOfList ==
  ASSUME NEW h, DOMAIN h \subseteq Int, NEW hd, Lists(h, hd)
  PROVE  [ptr \in {data_begin(n) : n \in DOMAIN h \ {0}} |->
            h[associated_node(ptr)].allocated_bytes] = hd
<1> DEFINE D == {data_begin(n) : n \in DOMAIN h \ {0}}
<1>1. \A ptr \in DOMAIN hd : ptr \in Int /\ associated_node(ptr) \in DOMAIN h \ {0}
                             /\ ptr = data_begin(associated_node(ptr))
  BY DEF Lists, associated_node, data_begin
<1>2. \A n \in DOMAIN h \ {0} : data_begin(n) \in DOMAIN hd
  BY DEF Lists, associated_node, data_begin
<1>3. D = DOMAIN hd
  BY <1>1, <1>2
<1> HIDE DEF D
<1>4. hd = [ptr \in D |-> hd[ptr]]
      /\ \A ptr \in D : h[associated_node(ptr)].allocated_bytes = hd[ptr]
  BY <1>3 DEF Lists
<1>5. [ptr \in D |-> h[associated_node(ptr)].allocated_bytes] = hd
  BY <1>4
<1> QED BY <1>5 DEF D

(* The same before and after a step of Memory.                             *)
LEMMA LiveIsHeld ==
  /\ IInv /\ HeldLists => HeapLive = held
  /\ IInv' /\ HeldLists' => HeapLive' = held'
<1>1. ASSUME IInv, HeldLists PROVE HeapLive = held
  <2>1. DOMAIN node \subseteq Int
    BY <1>1 DEF IInv, PoolOK, WellFormed, EmptyFn
  <2> QED BY <1>1, <2>1, RegionsOfList DEF HeldLists, HeapLive, Live
<1>2. ASSUME IInv', HeldLists' PROVE HeapLive' = held'
  <2>1. DOMAIN node' \subseteq Int
    BY <1>2 DEF IInv, PoolOK, WellFormed, EmptyFn
  <2> QED BY <1>2, <2>1, RegionsOfList DEF HeldLists, HeapLive, Live
<1> QED BY <1>1, <1>2

-----------------------------------------------------------------------------
(* Blocks of a list, in bytes.                                             *)

Bytes(ptr, size) == Chunk * ptr .. Chunk * ptr + size - 1

(* The regions hd are inside an arena of blocks blocks and do not overlap. *)
Separate(hd, blocks) ==
  \A p \in DOMAIN hd :
    /\ p \in 1 .. blocks /\ Chunk * p + hd[p] <= Chunk * blocks
    /\ \A q \in DOMAIN hd \ {p} : Bytes(q, hd[q]) \cap Bytes(p, hd[p]) = {}

(* Whole blocks apart in blocks is apart in bytes.                         *)
LEMMA ScaledOrder ==
  ASSUME NEW a \in Int, NEW b \in Int, a <= b
  PROVE  Chunk * a <= Chunk * b /\ Chunk * a \in Int /\ Chunk * b \in Int
BY MemoryAssumption

(* The headers of a well-formed list keep blocks that large apart.         *)
LEMMA ListedAreSeparate ==
  ASSUME SizesDoNotWrap, NEW blocks \in Nat, NEW h, WellFormed(h, blocks),
         NEW hd, Lists(h, hd)
  PROVE  Separate(hd, blocks)
<1> DEFINE End(p) == data_end(h, associated_node(p))
<1>1. ASSUME NEW p \in DOMAIN hd
      PROVE  /\ p \in Int /\ p >= 1 /\ associated_node(p) \in DOMAIN h
             /\ hd[p] \in Nat /\ End(p) \in Int /\ End(p) <= blocks /\ p <= End(p)
             /\ Chunk * p + hd[p] <= Chunk * End(p)
  <2> DEFINE n == associated_node(p)
  <2>1. p \in Int /\ n \in DOMAIN h /\ hd[p] \in Sizes /\ h[n].allocated_bytes = hd[p]
        /\ n \in Nat /\ n = p - 1
    BY DEF Lists, WellFormed, associated_node
  <2>2. hd[p] \in Nat /\ hd[p] + Chunk - 1 < SizeMod
    BY <2>1, SizesAreNat DEF SizesDoNotWrap
  <2>3. End(p) = p + (count_needed_blocks(hd[p]) - 1) /\ count_needed_blocks(hd[p]) \in Nat
        /\ count_needed_blocks(hd[p]) >= 1
    BY <2>1, <2>2, CountType DEF data_end
  <2>4. hd[p] <= Chunk * (count_needed_blocks(hd[p]) - 1)
    BY <2>2, RoundedUp
  <2>5. End(p) <= blocks
    BY <2>1 DEF WellFormed, NextOK
  <2>6. Chunk * p + hd[p] <= Chunk * End(p)
    <3> DEFINE k == count_needed_blocks(hd[p]) - 1
    <3>1. k \in Int /\ hd[p] <= Chunk * k /\ End(p) = p + k
      BY <2>3, <2>4
    <3> HIDE DEF k
    <3>2. Chunk * (p + k) = Chunk * p + Chunk * k /\ Chunk * p \in Int /\ Chunk * k \in Int
      BY <3>1, <2>1, MemoryAssumption
    <3> QED BY <3>1, <3>2, <2>2
  <2> QED BY <2>1, <2>2, <2>3, <2>5, <2>6
<1>2. ASSUME NEW p \in DOMAIN hd, NEW q \in DOMAIN hd, p < q PROVE End(p) <= q
  <2> DEFINE n == associated_node(p)
             m == associated_node(q)
  <2>1. n \in DOMAIN h /\ m \in DOMAIN h /\ n < m /\ m < q /\ m \in Int
    BY <1>1, <1>2 DEF associated_node
  <2>2. h[n].node_next # NULL /\ h[n].node_next <= m
    BY <2>1 DEF WellFormed, Adjacent
  <2>3. data_end(h, n) <= h[n].node_next /\ h[n].node_next \in Nat /\ data_end(h, n) \in Nat
    BY <2>1, <2>2, EndInside DEF WellFormed, NextOK
  <2> QED BY <1>1, <2>1, <2>2, <2>3
<1> HIDE DEF End
<1>3. ASSUME NEW p \in DOMAIN hd, NEW q \in DOMAIN hd, p < q
      PROVE  Bytes(p, hd[p]) \cap Bytes(q, hd[q]) = {}
  <2>1. Chunk * p + hd[p] <= Chunk * End(p) /\ End(p) \in Int /\ q \in Int
        /\ hd[p] \in Nat /\ hd[q] \in Nat /\ p \in Int
    BY <1>1
  <2>2. Chunk * End(p) <= Chunk * q /\ Chunk * q \in Int /\ Chunk * End(p) \in Int
    BY <1>2, <1>3, <2>1, ScaledOrder
  <2>3. Chunk * p \in Int
    BY <2>1, MemoryAssumption
  <2>4. \A x \in Bytes(p, hd[p]) : x < Chunk * q
    BY <2>1, <2>2, <2>3 DEF Bytes
  <2>5. \A x \in Bytes(q, hd[q]) : x >= Chunk * q
    BY <2>1, <2>2 DEF Bytes
  <2>6. \A x \in Bytes(q, hd[q]) : x \in Int
    BY DEF Bytes
  <2> QED BY <2>2, <2>4, <2>5, <2>6
<1>4. ASSUME NEW p \in DOMAIN hd
      PROVE  p \in 1 .. blocks /\ Chunk * p + hd[p] <= Chunk * blocks
  <2>1. p \in 1 .. blocks
    BY <1>1
  <2>2. Chunk * End(p) <= Chunk * blocks /\ Chunk * End(p) \in Int /\ Chunk * blocks \in Int
    BY <1>1, ScaledOrder
  <2>3. Chunk * p + hd[p] \in Int
    BY <1>1, MemoryAssumption
  <2> QED BY <1>1, <2>1, <2>2, <2>3
<1>5. ASSUME NEW p \in DOMAIN hd, NEW q \in DOMAIN hd \ {p}
      PROVE  Bytes(q, hd[q]) \cap Bytes(p, hd[p]) = {}
  <2>1. p < q \/ q < p
    BY <1>1
  <2> QED BY <1>3, <2>1
<1> QED BY <1>4, <1>5 DEF Separate

-----------------------------------------------------------------------------
(* The refinement, call by call.                                           *)

(* The blocks stay in the arena and apart from each other.                 *)
Apart == g_pool # NULL => g_pool.blocks \in Nat /\ Separate(held, g_pool.blocks)

(* Before and after every step.                                            *)
LEMMA HeldAreApart ==
  ASSUME SizesDoNotWrap
  PROVE  /\ IInv /\ HeldLists => Apart
         /\ IInv' /\ HeldLists' => Apart'
<1>1. ASSUME IInv, HeldLists PROVE Apart
  BY <1>1, ListedAreSeparate DEF IInv, PoolOK, HeldLists, Apart
<1>2. ASSUME IInv', HeldLists' PROVE Apart'
  BY <1>2, ListedAreSeparate DEF IInv, PoolOK, HeldLists, Apart
<1> QED BY <1>1, <1>2

(* What the steps below have in common.                                    *)
Refines == HeapLive = held /\ HeapLive' = held' /\ Apart'

(* A block the program has after a call is fresh for all others.           *)
LEMMA GivenIsFresh ==
  ASSUME Refines, g_pool # NULL, UNCHANGED g_pool,
         NEW regions, NEW ptr, NEW size, size \in Nat, held' = Hold(regions, ptr, size),
         ptr \notin DOMAIN regions
  PROVE  /\ ptr \in 1 .. HeapArena \div Chunk /\ H!Fresh(regions, ptr, size)
         /\ held' = H!With(regions, ptr, size) /\ UNCHANGED HeapArena
<1>1. Separate(held', g_pool.blocks) /\ g_pool.blocks \in Nat
  BY DEF Refines, Apart
<1>2. ptr \in DOMAIN held' /\ held'[ptr] = size
      /\ \A p \in DOMAIN regions : p \in DOMAIN held' \ {ptr} /\ held'[p] = regions[p]
  BY DEF Hold
<1>3. HeapArena = Chunk * g_pool.blocks /\ HeapArena \div Chunk = g_pool.blocks
  <2>1. Chunk \in Nat \ {0}
    BY MemoryAssumption
  <2>2. (Chunk * g_pool.blocks) \div Chunk = g_pool.blocks
    BY <1>1, <2>1
  <2> QED BY <2>2 DEF HeapArena
<1>4. ptr \in 1 .. g_pool.blocks /\ Chunk * ptr + size <= Chunk * g_pool.blocks
  BY <1>1, <1>2 DEF Separate
<1>5. ASSUME NEW p \in DOMAIN regions
      PROVE  p # ptr /\ Bytes(p, regions[p]) \cap Bytes(ptr, size) = {}
  BY <1>1, <1>2 DEF Separate
<1>6. H!Fresh(regions, ptr, size)
  BY <1>3, <1>4, <1>5 DEF H!Fresh, H!Bytes, Bytes
<1>7. held' = H!With(regions, ptr, size)
  BY DEF Hold, H!With
<1>8. UNCHANGED HeapArena
  BY DEF HeapArena
<1> QED BY <1>3, <1>4, <1>6, <1>7, <1>8

(* A call that changes no header is no step of the heap.                   *)
LEMMA StandsStill ==
  ASSUME UNCHANGED <<g_pool, node>>
  PROVE  UNCHANGED H!vars
BY DEF H!vars, HeapArena, HeapLive, Live

(* malloc allocates a fresh region, or fails.                              *)
LEMMA MallocAllocates ==
  ASSUME IInv, HeldLists, Refines, NEW size \in Sizes, malloc(size)
  PROVE  H!Allocate(size) \/ UNCHANGED H!vars
<1>1. CASE malloc_fails(size)
  BY <1>1, StandsStill DEF malloc, malloc_fails
<1>2. CASE malloc_succeeds(size)
  <2>1. PICK n \in first_fit(node, size) :
          held' = Hold(held, data_begin(data_end(node, n)), size)
    BY <1>2 DEF malloc_succeeds
  <2> DEFINE ptr == data_begin(data_end(node, n))
  <2>2. g_pool # NULL /\ PoolOK /\ UNCHANGED g_pool /\ size \in Nat
    BY <1>2, SizesAreNat DEF malloc, malloc_succeeds, IInv
  <2>3. ptr \notin DOMAIN held
    <3>1. data_end(node, n) \in Nat \ DOMAIN node
      BY <2>2, PlaceIsFresh
    <3> QED BY <3>1 DEF HeldLists, Lists, data_begin, associated_node
  <2> HIDE DEF ptr
  <2>4. held' = Hold(held, ptr, size)
    BY <2>1 DEF ptr
  <2>5. /\ ptr \in 1 .. HeapArena \div Chunk /\ H!Fresh(held, ptr, size)
        /\ held' = H!With(held, ptr, size) /\ UNCHANGED HeapArena
    BY <2>2, <2>3, <2>4, GivenIsFresh
  <2>6. H!Allocate(size)
    BY <2>5 DEF H!Allocate, Refines
  <2> QED BY <2>6
<1> QED BY <1>1, <1>2 DEF malloc

(* The block goes to another place or gets another size.                   *)
LEMMA GivesAnother ==
  ASSUME IInv, HeldLists, Refines, g_pool # NULL, UNCHANGED g_pool,
         NEW ptr \in DOMAIN held, NEW new, NEW size \in Sizes,
         held' = Hold(Drop(held, ptr), new, size), new = ptr \/ new \notin DOMAIN held
  PROVE  H!Resize(ptr, size)
<1> DEFINE rest == Drop(held, ptr)
<1>1. new \notin DOMAIN rest /\ size \in Nat
  BY SizesAreNat DEF Drop
<1>2. rest = H!Without(ptr)
  BY DEF Drop, H!Without, Refines
<1> HIDE DEF rest
<1>3. /\ new \in 1 .. HeapArena \div Chunk /\ H!Fresh(rest, new, size)
      /\ held' = H!With(rest, new, size) /\ UNCHANGED HeapArena
  BY <1>1, GivenIsFresh DEF rest
<1> QED BY <1>2, <1>3 DEF H!Resize, Refines

(* realloc allocates, resizes or fails.                                    *)
LEMMA ReallocResizes ==
  ASSUME IInv, HeldLists, Refines,
         NEW ptr \in Int \cup {NULL}, NEW size \in Sizes, realloc(ptr, size)
  PROVE  \/ H!Allocate(size) \/ UNCHANGED H!vars
         \/ ptr \in DOMAIN held /\ H!Resize(ptr, size)
<1>1. CASE ptr = NULL
  BY <1>1, MallocAllocates DEF realloc
<1>2. CASE ptr # NULL /\ (realloc_unknown(ptr, size) \/ realloc_fails(ptr, size))
  BY <1>2, StandsStill DEF realloc, realloc_unknown, realloc_fails
<1>3. CASE ptr # NULL /\ (realloc_in_place(ptr, size) \/ realloc_moves(ptr, size))
  <2> DEFINE old == associated_node(ptr)
  <2>1. g_pool # NULL /\ UNCHANGED g_pool /\ PoolOK
    BY <1>3 DEF realloc, realloc_in_place, realloc_moves, IInv
  <2>2. WellFormed(node, g_pool.blocks) /\ g_pool.blocks \in Nat /\ DOMAIN node \subseteq Nat
    BY <2>1 DEF PoolOK, WellFormed
  <2>3. old \in DOMAIN node \ {0}
    BY <1>3, <2>1, <2>2, ListIsLive DEF realloc_in_place, realloc_moves, is_existing_memory_node
  <2>4. ptr \in DOMAIN held
    BY <1>3, <2>3 DEF HeldLists, Lists
  <2>5. CASE realloc_in_place(ptr, size)
    <3> DEFINE prev == node[old].node_prev
               n == data_end(node, prev)
    <3>1. held' = Hold(Drop(held, ptr), data_begin(n), size)
      BY <2>5 DEF realloc_in_place
    <3>2. prev \in DOMAIN node /\ prev \in Nat /\ node[prev].node_next = old /\ old # NULL
      BY <2>2, <2>3, MemoryAssumption DEF WellFormed, PrevOK
    <3>3. n \in Nat /\ prev < n /\ n <= old
      BY <2>2, <3>2, EndInside DEF WellFormed, NextOK
    <3>4. n = old \/ n \notin DOMAIN node
      BY <2>2, <2>3, <3>2, <3>3 DEF WellFormed, Adjacent
    <3> HIDE DEF n
    <3>5. data_begin(n) = ptr \/ data_begin(n) \notin DOMAIN held
      BY <1>3, <3>3, <3>4 DEF HeldLists, Lists, data_begin, associated_node
    <3> QED BY <2>1, <2>4, <3>1, <3>5, GivesAnother
  <2>6. CASE realloc_moves(ptr, size)
    <3>1. PICK m \in first_fit(node, size) :
            held' = Hold(Drop(held, ptr), data_begin(data_end(node, m)), size)
      BY <2>6 DEF realloc_moves
    <3>2. data_end(node, m) \in Nat \ DOMAIN node
      BY <2>1, SizesAreNat, PlaceIsFresh
    <3>3. data_begin(data_end(node, m)) \notin DOMAIN held
      BY <3>2 DEF HeldLists, Lists, data_begin, associated_node
    <3> QED BY <2>1, <2>4, <3>1, <3>3, GivesAnother
  <2> QED BY <1>3, <2>5, <2>6
<1> QED BY <1>1, <1>2, <1>3 DEF realloc

(* free releases a region that is live, or changes nothing.                *)
LEMMA FreeReleases ==
  ASSUME SizesTakeRoom, IInv, HeldLists, Refines,
         NEW ptr \in Int \cup {NULL}, free_ext(ptr) \/ free(ptr)
  PROVE  UNCHANGED H!vars \/ (ptr \in DOMAIN held /\ H!Release(ptr))
<1>1. CASE free_ext(ptr) /\ free_result(node, ptr) = OK
  <2>1. held' = Drop(held, ptr) /\ UNCHANGED HeapArena
    BY <1>1 DEF free_ext, HeapArena
  <2>2. g_pool # NULL /\ ptr # NULL
    BY <1>1, FreedIsListed
  <2>3. ptr \in DOMAIN held
    BY <1>1, <2>2, FreeResultExact DEF IInv, PoolOK, HeldLists
  <2> QED BY <2>1, <2>3 DEF H!Release, H!Without, Drop, Refines
<1>2. CASE free_ext(ptr) /\ free_result(node, ptr) # OK
  BY <1>2, StandsStill DEF free_ext
<1>3. CASE free(ptr) /\ ~free_ext(ptr)
  BY <1>3, StandsStill DEF free
<1> QED BY <1>1, <1>2, <1>3

(* A new pool is an arena without regions.                                 *)
LEMMA PoolSetsArena ==
  ASSUME IInv', HeldLists, HeldLists', Refines, NEW p \in Pools, init(p)
  PROVE  H!SetArena
<1>1. held = EmptyFn /\ held' = held
  BY DEF init
<1>2. DOMAIN held = {}
  BY <1>1 DEF EmptyFn
<1>3. HeapArena' \in Nat
  <2>1. CASE g_pool' = NULL
    BY <2>1 DEF HeapArena
  <2>2. CASE g_pool' # NULL
    <3>1. g_pool'.blocks \in Nat /\ HeapArena' = Chunk * g_pool'.blocks
      BY <2>2 DEF IInv, PoolOK, HeapArena
    <3> QED BY <3>1, MemoryAssumption
  <2> QED BY <2>1, <2>2
<1> QED BY <1>1, <1>2, <1>3 DEF H!SetArena, Refines

(* Every step of Memory is one of Heap, or none.                           *)
LEMMA NextRefines ==
  ASSUME SizesTakeRoom, SizesDoNotWrap, IInv, HeldLists, IInv', HeldLists', [Next]_vars
  PROVE  [H!Next]_(H!vars)
<1>0. Refines
  BY LiveIsHeld, HeldAreApart DEF Refines
<1>1. ASSUME NEW p \in Pools, init(p) PROVE H!Next
  BY <1>0, <1>1, PoolSetsArena DEF H!Next
<1>2. ASSUME NEW size \in Sizes, malloc(size) PROVE H!Next \/ UNCHANGED H!vars
  BY <1>0, <1>2, MallocAllocates DEF H!Next
<1>3. ASSUME NEW ptr \in Addresses \cup {NULL}, NEW size \in Sizes, realloc(ptr, size)
      PROVE  H!Next \/ UNCHANGED H!vars
  BY <1>0, <1>3, ReallocResizes, AddressesAreInt DEF H!Next, Refines
<1>4. ASSUME NEW ptr \in Addresses \cup {NULL}, free_ext(ptr) \/ free(ptr)
      PROVE  H!Next \/ UNCHANGED H!vars
  BY <1>0, <1>4, FreeReleases, AddressesAreInt DEF H!Next, Refines
<1>5. CASE UNCHANGED vars
  BY <1>5, StandsStill DEF vars
<1> QED BY <1>1, <1>2, <1>3, <1>4, <1>5 DEF Next

-----------------------------------------------------------------------------
(* The theorem.                                                            *)

(* The linked list of headers implements the abstract heap: every call     *)
(* allocates, resizes or releases one region, which fits into the arena    *)
(* and overlaps no other, and touches no other region.                     *)
THEOREM MemoryImplementsHeap ==
  ASSUME PoolsFit, SizesTakeRoom, SizesDoNotWrap
  PROVE  Spec => ImplementsHeap
<1>1. Init => H!Init
  <2> SUFFICES ASSUME Init PROVE H!Init
    OBVIOUS
  <2>1. IInv /\ HeldLists
    BY InitIInv, InitHeld
  <2>2. HeapLive = held
    BY <2>1, LiveIsHeld
  <2>3. held = [p \in {} |-> 0] /\ HeapArena = 0
    BY DEF Init, EmptyFn, HeapArena
  <2> QED BY <2>2, <2>3 DEF H!Init
<1>2. IInv /\ HeldLists /\ (IInv /\ HeldLists)' /\ [Next]_vars => [H!Next]_(H!vars)
  BY NextRefines
<1> QED BY <1>1, <1>2, HeldInvariance, PTL DEF Spec, ImplementsHeap, H!Spec
=============================================================================
