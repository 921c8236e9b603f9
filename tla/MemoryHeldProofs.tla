-------------------------- MODULE MemoryHeldProofs --------------------------
(***************************************************************************)
(* Proofs that relate the list of the allocator to what the program holds, *)
(* for all pools that fit (PoolsFit), every set of sizes with a block of   *)
(* data each, and every sequence of calls, stale and foreign pointers      *)
(* included.                                                               *)
(***************************************************************************)
EXTENDS MemoryProofs, FiniteSetTheorems

(* No request takes up the block of its header only.  A block without data *)
(* at the end of the pool is the case of the run memory_zero_size.         *)
SizesTakeRoom == \A size \in Sizes : count_needed_blocks(size) >= 2

-----------------------------------------------------------------------------
(* Blocks hd that the list h consists of.                                  *)
Lists(h, hd) ==
  /\ hd = [ptr \in DOMAIN hd |-> hd[ptr]]
  /\ DOMAIN hd \subseteq Int
  /\ \A ptr \in Int : ptr \in DOMAIN hd <=> associated_node(ptr) \in DOMAIN h \ {0}
  /\ \A ptr \in DOMAIN hd :
       hd[ptr] = h[associated_node(ptr)].allocated_bytes /\ hd[ptr] \in Sizes

(* A new node is where no node is, and is not the sentinel.                *)
LEMMA PlaceIsFresh ==
  ASSUME PoolOK, NEW bytes \in Nat, NEW n \in first_fit(node, bytes)
  PROVE  data_end(node, n) \in Nat \ DOMAIN node /\ data_end(node, n) # 0
<1> DEFINE new == data_end(node, n)
<1>1. WellFormed(node, g_pool.blocks) /\ g_pool.blocks \in Nat /\ DOMAIN node \subseteq Nat
  BY DEF PoolOK, WellFormed
<1>2. n \in DOMAIN node /\ new \in Nat /\ n < new
  BY <1>1, FirstFitHasRoom, EndInside
<1>3. count_needed_blocks(bytes) \in Nat /\ count_needed_blocks(bytes) >= 1
  BY CountType
<1>4. ASSUME new \in DOMAIN node PROVE FALSE
  <2>1. node[n].node_next # NULL /\ node[n].node_next <= new
    BY <1>1, <1>2, <1>4 DEF WellFormed, Adjacent
  <2>2. new + count_needed_blocks(bytes) <= node[n].node_next /\ node[n].node_next \in Nat
    BY <1>1, <1>2, <2>1, FirstFitHasRoom, EndInside
  <2> HIDE DEF new
  <2> QED BY <1>2, <1>3, <2>1, <2>2
<1> QED BY <1>1, <1>2, <1>4

(* A header is inserted for a block that the program is given.             *)
LEMMA InsertLists ==
  ASSUME NEW h, NEW hd, Lists(h, hd),
         NEW new \in Nat \ {0}, NEW size \in Sizes, NEW prev, NEW next
  PROVE  Lists(insert_node(h, new, size, prev, next), Hold(hd, data_begin(new), size))
<1> DEFINE g == insert_node(h, new, size, prev, next)
           gd == Hold(hd, data_begin(new), size)
<1>1. DOMAIN g = DOMAIN h \cup {new} /\ g[new].allocated_bytes = size
      /\ \A n \in DOMAIN h \ {new} : g[n].allocated_bytes = h[n].allocated_bytes
  BY DEF insert_node
<1>2. /\ DOMAIN gd = DOMAIN hd \cup {new + 1} /\ gd = [ptr \in DOMAIN gd |-> gd[ptr]]
      /\ gd[new + 1] = size /\ \A ptr \in DOMAIN hd \ {new + 1} : gd[ptr] = hd[ptr]
  BY DEF Hold, data_begin
<1> HIDE DEF g, gd
<1>3. DOMAIN gd \subseteq Int
  BY <1>2 DEF Lists
<1>4. ASSUME NEW ptr \in Int
      PROVE  ptr \in DOMAIN gd <=> associated_node(ptr) \in DOMAIN g \ {0}
  BY <1>1, <1>2 DEF Lists, associated_node
<1>5. ASSUME NEW ptr \in DOMAIN gd
      PROVE  gd[ptr] = g[associated_node(ptr)].allocated_bytes /\ gd[ptr] \in Sizes
  <2>1. CASE ptr = new + 1
    <3>1. associated_node(ptr) = new
      BY <2>1 DEF associated_node
    <3> QED BY <2>1, <3>1, <1>1, <1>2
  <2>2. CASE ptr # new + 1
    <3>1. ptr \in DOMAIN hd /\ ptr \in Int
      BY <1>2, <1>3, <2>2
    <3>2. associated_node(ptr) \in DOMAIN h \ {new}
      BY <2>2, <3>1 DEF Lists, associated_node
    <3> QED BY <1>1, <1>2, <2>2, <3>1, <3>2 DEF Lists
  <2> QED BY <2>1, <2>2
<1> QED BY <1>2, <1>3, <1>4, <1>5 DEF Lists, g, gd

(* A header is taken away for a block that the program gives back.         *)
LEMMA RemoveLists ==
  ASSUME NEW h, NEW hd, Lists(h, hd), NEW ptr \in Int,
         NEW g, DOMAIN g = DOMAIN h \ {associated_node(ptr)},
         \A n \in DOMAIN g : g[n].allocated_bytes = h[n].allocated_bytes
  PROVE  Lists(g, Drop(hd, ptr))
<1> DEFINE gd == Drop(hd, ptr)
<1>1. /\ DOMAIN gd = DOMAIN hd \ {ptr} /\ gd = [p \in DOMAIN gd |-> gd[p]]
      /\ \A p \in DOMAIN gd : gd[p] = hd[p]
  BY DEF Drop
<1> HIDE DEF gd
<1>2. DOMAIN gd \subseteq Int
  BY <1>1 DEF Lists
<1>3. ASSUME NEW p \in Int
      PROVE  p \in DOMAIN gd <=> associated_node(p) \in DOMAIN g \ {0}
  BY <1>1 DEF Lists, associated_node
<1>4. ASSUME NEW p \in DOMAIN gd
      PROVE  gd[p] = g[associated_node(p)].allocated_bytes /\ gd[p] \in Sizes
  BY <1>1, <1>2, <1>3 DEF Lists
<1> QED BY <1>1, <1>2, <1>3, <1>4 DEF Lists, gd

(* Unlinking a header is such a removal.                                   *)
LEMMA UnlinkLists ==
  ASSUME NEW h, NEW hd, Lists(h, hd), NEW ptr \in Int
  PROVE  Lists(unlink_node(h, associated_node(ptr)), Drop(hd, ptr))
<1> DEFINE g == unlink_node(h, associated_node(ptr))
<1>1. DOMAIN g = DOMAIN h \ {associated_node(ptr)}
  BY DEF unlink_node
<1>2. \A n \in DOMAIN g : g[n].allocated_bytes = h[n].allocated_bytes
  BY DEF unlink_node
<1> HIDE DEF g
<1> QED BY <1>1, <1>2, RemoveLists DEF g

-----------------------------------------------------------------------------
(* A listed block with room for data passes the tests of free_ext and      *)
(* is_allocated, which compare its address with the ends of the pool.      *)
LEMMA ListedIsInside ==
  ASSUME SizesTakeRoom, g_pool # NULL, g_pool.blocks \in Nat,
         NEW h, WellFormed(h, g_pool.blocks), NEW ptr \in Int,
         associated_node(ptr) \in DOMAIN h \ {0},
         h[associated_node(ptr)].allocated_bytes \in Sizes
  PROVE  /\ ~below_list_head(h, ptr) /\ below_pool_end(ptr)
         /\ is_existing_memory_node(h, associated_node(ptr))
<1> DEFINE n == associated_node(ptr)
<1>1. n \in DOMAIN h \ {0} /\ n \in Nat /\ 0 \in DOMAIN h /\ n + 1 = ptr
  BY DEF WellFormed, associated_node
<1>2. is_existing_memory_node(h, n)
  BY <1>1, ListIsLive DEF is_existing_memory_node
<1>3. below_pool_end(ptr)
  <2>1. count_needed_blocks(h[n].allocated_bytes) >= 2
    BY DEF SizesTakeRoom
  <2>2. data_end(h, n) <= g_pool.blocks
    BY <1>1 DEF WellFormed, NextOK
  <2>3. count_needed_blocks(h[n].allocated_bytes) \in Nat
    BY CountType, SizesAreNat
  <2> QED BY <1>1, <2>1, <2>2, <2>3 DEF data_end, below_pool_end
<1>4. ~below_list_head(h, ptr)
  <2>1. h[0].node_next # NULL /\ h[0].node_next <= n
    BY <1>1 DEF WellFormed, Adjacent
  <2>2. h[0].node_next \in Nat
    BY <1>1, <2>1, EndInside
  <2> QED BY <1>1, <2>1, <2>2 DEF below_list_head, node_list_head
<1> QED BY <1>2, <1>3, <1>4

(* free accepts exactly the blocks that are held.                          *)
LEMMA FreeResultExact ==
  ASSUME SizesTakeRoom, g_pool # NULL, g_pool.blocks \in Nat,
         NEW h, WellFormed(h, g_pool.blocks), NEW hd, Lists(h, hd), NEW ptr \in Int
  PROVE  free_result(h, ptr) = OK <=> ptr \in DOMAIN hd
<1>1. ASSUME ptr \in DOMAIN hd PROVE free_result(h, ptr) = OK
  <2>1. associated_node(ptr) \in DOMAIN h \ {0}
        /\ h[associated_node(ptr)].allocated_bytes \in Sizes
    BY <1>1 DEF Lists
  <2>2. ptr # NULL
    BY MemoryAssumption
  <2> QED BY <2>1, <2>2, ListedIsInside DEF free_result
<1>2. ASSUME free_result(h, ptr) = OK PROVE ptr \in DOMAIN hd
  <2>1. associated_node(ptr) \in NodeList(h)
    BY <1>2, FreedIsListed
  <2> QED BY <2>1, ListIsLive DEF Lists
<1> QED BY <1>1, <1>2

-----------------------------------------------------------------------------
(* The invariant, call by call.                                            *)
HeldLists == Lists(node, held)

(* Before the first call there are neither headers nor blocks.             *)
LEMMA InitHeld == Init => HeldLists
<1> SUFFICES ASSUME Init PROVE HeldLists
  OBVIOUS
<1>1. DOMAIN node = {} /\ DOMAIN held = {} /\ held = [ptr \in DOMAIN held |-> held[ptr]]
  BY DEF Init, EmptyFn
<1> QED BY <1>1 DEF HeldLists, Lists

(* A new pool has the sentinel only, and comes when nothing is held.       *)
LEMMA PoolHeld ==
  ASSUME HeldLists, NEW p \in Pools, init(p)
  PROVE  HeldLists'
<1>1. DOMAIN held' = {} /\ held' = [ptr \in DOMAIN held' |-> held'[ptr]]
  BY DEF init, EmptyFn
<1>2. DOMAIN node' \subseteq {0}
  BY DEF init, EmptyFn
<1> QED BY <1>1, <1>2 DEF HeldLists, Lists

(* A block is placed and handed to the program.                            *)
LEMMA PlaceHeld ==
  ASSUME IInv, g_pool # NULL, NEW hd, Lists(node, hd),
         NEW size \in Sizes, NEW n \in first_fit(node, size)
  PROVE  Lists(place_after(node, n, size), Hold(hd, data_begin(data_end(node, n)), size))
<1>1. PoolOK /\ size \in Nat
  BY SizesAreNat DEF IInv
<1>2. data_end(node, n) \in Nat \ {0}
  BY <1>1, PlaceIsFresh
<1> QED BY <1>2, InsertLists DEF place_after

(* malloc places a block or changes nothing.                               *)
LEMMA MallocHeld ==
  ASSUME IInv, HeldLists, NEW size \in Sizes, malloc(size)
  PROVE  HeldLists'
<1>1. CASE malloc_fails(size)
  BY <1>1 DEF malloc_fails, HeldLists
<1>2. CASE malloc_succeeds(size)
  <2>1. PICK n \in first_fit(node, size) :
          /\ node' = place_after(node, n, size)
          /\ held' = Hold(held, data_begin(data_end(node, n)), size)
    BY <1>2 DEF malloc_succeeds
  <2>2. Lists(place_after(node, n, size), Hold(held, data_begin(data_end(node, n)), size))
    BY <1>2, PlaceHeld DEF malloc_succeeds, HeldLists
  <2> QED BY <2>1, <2>2 DEF HeldLists
<1> QED BY <1>1, <1>2 DEF malloc

(* The list after realloc has slid a block down or resized it.             *)
LEMMA SlideHeld ==
  ASSUME IInv, HeldLists, NEW ptr \in Int, NEW size \in Sizes, realloc_in_place(ptr, size)
  PROVE  HeldLists'
<1> DEFINE old == associated_node(ptr)
           prev == node[old].node_prev
           new == data_end(node, prev)
           rest == [n \in DOMAIN node \ {old} |-> node[n]]
           given == Hold(Drop(held, ptr), data_begin(new), size)
           g == insert_node(rest, new, size, prev, node[old].node_next)
<1>1. WellFormed(node, g_pool.blocks) /\ g_pool.blocks \in Nat /\ g_pool # NULL
  BY DEF realloc_in_place, IInv, PoolOK
<1>2. old \in DOMAIN node \ {0}
  BY <1>1, ListIsLive DEF realloc_in_place, is_existing_memory_node
<1>3. new \in Nat \ {0}
  <2>1. prev \in DOMAIN node /\ prev \in Nat
    BY <1>1, <1>2 DEF WellFormed, PrevOK
  <2> QED BY <1>1, <2>1, EndInside
<1>4. Lists(rest, Drop(held, ptr))
  <2>1. DOMAIN rest = DOMAIN node \ {associated_node(ptr)}
        /\ \A n \in DOMAIN rest : rest[n].allocated_bytes = node[n].allocated_bytes
    OBVIOUS
  <2> HIDE DEF rest
  <2> QED BY <2>1, RemoveLists DEF HeldLists
<1>5. Lists(g, given)
  <2> HIDE DEF rest, new, prev, old
  <2> QED BY <1>3, <1>4, InsertLists
<1>6. held' = given
  BY DEF realloc_in_place
<1>7. DOMAIN node' = DOMAIN g /\ \A n \in DOMAIN g : node'[n].allocated_bytes = g[n].allocated_bytes
  <2>1. node' = Slid(old, size)
    BY DEF realloc_in_place, Slid
  <2>2. DOMAIN node' = (DOMAIN node \ {old}) \cup {new}
    BY <2>1 DEF Slid
  <2>3. ASSUME NEW n \in DOMAIN node' PROVE node'[n].allocated_bytes = g[n].allocated_bytes
    <3>1. CASE n = new
      BY <2>1, <2>2, <3>1 DEF Slid, insert_node
    <3>2. CASE n # new
      BY <2>1, <2>2, <2>3, <3>2 DEF Slid, insert_node
    <3> QED BY <3>1, <3>2
  <2>4. DOMAIN g = DOMAIN node'
    BY <2>2 DEF insert_node
  <2> QED BY <2>3, <2>4
<1>8. \A n \in Int : n \in DOMAIN node' <=> n \in DOMAIN g
  BY <1>7
<1> HIDE DEF g, given
<1> QED BY <1>5, <1>6, <1>7 DEF HeldLists, Lists

(* realloc moves a block: its free finds the old block, so the assertion   *)
(* in it holds, and the program has the new block instead of the old one.  *)
LEMMA MoveHeld ==
  ASSUME SizesTakeRoom, IInv, HeldLists,
         NEW ptr \in Int, NEW size \in Sizes, realloc_moves(ptr, size)
  PROVE  HeldLists' /\ last'.code = OK
<1> DEFINE old == associated_node(ptr)
<1>1. PoolOK /\ WellFormed(node, g_pool.blocks) /\ g_pool.blocks \in Nat /\ g_pool # NULL
  BY DEF realloc_moves, IInv, PoolOK
<1>2. old \in DOMAIN node \ {0}
  BY <1>1, ListIsLive DEF realloc_moves, is_existing_memory_node
<1>3. PICK n \in first_fit(node, size) :
        LET h      == place_after(node, n, size)
            result == data_begin(data_end(node, n))
        IN  IF free_result(h, ptr) = OK
            THEN /\ node' = unlink_node(h, associated_node(ptr))
                 /\ held' = Hold(Drop(held, ptr), result, size)
                 /\ Return("realloc", ptr, size, result, OK)
            ELSE /\ node' = h
                 /\ held' = Hold(Drop(held, ptr), result, size)
                 /\ Return("realloc", ptr, size, result, IF Debug THEN ABORT ELSE OK)
  BY DEF realloc_moves
<1> DEFINE h == place_after(node, n, size)
           result == data_begin(data_end(node, n))
           both == Hold(held, result, size)
<1>4. WellFormed(h, g_pool.blocks)
  BY <1>1, SizesAreNat, PlaceKeepsShape
<1>5. Lists(h, both)
  BY <1>1, PlaceHeld DEF HeldLists
<1>6. ptr # result
  <2>1. data_end(node, n) \in Nat \ DOMAIN node
    BY <1>1, SizesAreNat, PlaceIsFresh
  <2> QED BY <1>2, <2>1 DEF associated_node, data_begin
<1>7. free_result(h, ptr) = OK
  <2>1. ptr \in DOMAIN both
    BY <1>2 DEF HeldLists, Lists, Hold
  <2> HIDE DEF h, both
  <2> QED BY <1>1, <1>4, <1>5, <2>1, FreeResultExact
<1>8. /\ node' = unlink_node(h, old) /\ held' = Hold(Drop(held, ptr), result, size)
      /\ last'.code = OK
  BY <1>3, <1>7 DEF Return
<1>9. held' = Drop(both, ptr)
  <2> HIDE DEF result
  <2> QED BY <1>6, <1>8 DEF Hold, Drop
<1>10. Lists(unlink_node(h, old), Drop(both, ptr))
  <2> HIDE DEF h, both
  <2> QED BY <1>5, UnlinkLists
<1> QED BY <1>8, <1>9, <1>10 DEF HeldLists

(* realloc in each of its ways out.                                        *)
LEMMA ReallocHeld ==
  ASSUME SizesTakeRoom, IInv, HeldLists,
         NEW ptr \in Int \cup {NULL}, NEW size \in Sizes, realloc(ptr, size)
  PROVE  HeldLists'
<1>1. CASE ptr = NULL
  BY <1>1, MallocHeld DEF realloc
<1>2. CASE ptr # NULL /\ (realloc_unknown(ptr, size) \/ realloc_fails(ptr, size))
  BY <1>2 DEF realloc_unknown, realloc_fails, HeldLists
<1>3. CASE ptr # NULL /\ realloc_in_place(ptr, size)
  BY <1>3, SlideHeld
<1>4. CASE ptr # NULL /\ realloc_moves(ptr, size)
  BY <1>4, MoveHeld
<1> QED BY <1>1, <1>2, <1>3, <1>4 DEF realloc

(* free_ext takes away the block it is given, or nothing.                  *)
LEMMA FreeExtHeld ==
  ASSUME HeldLists, NEW ptr \in Int \cup {NULL}, free_ext(ptr)
  PROVE  HeldLists'
<1>1. CASE free_result(node, ptr) = OK
  <2>1. ptr \in Int
    BY <1>1, FreedIsListed
  <2>2. node' = unlink_node(node, associated_node(ptr)) /\ held' = Drop(held, ptr)
    BY <1>1 DEF free_ext
  <2> QED BY <2>1, <2>2, UnlinkLists DEF HeldLists
<1>2. CASE free_result(node, ptr) # OK
  BY <1>2 DEF free_ext, HeldLists
<1> QED BY <1>1, <1>2

(* A failing assertion leaves everything as it is.                         *)
LEMMA FreeHeld ==
  ASSUME HeldLists, NEW ptr \in Int \cup {NULL}, free(ptr)
  PROVE  HeldLists'
<1>1. CASE free_ext(ptr)
  BY <1>1, FreeExtHeld
<1>2. CASE ~free_ext(ptr)
  BY <1>2 DEF free, HeldLists
<1> QED BY <1>1, <1>2

(* What a program may pass is a block address or NULL.                     *)
LEMMA AddressesAreInt == Addresses \cup {NULL} \subseteq Int \cup {NULL}
  BY MemoryAssumption

(* Every call keeps list and program in agreement.                         *)
LEMMA NextHeld ==
  ASSUME SizesTakeRoom, IInv, HeldLists, [Next]_vars
  PROVE  HeldLists'
<1>1. ASSUME NEW p \in Pools, init(p) PROVE HeldLists'
  BY <1>1, PoolHeld
<1>2. ASSUME NEW size \in Sizes, malloc(size) PROVE HeldLists'
  BY <1>2, MallocHeld
<1>3. ASSUME NEW ptr \in Addresses \cup {NULL}, NEW size \in Sizes, realloc(ptr, size)
      PROVE  HeldLists'
  BY <1>3, ReallocHeld, AddressesAreInt
<1>4. ASSUME NEW ptr \in Addresses \cup {NULL}, free_ext(ptr) \/ free(ptr)
      PROVE  HeldLists'
  BY <1>4, FreeExtHeld, FreeHeld, AddressesAreInt
<1>5. CASE UNCHANGED vars
  BY <1>5 DEF vars, HeldLists
<1> QED BY <1>1, <1>2, <1>3, <1>4, <1>5 DEF Next

(* So they agree in all behaviours.                                        *)
LEMMA HeldInvariance ==
  ASSUME PoolsFit, SizesTakeRoom
  PROVE  Spec => [](IInv /\ HeldLists)
<1>1. Spec => []IInv
  BY Invariance
<1>2. Init => HeldLists
  BY InitHeld
<1>3. IInv /\ HeldLists /\ [Next]_vars => HeldLists'
  BY NextHeld
<1> QED BY <1>1, <1>2, <1>3, PTL DEF Spec

-----------------------------------------------------------------------------
(* The theorems.                                                           *)

(* In every program, the list of headers is exactly what the program       *)
(* holds: no block is lost or leaks, and its size is the one it asked for, *)
(* whatever mixture of malloc, realloc and free with live, stale, interior *)
(* and foreign pointers led here.                                          *)
THEOREM ListIsWhatIsHeld ==
  ASSUME PoolsFit, SizesTakeRoom
  PROVE  Spec => []HeldIsListed
<1>1. IInv /\ HeldLists => HeldIsListed
  <2> SUFFICES ASSUME IInv, HeldLists PROVE HeldIsListed
    OBVIOUS
  <2>1. Live \subseteq Int
    BY DEF Live, IInv, PoolOK, WellFormed, EmptyFn
  <2>2. \A ptr \in DOMAIN held : ptr \in Int /\ associated_node(ptr) \in Live
    BY DEF HeldLists, Lists, Live
  <2>3. \A n \in Live : data_begin(n) \in DOMAIN held
    BY <2>1 DEF HeldLists, Lists, Live, associated_node, data_begin
  <2>4. \A ptr \in DOMAIN held : ptr = data_begin(associated_node(ptr))
    BY <2>2 DEF associated_node, data_begin
  <2>5. DOMAIN held = {data_begin(n) : n \in Live}
    BY <2>2, <2>3, <2>4
  <2> QED BY <2>5 DEF HeldIsListed, HeldLists, Lists
<1> QED BY <1>1, HeldInvariance, PTL

(* is_allocated is true of the blocks the program holds and of no other    *)
(* pointer, at the edges of the pool too.                                  *)
THEOREM IsAllocatedIsExact ==
  ASSUME PoolsFit, SizesTakeRoom
  PROVE  Spec => []IsAllocatedExact
<1>1. IInv /\ HeldLists => IsAllocatedExact
  <2> SUFFICES ASSUME IInv, HeldLists, g_pool # NULL, NEW ptr \in Addresses
               PROVE  is_allocated(ptr) = "true" <=> ptr \in DOMAIN held
    BY DEF IsAllocatedExact
  <2>1. WellFormed(node, g_pool.blocks) /\ g_pool.blocks \in Nat
    BY DEF IInv, PoolOK
  <2>2. ptr \in Int /\ ptr # NULL
    BY MemoryAssumption
  <2>3. ASSUME ptr \in DOMAIN held PROVE is_allocated(ptr) = "true"
    <3>1. associated_node(ptr) \in DOMAIN node \ {0}
          /\ node[associated_node(ptr)].allocated_bytes \in Sizes
      BY <2>3 DEF HeldLists, Lists
    <3> QED BY <2>1, <2>2, <3>1, ListedIsInside DEF is_allocated
  <2>4. ASSUME is_allocated(ptr) = "true" PROVE ptr \in DOMAIN held
    <3>1. is_existing_memory_node(node, associated_node(ptr))
      BY <2>4 DEF is_allocated
    <3>2. associated_node(ptr) \in DOMAIN node \ {0}
      BY <2>1, <3>1, ListIsLive DEF is_existing_memory_node
    <3> QED BY <2>2, <3>2 DEF HeldLists, Lists
  <2> QED BY <2>3, <2>4
<1> QED BY <1>1, HeldInvariance, PTL

(* What free answers to any pointer, stale, interior and foreign ones      *)
(* included: OK to the blocks that are held, and it changes nothing else.  *)
LEMMA FreeExtAnswers ==
  ASSUME SizesTakeRoom, IInv, HeldLists, g_pool # NULL,
         NEW ptr \in Int \cup {NULL}, free_ext(ptr)
  PROVE  /\ last'.ptr = ptr
         /\ last'.code = OK <=> ptr \in DOMAIN held
         /\ last'.code # OK => UNCHANGED node
         /\ last'.code # ABORT
<1>1. last'.ptr = ptr /\ last'.code = free_result(node, ptr)
  BY DEF free_ext, Return
<1>2. CASE ptr = NULL
  <2>1. ptr \notin DOMAIN held
    BY <1>2, MemoryAssumption DEF HeldLists, Lists
  <2>2. free_result(node, ptr) = OK_NULLPTR
    BY <1>2 DEF free_result
  <2> QED BY <1>1, <2>1, <2>2 DEF free_ext, OK, OK_NULLPTR, ABORT
<1>3. CASE ptr # NULL
  <2>1. free_result(node, ptr) = OK <=> ptr \in DOMAIN held
    BY <1>3, FreeResultExact DEF IInv, PoolOK, HeldLists
  <2>2. free_result(node, ptr) # ABORT
    BY DEF free_result, OK, OK_NULLPTR, ABORT, ERR_NOT_ALLOCATED, ERR_ADDRESS_OUTSIDE,
           ERR_UNINITIALIZED
  <2> QED BY <1>1, <2>1, <2>2 DEF free_ext
<1> QED BY <1>2, <1>3

(* free answers the same, up to its assertion.                             *)
LEMMA FreeAnswers ==
  ASSUME SizesTakeRoom, IInv, HeldLists, g_pool # NULL,
         NEW ptr \in Int \cup {NULL}, free(ptr)
  PROVE  /\ last'.ptr = ptr
         /\ last'.code = OK <=> ptr \in DOMAIN held
         /\ last'.code # OK => UNCHANGED node
         /\ last'.code = ABORT => ptr \notin DOMAIN held
<1>1. CASE free_ext(ptr)
  BY <1>1, FreeExtAnswers
<1>2. CASE ~free_ext(ptr)
  <2>1. /\ free_result(node, ptr) \notin {OK, OK_NULLPTR}
        /\ last'.ptr = ptr /\ last'.code = ABORT /\ node' = node
    BY <1>2 DEF free, Return
  <2>2. ptr \in Int
    BY <2>1 DEF free_result
  <2>3. ptr \notin DOMAIN held
    BY <2>1, <2>2, FreeResultExact DEF IInv, PoolOK, HeldLists
  <2> QED BY <2>1, <2>3 DEF OK, ABORT
<1> QED BY <1>1, <1>2

(* Only the two functions that free record a call of that name.            *)
LEMMA FreeCalls ==
  ASSUME Next, last'.op = "free"
  PROVE  \E ptr \in Addresses \cup {NULL} : free_ext(ptr) \/ free(ptr)
<1>1. ASSUME NEW p \in Pools, init(p) PROVE last'.op = "init"
  BY <1>1 DEF init, Return
<1>2. ASSUME NEW size \in Sizes, malloc(size) PROVE last'.op = "malloc"
  BY <1>2 DEF malloc, malloc_fails, malloc_succeeds, Return
<1>3. ASSUME NEW ptr, NEW size \in Sizes, realloc(ptr, size), ptr # NULL
      PROVE  last'.op = "realloc"
  <2>1. CASE realloc_unknown(ptr, size)
    BY <2>1 DEF realloc_unknown, Return
  <2>2. CASE realloc_in_place(ptr, size)
    BY <2>2 DEF realloc_in_place, Return
  <2>3. CASE realloc_moves(ptr, size)
    BY <2>3 DEF realloc_moves, Return
  <2>4. CASE realloc_fails(ptr, size)
    BY <2>4 DEF realloc_fails, Return
  <2> QED BY <1>3, <2>1, <2>2, <2>3, <2>4 DEF realloc
<1>4. ASSUME NEW ptr, NEW size \in Sizes, realloc(ptr, size) PROVE last'.op # "free"
  BY <1>2, <1>3, <1>4 DEF realloc
<1> QED BY <1>1, <1>2, <1>4 DEF Next

(* free reports OK exactly for a block the program holds, and refuses      *)
(* stale pointers, interior pointers and double frees without a change.    *)
THEOREM FreeIsExact ==
  ASSUME PoolsFit, SizesTakeRoom
  PROVE  Spec => FreeAcceptsExactlyHeld
<1> DEFINE Refuses == last'.op = "free" /\ g_pool # NULL =>
                        /\ last'.code = OK <=> last'.ptr \in DOMAIN held
                        /\ last'.code # OK => UNCHANGED node
<1>1. ASSUME IInv, HeldLists, Next PROVE Refuses
  <2> SUFFICES ASSUME last'.op = "free", g_pool # NULL
               PROVE  /\ last'.code = OK <=> last'.ptr \in DOMAIN held
                      /\ last'.code # OK => UNCHANGED node
    OBVIOUS
  <2>1. PICK ptr \in Addresses \cup {NULL} : free_ext(ptr) \/ free(ptr)
    BY <1>1, FreeCalls
  <2> QED BY <1>1, <2>1, AddressesAreInt, FreeExtAnswers, FreeAnswers
<1>2. IInv /\ HeldLists /\ [Next]_vars => [Refuses]_vars
  BY <1>1
<1> QED BY <1>2, HeldInvariance, PTL DEF Spec, FreeAcceptsExactlyHeld

(* A program that passes blocks it holds never meets the assertion of      *)
(* free, neither in free itself nor in the free that realloc makes after   *)
(* it has allocated and copied.                                            *)
THEOREM AssertionHolds ==
  ASSUME PoolsFit, SizesTakeRoom
  PROVE  Spec => NoAssertionOnHeld
<1> DEFINE Sound == last'.ptr \in DOMAIN held => last'.code # ABORT
<1>1. ASSUME IInv, HeldLists, Next PROVE Sound
  <2> USE DEF OK, ABORT, CRASH
  <2>0. NULL \notin DOMAIN held /\ (g_pool = NULL => DOMAIN held = {})
    <3>1. NULL \notin Int
      BY MemoryAssumption
    <3>2. ASSUME g_pool = NULL PROVE DOMAIN held = {}
      BY <1>1, <3>2 DEF IInv, EmptyFn, HeldLists, Lists
    <3> QED BY <1>1, <3>1, <3>2 DEF HeldLists, Lists
  <2>1. ASSUME NEW p \in Pools, init(p) PROVE last'.code # ABORT
    BY <2>1 DEF init, Return
  <2>2. ASSUME NEW size \in Sizes, malloc(size) PROVE last'.code # ABORT
    BY <2>2 DEF malloc, malloc_fails, malloc_succeeds, Return
  <2>3. ASSUME NEW ptr \in Int \cup {NULL}, NEW size \in Sizes, realloc(ptr, size)
        PROVE  last'.code # ABORT
    <3>1. CASE ptr = NULL
      BY <2>2, <2>3, <3>1 DEF realloc
    <3>2. CASE realloc_unknown(ptr, size)
      BY <3>2 DEF realloc_unknown, Return
    <3>3. CASE realloc_in_place(ptr, size)
      BY <3>3 DEF realloc_in_place, Return
    <3>4. CASE ptr # NULL /\ realloc_moves(ptr, size)
      BY <1>1, <3>4, MoveHeld
    <3>5. CASE realloc_fails(ptr, size)
      BY <3>5 DEF realloc_fails, Return
    <3> QED BY <2>3, <3>1, <3>2, <3>3, <3>4, <3>5 DEF realloc
  <2>4. ASSUME NEW ptr \in Int \cup {NULL}, free_ext(ptr) \/ free(ptr) PROVE Sound
    <3>1. CASE g_pool = NULL
      BY <2>0, <3>1
    <3>2. CASE g_pool # NULL
      BY <1>1, <2>4, <3>2, FreeExtAnswers, FreeAnswers
    <3> QED BY <3>1, <3>2
  <2> QED BY <1>1, <2>1, <2>2, <2>3, <2>4, AddressesAreInt DEF Next
<1>2. IInv /\ HeldLists /\ [Next]_vars => [Sound]_vars
  BY <1>1
<1> QED BY <1>2, HeldInvariance, PTL DEF Spec, NoAssertionOnHeld

(* The size computation of malloc does not wrap around; that it may is the *)
(* case of the run memory_huge_size.                                       *)
SizesDoNotWrap == \A size \in Sizes : size + Chunk - 1 < SizeMod

(* Rounded up to blocks, a size is covered.                                *)
LEMMA RoundedUp ==
  ASSUME NEW size \in Nat, size + Chunk - 1 < SizeMod
  PROVE  size <= Chunk * (count_needed_blocks(size) - 1)
<1> DEFINE x == size + Chunk - 1
<1>1. Chunk \in Nat \ {0} /\ SizeMod \in Nat \ {0} /\ x \in Nat
  BY MemoryAssumption
<1>2. x % SizeMod = x
  BY <1>1
<1>3. count_needed_blocks(size) - 1 = x \div Chunk
  <2>1. x \div Chunk \in Int
    BY <1>1
  <2>2. DIV_CEIL(size, Chunk) = x \div Chunk
    BY <1>2 DEF DIV_CEIL
  <2> QED BY <2>1, <2>2 DEF count_needed_blocks
<1>4. x - Chunk < Chunk * (x \div Chunk)
  <2> HIDE DEF x
  <2> QED BY <1>1
<1>5. Chunk * (x \div Chunk) \in Int
  BY <1>1
<1> QED BY <1>1, <1>3, <1>4, <1>5

(* malloc and realloc answer NULL or a block with room for all the bytes   *)
(* that were asked for, as long as block counts do not wrap.               *)
THEOREM BlocksCoverRequests ==
  ASSUME PoolsFit, SizesTakeRoom, SizesDoNotWrap
  PROVE  Spec => []CapacityCovers
<1>1. IInv /\ HeldLists => CapacityCovers
  <2> SUFFICES ASSUME IInv, HeldLists, NEW ptr \in DOMAIN held
               PROVE  held[ptr] <= Chunk * (data_end(node, associated_node(ptr)) - ptr)
    BY DEF CapacityCovers
  <2>1. /\ held[ptr] \in Sizes /\ ptr \in Int
        /\ node[associated_node(ptr)].allocated_bytes = held[ptr]
    BY DEF HeldLists, Lists
  <2>2. held[ptr] \in Nat /\ count_needed_blocks(held[ptr]) \in Nat
    BY <2>1, SizesAreNat, CountType
  <2>3. data_end(node, associated_node(ptr)) - ptr = count_needed_blocks(held[ptr]) - 1
    BY <2>1, <2>2 DEF data_end, associated_node
  <2> QED BY <2>1, <2>2, <2>3, RoundedUp DEF SizesDoNotWrap
<1> QED BY <1>1, HeldInvariance, PTL

-----------------------------------------------------------------------------
(* Holes of a pool of blocks blocks with the headers h.                    *)

(* There is room for count blocks right behind node n.                     *)
Room(h, blocks, n, count) ==
  /\ h[n].node_next = NULL => data_end(h, n) + count <= blocks
  /\ h[n].node_next # NULL => data_end(h, n) + count <= h[n].node_next

(* No node covers one of the count blocks at base.                         *)
FreeAt(h, base, count) ==
  \A n \in DOMAIN h : (base .. base + count - 1) \cap (n .. data_end(h, n) - 1) = {}

(* Nodes in the order of addresses end before the next one begins.         *)
LEMMA EndsInOrder ==
  ASSUME NEW h, NEW blocks \in Nat, WellFormed(h, blocks),
         NEW m \in DOMAIN h, NEW n \in DOMAIN h, m < n
  PROVE  data_end(h, m) <= n /\ h[m].node_next # NULL /\ h[m].node_next <= n
<1>1. h[m].node_next # NULL /\ h[m].node_next <= n
  BY DEF WellFormed, Adjacent
<1>2. data_end(h, m) <= h[m].node_next
  BY <1>1 DEF WellFormed, NextOK
<1>3. data_end(h, m) \in Nat /\ h[m].node_next \in Nat /\ n \in Nat
  BY <1>1, EndInside DEF WellFormed
<1> QED BY <1>1, <1>2, <1>3

(* Room behind a node is a hole.                                           *)
LEMMA RoomIsHole ==
  ASSUME NEW h, NEW blocks \in Nat, WellFormed(h, blocks), NEW n \in DOMAIN h,
         NEW count \in Nat, count >= 1, Room(h, blocks, n, count)
  PROVE  data_end(h, n) \in 1 .. blocks - count /\ FreeAt(h, data_end(h, n), count)
<1> DEFINE base == data_end(h, n)
<1>1. base \in Nat /\ n < base /\ n \in Nat
  BY EndInside DEF WellFormed
<1>2. base + count <= blocks
  <2>1. CASE h[n].node_next = NULL
    BY <2>1 DEF Room
  <2>2. CASE h[n].node_next # NULL
    <3> DEFINE m == h[n].node_next
    <3>1. m \in DOMAIN h /\ base + count <= m
      BY <2>2 DEF Room, WellFormed, NextOK
    <3>2. m \in Nat /\ m < data_end(h, m) /\ data_end(h, m) \in Nat /\ data_end(h, m) <= blocks
      BY <3>1, EndInside DEF WellFormed, NextOK
    <3> HIDE DEF base, m
    <3> QED BY <1>1, <3>1, <3>2
  <2> QED BY <2>1, <2>2
<1>3. ASSUME NEW m \in DOMAIN h
      PROVE  (base .. base + count - 1) \cap (m .. data_end(h, m) - 1) = {}
  <2>1. m \in Nat /\ data_end(h, m) \in Nat
    BY EndInside DEF WellFormed
  <2>2. CASE m <= n
    <3>1. data_end(h, m) <= base
      <4>1. CASE m = n
        BY <4>1, <1>1
      <4>2. CASE m < n
        BY <4>2, <1>1, <2>1, EndsInOrder
      <4> QED BY <1>1, <2>1, <2>2, <4>1, <4>2
    <3> HIDE DEF base
    <3> QED BY <1>1, <2>1, <3>1
  <2>3. CASE n < m
    <3>1. h[n].node_next # NULL /\ h[n].node_next <= m /\ h[n].node_next \in Nat
      BY <2>3, EndsInOrder, EndInside
    <3>2. base + count <= m
      BY <1>1, <2>1, <3>1 DEF Room
    <3> HIDE DEF base
    <3> QED BY <1>1, <2>1, <3>2
  <2> QED BY <1>1, <2>1, <2>2, <2>3
<1> HIDE DEF base
<1>4. base \in 1 .. blocks - count
  BY <1>1, <1>2
<1> QED BY <1>3, <1>4 DEF FreeAt, base

(* A hole lies behind a node that has room: the last node below the hole.  *)
LEMMA HoleIsRoom ==
  ASSUME NEW h, NEW blocks \in Nat, WellFormed(h, blocks),
         NEW count \in Nat, count >= 1,
         NEW base \in 1 .. blocks - count, FreeAt(h, base, count)
  PROVE  \E n \in DOMAIN h : data_end(h, n) <= base /\ Room(h, blocks, n, count)
<1>0. 0 \in DOMAIN h /\ DOMAIN h \subseteq Nat /\ base \in Nat /\ base >= 1
      /\ base + count <= blocks
  BY DEF WellFormed
<1> DEFINE Below == {base - n : n \in {m \in DOMAIN h : m < base}}
<1>1. Below \in SUBSET Nat /\ Below # {}
  <2>1. \A n \in DOMAIN h : n < base => base - n \in Nat
    BY <1>0
  <2>2. base - 0 \in Below
    BY <1>0
  <2> QED BY <2>1, <2>2
<1>2. PICK least \in Below : \A k \in Below : least <= k
  BY <1>1, LeastElement
<1>3. PICK n \in DOMAIN h : n < base /\ least = base - n
  BY <1>2
<1>4. \A m \in DOMAIN h : m < base => m <= n
  <2> SUFFICES ASSUME NEW m \in DOMAIN h, m < base PROVE m <= n
    OBVIOUS
  <2>1. least <= base - m
    BY <1>2
  <2> QED BY <1>0, <1>3, <2>1
<1>5. data_end(h, n) \in Nat /\ n < data_end(h, n) /\ n \in Nat
  BY EndInside DEF WellFormed
<1>6. data_end(h, n) <= base
  <2> SUFFICES ASSUME base < data_end(h, n) PROVE FALSE
    BY <1>0, <1>5
  <2>1. base \in base .. base + count - 1
    BY <1>0
  <2>2. base \in n .. data_end(h, n) - 1
    BY <1>0, <1>3, <1>5
  <2> QED BY <2>1, <2>2 DEF FreeAt
<1>7. Room(h, blocks, n, count)
  <2>1. CASE h[n].node_next = NULL
    BY <1>0, <1>5, <1>6, <2>1 DEF Room
  <2>2. CASE h[n].node_next # NULL
    <3> DEFINE m == h[n].node_next
    <3>1. m \in DOMAIN h /\ m \in Nat /\ n < m
      BY <2>2, EndInside DEF WellFormed, NextOK
    <3>2. data_end(h, m) \in Nat /\ m < data_end(h, m)
      BY <3>1, EndInside
    <3> HIDE DEF m
    <3>3. base <= m
      BY <1>0, <1>4, <1>5, <3>1
    <3>4. m \in m .. data_end(h, m) - 1
      BY <3>1, <3>2
    <3>5. m \notin base .. base + count - 1
      BY <3>1, <3>4 DEF FreeAt
    <3>6. base + count <= m
      BY <1>0, <3>1, <3>3, <3>5
    <3> QED BY <1>0, <1>5, <1>6, <2>2, <3>1, <3>6 DEF Room, m
  <2> QED BY <2>1, <2>2
<1> QED BY <1>6, <1>7

-----------------------------------------------------------------------------
(* The walk of malloc.                                                     *)

(* The test of the walk, in size_t arithmetic, is about room.              *)
LEMMA AvailableIsRoom ==
  ASSUME PoolOK, NEW bytes \in Nat, NEW n \in DOMAIN node
  PROVE  available_free_space_after_node(node, n, bytes)
           <=> Room(node, g_pool.blocks, n, count_needed_blocks(bytes))
<1>0. /\ g_pool.blocks \in Nat /\ g_pool.blocks < SizeMod /\ SizeMod \in Nat
      /\ WellFormed(node, g_pool.blocks)
  BY MemoryAssumption DEF PoolOK
<1>1. data_end(node, n) \in Nat /\ count_needed_blocks(bytes) \in Nat
  BY <1>0, EndInside, CountType
<1>2. /\ free_space_end(node, n) \in Nat
      /\ data_end(node, n) <= free_space_end(node, n)
      /\ free_space_end(node, n) <= g_pool.blocks
  <2>1. CASE node[n].node_next = NULL
    BY <2>1, <1>0 DEF free_space_end, WellFormed, NextOK
  <2>2. CASE node[n].node_next # NULL
    <3> DEFINE m == node[n].node_next
    <3>1. m \in DOMAIN node /\ m \in Nat /\ data_end(node, n) <= m
      BY <2>2, <1>0, EndInside DEF WellFormed, NextOK
    <3>2. data_end(node, m) \in Nat /\ m < data_end(node, m) /\ data_end(node, m) <= g_pool.blocks
      BY <3>1, <1>0, EndInside DEF WellFormed, NextOK
    <3> QED BY <2>2, <3>1, <3>2, <1>0 DEF free_space_end
  <2> QED BY <2>1, <2>2
<1>3. blocks_between(data_end(node, n), free_space_end(node, n))
        = free_space_end(node, n) - data_end(node, n)
  BY <1>0, <1>1, <1>2, BetweenExact
<1>4. available_free_space_after_node(node, n, bytes)
        <=> data_end(node, n) + count_needed_blocks(bytes) <= free_space_end(node, n)
  BY <1>1, <1>2, <1>3 DEF available_free_space_after_node
<1> QED BY <1>4 DEF Room, free_space_end

(* The nodes the walk stops at, if any, are the lowest ones with room.     *)
LEMMA FirstFitIsLowest ==
  ASSUME PoolOK, NEW bytes \in Nat
  PROVE  LET room == {n \in DOMAIN node :
                        Room(node, g_pool.blocks, n, count_needed_blocks(bytes))}
         IN  first_fit(node, bytes) = {n \in room : \A m \in room : n <= m}
<1> DEFINE room == {n \in DOMAIN node :
                      Room(node, g_pool.blocks, n, count_needed_blocks(bytes))}
           fits == {n \in ListFrom(node, 0) : available_free_space_after_node(node, n, bytes)}
<1>1. WellFormed(node, g_pool.blocks) /\ g_pool.blocks \in Nat
      /\ 0 \in DOMAIN node /\ DOMAIN node \subseteq Nat
  BY DEF PoolOK, WellFormed
<1>2. ListFrom(node, 0) = DOMAIN node
  <2>1. ListFrom(node, 0) = {m \in DOMAIN node : 0 <= m}
    BY <1>1, WalkIsUpwards
  <2> QED BY <1>1, <2>1
<1>3. fits = room
  BY <1>2, AvailableIsRoom
<1>4. first_fit(node, bytes) = {n \in fits : \A m \in fits : n \in ListFrom(node, m) => m = n}
  BY DEF first_fit
<1>5. \A m, n \in room : n \in ListFrom(node, m) <=> m <= n
  BY <1>1, WalkIsUpwards
<1>6. room \subseteq Nat
  BY <1>1
<1> HIDE DEF fits, room
<1>7. \A m, n \in room : (n \in ListFrom(node, m) => m = n) <=> n <= m
  BY <1>5, <1>6
<1>8. first_fit(node, bytes) = {n \in room : \A m \in room : n <= m}
  BY <1>3, <1>4, <1>7
<1> QED BY <1>8 DEF room

(* It stops at one when there is one.                                      *)
LEMMA FirstFitExists ==
  ASSUME PoolOK, NEW bytes \in Nat, NEW n \in DOMAIN node,
         Room(node, g_pool.blocks, n, count_needed_blocks(bytes))
  PROVE  first_fit(node, bytes) # {}
<1> DEFINE room == {m \in DOMAIN node :
                      Room(node, g_pool.blocks, m, count_needed_blocks(bytes))}
<1>1. room \in SUBSET Nat /\ room # {}
  BY DEF PoolOK, WellFormed
<1>2. \E m \in room : \A k \in room : m <= k
  BY <1>1, LeastElement
<1> QED BY <1>2, FirstFitIsLowest

(* The holes of the property are those of the list.                        *)
LEMMA HolesOfList ==
  ASSUME NEW count, NEW base, NEW ignored
  PROVE  base \in Holes(count, ignored) <=>
           /\ base \in 1 .. g_pool.blocks - count
           /\ \A n \in DOMAIN node \ ignored :
                (base .. base + count - 1) \cap (n .. data_end(node, n) - 1) = {}
BY DEF Holes, Span

(* malloc places a block at the lowest hole or finds none.                 *)
LEMMA MallocLowest ==
  ASSUME PoolOK, NEW bytes \in Nat
  PROVE  LET holes == Holes(count_needed_blocks(bytes), {})
         IN  /\ first_fit(node, bytes) = {} => holes = {}
             /\ \A n \in first_fit(node, bytes) :
                  data_end(node, n) \in holes /\ \A base \in holes : data_end(node, n) <= base
<1> DEFINE count == count_needed_blocks(bytes)
           holes == Holes(count, {})
<1>1. WellFormed(node, g_pool.blocks) /\ g_pool.blocks \in Nat /\ DOMAIN node \subseteq Nat
      /\ count \in Nat /\ count >= 1
  BY CountType DEF PoolOK, WellFormed
<1>2. ASSUME NEW base \in holes
      PROVE  \E n \in DOMAIN node : data_end(node, n) <= base /\ Room(node, g_pool.blocks, n, count)
  <2> HIDE DEF count
  <2>1. base \in 1 .. g_pool.blocks - count /\ FreeAt(node, base, count)
    BY <1>2, HolesOfList DEF FreeAt
  <2> QED BY <1>1, <2>1, HoleIsRoom
<1>3. ASSUME first_fit(node, bytes) = {} PROVE holes = {}
  BY <1>2, <1>3, FirstFitExists
<1>4. ASSUME NEW n \in first_fit(node, bytes)
      PROVE  data_end(node, n) \in holes /\ \A base \in holes : data_end(node, n) <= base
  <2>1. n \in DOMAIN node /\ Room(node, g_pool.blocks, n, count)
        /\ \A m \in DOMAIN node : Room(node, g_pool.blocks, m, count) => n <= m
    BY FirstFitIsLowest
  <2> HIDE DEF count
  <2>2. data_end(node, n) \in holes
    <3>1. data_end(node, n) \in 1 .. g_pool.blocks - count
          /\ FreeAt(node, data_end(node, n), count)
      BY <1>1, <2>1, RoomIsHole
    <3> QED BY <3>1, HolesOfList DEF FreeAt
  <2>3. ASSUME NEW base \in holes PROVE data_end(node, n) <= base
    <3>1. PICK m \in DOMAIN node : data_end(node, m) <= base /\ Room(node, g_pool.blocks, m, count)
      BY <1>2
    <3>2. n <= m /\ m < data_end(node, m) /\ data_end(node, m) \in Nat /\ data_end(node, n) \in Nat
      BY <1>1, <2>1, <3>1, EndInside
    <3>3. base \in Int
      BY HolesOfList
    <3>4. CASE n = m
      BY <3>1, <3>4
    <3>5. CASE n < m
      <4>1. data_end(node, n) <= m
        BY <1>1, <2>1, <3>5, EndsInOrder
      <4> QED BY <1>1, <3>1, <3>2, <3>3, <4>1
    <3> QED BY <1>1, <2>1, <3>2, <3>4, <3>5
  <2> QED BY <2>2, <2>3
<1> QED BY <1>3, <1>4

(* realloc gives up only when even without the old block there is no hole. *)
LEMMA ReallocFailsWithoutHole ==
  ASSUME IInv, NEW ptr, NEW size \in Sizes, realloc_fails(ptr, size)
  PROVE  Holes(count_needed_blocks(size), {associated_node(ptr)}) = {}
<1> DEFINE old == associated_node(ptr)
           prev == node[old].node_prev
           next == node[old].node_next
           h == unlink_node(node, old)
           count == count_needed_blocks(size)
           blocks == g_pool.blocks
<1>1. PoolOK /\ WellFormed(node, blocks) /\ blocks \in Nat /\ blocks < SizeMod
      /\ SizeMod \in Nat /\ DOMAIN node \subseteq Nat /\ size \in Nat
  BY SizesAreNat, MemoryAssumption DEF realloc_fails, IInv, PoolOK, WellFormed
<1>2. old \in DOMAIN node \ {0}
  BY <1>1, ListIsLive DEF realloc_fails, is_existing_memory_node
<1>3. count \in Nat /\ count >= 1
  BY <1>1, CountType
<1>4. first_fit(node, size) = {} /\ ~fits_in_place(old, size)
  BY DEF realloc_fails
<1>5. WellFormed(h, blocks)
  BY <1>1, <1>2, UnlinkKeepsShape
<1>6. /\ DOMAIN h = DOMAIN node \ {old}
      /\ \A n \in DOMAIN h : data_end(h, n) = data_end(node, n)
                             /\ h[n].node_next = IF n = prev THEN next ELSE node[n].node_next
  <2>1. DOMAIN h = DOMAIN node \ {old}
    BY DEF unlink_node
  <2>2. ASSUME NEW n \in DOMAIN h
        PROVE  /\ h[n].allocated_bytes = node[n].allocated_bytes
               /\ h[n].node_next = IF n = prev THEN next ELSE node[n].node_next
    BY <2>2 DEF unlink_node
  <2> HIDE DEF h
  <2> QED BY <2>1, <2>2 DEF data_end
<1> HIDE DEF h
<1> SUFFICES ASSUME NEW base \in Holes(count, {old}) PROVE FALSE
  OBVIOUS
<1>7. base \in 1 .. blocks - count /\ FreeAt(h, base, count)
  <2> HIDE DEF count
  <2> QED BY <1>6, HolesOfList DEF FreeAt
<1>8. PICK n \in DOMAIN h : Room(h, blocks, n, count)
  BY <1>1, <1>3, <1>5, <1>7, HoleIsRoom
<1>9. CASE n # prev
  <2>1. n \in DOMAIN node /\ Room(node, blocks, n, count)
    BY <1>6, <1>8, <1>9 DEF Room
  <2> QED BY <1>1, <1>4, <2>1, FirstFitExists
<1>10. CASE n = prev
  <2> DEFINE from == data_end(node, prev)
             to == free_space_end(node, old)
  <2>1. from \in Nat /\ from + count <= to
    <3>1. data_end(h, n) = from /\ h[n].node_next = next
      BY <1>6, <1>10
    <3>2. from \in Nat
      BY <1>1, <1>6, <1>10, EndInside
    <3> QED BY <1>8, <3>1, <3>2 DEF Room, free_space_end
  <2>2. to \in Nat /\ to <= blocks
    <3>1. CASE next = NULL
      BY <1>1, <3>1 DEF free_space_end
    <3>2. CASE next # NULL
      <4>1. next \in DOMAIN node /\ next \in Nat
        BY <1>1, <1>2, <3>2 DEF WellFormed, NextOK
      <4>2. next < data_end(node, next) /\ data_end(node, next) <= blocks
            /\ data_end(node, next) \in Nat
        BY <1>1, <4>1, EndInside DEF WellFormed, NextOK
      <4> QED BY <1>1, <3>2, <4>1, <4>2 DEF free_space_end
    <3> QED BY <3>1, <3>2
  <2> HIDE DEF from, to
  <2>3. blocks_between(from, to) = to - from
    BY <1>1, <1>3, <2>1, <2>2, BetweenExact
  <2>4. count <= blocks_between(from, to)
    BY <1>3, <2>1, <2>2, <2>3
  <2> QED BY <1>4, <2>4 DEF fits_in_place, from, to
<1> QED BY <1>9, <1>10

-----------------------------------------------------------------------------
(* The theorems.                                                           *)

(* The community modules' Min of a set is its least element.               *)
LEMMA LeastIsMin ==
  ASSUME NEW S \in SUBSET Int, NEW m \in S, \A k \in S : m <= k
  PROVE  Min(S) = m
<1>1. \A b \in S : (\A k \in S : b <= k) => b = m
  OBVIOUS
<1> QED BY <1>1 DEF Min

(* Only malloc, called by the program or by realloc(NULL), records a call  *)
(* of that name; only the others realloc.                                  *)
LEMMA AllocatingCalls ==
  ASSUME Next
  PROVE  /\ last'.op = "malloc" => \E size \in Sizes : malloc(size)
         /\ last'.op = "realloc" =>
              \E ptr \in Int, size \in Sizes : realloc(ptr, size) /\ ptr # NULL
<1>1. ASSUME NEW p \in Pools, init(p) PROVE last'.op = "init"
  BY <1>1 DEF init, Return
<1>2. ASSUME NEW ptr, free_ext(ptr) \/ free(ptr) PROVE last'.op = "free"
  BY <1>2 DEF free_ext, free, Return
<1>3. ASSUME NEW size \in Sizes, malloc(size) PROVE last'.op = "malloc"
  BY <1>3 DEF malloc, malloc_fails, malloc_succeeds, Return
<1>4. ASSUME NEW ptr \in Int, NEW size \in Sizes, realloc(ptr, size), ptr # NULL
      PROVE  last'.op = "realloc"
  BY <1>4 DEF realloc, realloc_unknown, realloc_in_place, realloc_moves, realloc_fails, Return
<1>5. ASSUME NEW ptr \in Addresses \cup {NULL}, NEW size \in Sizes, realloc(ptr, size)
      PROVE  malloc(size) \/ (ptr \in Int /\ ptr # NULL)
  BY <1>5, AddressesAreInt DEF realloc
<1> QED BY <1>1, <1>2, <1>3, <1>4, <1>5 DEF Next

(* malloc answers the lowest hole that is big enough, and NULL only when   *)
(* there is none: no history of frees leaves room that its walk misses.    *)
THEOREM MallocFindsLowestHole ==
  ASSUME PoolsFit
  PROVE  Spec => MallocTakesLowestHole
<1> DEFINE Lowest == last'.op = "malloc" /\ g_pool # NULL =>
                       LET holes == Holes(count_needed_blocks(last'.size), {})
                       IN  last'.ret = IF holes = {} THEN NULL ELSE data_begin(Min(holes))
<1>1. ASSUME IInv, Next PROVE Lowest
  <2> SUFFICES ASSUME last'.op = "malloc", g_pool # NULL
               PROVE  LET holes == Holes(count_needed_blocks(last'.size), {})
                      IN  last'.ret = IF holes = {} THEN NULL ELSE data_begin(Min(holes))
    OBVIOUS
  <2>1. PICK size \in Sizes : malloc(size)
    BY <1>1, AllocatingCalls
  <2>2. PoolOK /\ size \in Nat
    BY <1>1, SizesAreNat DEF IInv
  <2> DEFINE holes == Holes(count_needed_blocks(size), {})
  <2>3. last'.size = size
    BY <2>1 DEF malloc, malloc_fails, malloc_succeeds, Return
  <2>4. CASE malloc_fails(size)
    <3>1. last'.ret = NULL /\ first_fit(node, size) = {}
      BY <2>4 DEF malloc_fails, Return
    <3> QED BY <2>2, <2>3, <3>1, MallocLowest
  <2>5. CASE malloc_succeeds(size)
    <3>1. PICK n \in first_fit(node, size) : last'.ret = data_begin(data_end(node, n))
      BY <2>5 DEF malloc_succeeds, Return
    <3>2. data_end(node, n) \in holes /\ \A base \in holes : data_end(node, n) <= base
      BY <2>2, MallocLowest
    <3>3. holes \subseteq Int
      <4>1. Holes(count_needed_blocks(size), {}) \subseteq 1 .. g_pool.blocks - count_needed_blocks(size)
        BY DEF Holes
      <4> QED BY <4>1
    <3>4. Min(holes) = data_end(node, n)
      BY <3>2, <3>3, LeastIsMin
    <3> QED BY <2>3, <3>1, <3>2, <3>4
  <2> QED BY <2>1, <2>4, <2>5 DEF malloc
<1>2. IInv /\ [Next]_vars => [Lowest]_vars
  BY <1>1
<1> QED BY <1>2, Invariance, PTL DEF Spec, MallocTakesLowestHole

(* realloc of a block the program holds fails only when the pool has no    *)
(* hole for the new size even with the old block taken away.               *)
THEOREM ReallocFindsHole ==
  ASSUME PoolsFit, SizesTakeRoom
  PROVE  Spec => ReallocFindsRoom
<1> DEFINE Found == last'.op = "realloc" /\ last'.ptr \in DOMAIN held /\ last'.ret = NULL =>
                      Holes(count_needed_blocks(last'.size), {associated_node(last'.ptr)}) = {}
<1>1. ASSUME IInv, HeldLists, Next PROVE Found
  <2> SUFFICES ASSUME last'.op = "realloc", last'.ptr \in DOMAIN held, last'.ret = NULL
               PROVE  Holes(count_needed_blocks(last'.size), {associated_node(last'.ptr)}) = {}
    OBVIOUS
  <2>1. PICK ptr \in Int, size \in Sizes : realloc(ptr, size) /\ ptr # NULL
    BY <1>1, AllocatingCalls
  <2>2. last'.ptr = ptr /\ last'.size = size
    BY <2>1 DEF realloc, realloc_unknown, realloc_in_place, realloc_moves, realloc_fails, Return
  <2>3. associated_node(ptr) \in DOMAIN node \ {0} /\ g_pool # NULL
    BY <1>1, <2>2 DEF HeldLists, Lists, IInv, EmptyFn
  <2>4. PoolOK /\ WellFormed(node, g_pool.blocks) /\ g_pool.blocks \in Nat
    BY <1>1, <2>3 DEF IInv, PoolOK
  <2>5. ~realloc_unknown(ptr, size)
    BY <2>3, <2>4, ListIsLive DEF realloc_unknown, is_existing_memory_node
  <2>6. ~realloc_in_place(ptr, size)
    <3> DEFINE prev == node[associated_node(ptr)].node_prev
    <3>1. prev \in DOMAIN node
      BY <2>3, <2>4 DEF WellFormed, PrevOK
    <3>2. data_end(node, prev) \in Nat
      BY <2>4, <3>1, EndInside
    <3>3. data_begin(data_end(node, prev)) # NULL
      BY <3>2, MemoryAssumption DEF data_begin
    <3> QED BY <3>3 DEF realloc_in_place, Return
  <2>7. ~realloc_moves(ptr, size)
    <3>1. ASSUME NEW n \in first_fit(node, size) PROVE data_begin(data_end(node, n)) # NULL
      <4>1. data_end(node, n) \in Nat
        BY <2>4, SizesAreNat, FirstFitHasRoom
      <4> QED BY <4>1, MemoryAssumption DEF data_begin
    <3> QED BY <3>1 DEF realloc_moves, Return
  <2>8. realloc_fails(ptr, size)
    BY <2>1, <2>5, <2>6, <2>7 DEF realloc
  <2> QED BY <1>1, <2>2, <2>8, ReallocFailsWithoutHole
<1>2. IInv /\ HeldLists /\ [Next]_vars => [Found]_vars
  BY <1>1
<1> QED BY <1>2, HeldInvariance, PTL DEF Spec, ReallocFindsRoom

-----------------------------------------------------------------------------
(* The counters.                                                           *)

(* The unit bytes (or blocks) of the elements of s when g counts those of  *)
(* each element: how the sums of get_allocated_bytes and                   *)
(* get_memory_allocated_blocks are counted without recursion.              *)
Units(g, s) == {t \in s \X Nat : t[2] < g[t[1]]}

(* The recursion of MapThenSumSet.                                         *)
SumsUp(it, g, S) ==
  it = [s \in SUBSET S |->
          IF s = {} THEN 0
          ELSE LET x == CHOOSE x \in s : TRUE IN g[x] + it[s \ {x}]]

Bounded(g, S, bound) ==
  IsFiniteSet(S) /\ g \in [S -> Nat] /\ \A x \in S : g[x] <= bound

(* There are finitely many units, g[x] of them for the element x.          *)
LEMMA UnitsOfElement ==
  ASSUME NEW S, NEW g, NEW bound \in Nat, Bounded(g, S, bound), NEW s \in SUBSET S
  PROVE  /\ IsFiniteSet(Units(g, s)) /\ Cardinality(Units(g, s)) \in Nat
         /\ s = {} => Cardinality(Units(g, s)) = 0
         /\ \A x \in s : Cardinality(Units(g, s)) = g[x] + Cardinality(Units(g, s \ {x}))
<1>1. ASSUME NEW r \in SUBSET S PROVE IsFiniteSet(Units(g, r)) /\ Cardinality(Units(g, r)) \in Nat
  <2>1. IsFiniteSet(S \X (0 .. bound))
    <3>1. 0 \in Int /\ bound \in Int
      OBVIOUS
    <3>2. IsFiniteSet(0 .. bound)
      BY <3>1, FS_Interval, Zenon
    <3>3. IsFiniteSet(S)
      BY DEF Bounded
    <3> QED BY <3>2, <3>3, FS_Product, Zenon
  <2>2. Units(g, r) \in SUBSET (S \X (0 .. bound))
    BY DEF Units, Bounded
  <2> QED BY <2>1, <2>2, FS_Subset, FS_CardinalityType
<1>2. ASSUME s = {} PROVE Cardinality(Units(g, s)) = 0
  <2>1. Units(g, s) = {}
    BY <1>2 DEF Units
  <2> QED BY <2>1, FS_EmptySet
<1>3. ASSUME NEW x \in s
      PROVE  Cardinality(Units(g, s)) = g[x] + Cardinality(Units(g, s \ {x}))
  <2> DEFINE own == {x} \X (0 .. g[x] - 1)
             rest == Units(g, s \ {x})
  <2>1. g[x] \in Nat
    BY DEF Bounded
  <2>2. IsFiniteSet(own) /\ Cardinality(own) = g[x]
    <3>1. IsFiniteSet(0 .. g[x] - 1) /\ Cardinality(0 .. g[x] - 1) = g[x]
      <4> DEFINE k == g[x]
      <4>1. k \in Nat /\ 0 \in Int /\ k - 1 \in Int
        BY <2>1
      <4> HIDE DEF k
      <4>2. /\ IsFiniteSet(0 .. k - 1)
            /\ Cardinality(0 .. k - 1) = IF 0 > k - 1 THEN 0 ELSE k - 1 - 0 + 1
        BY <4>1, FS_Interval, Zenon
      <4>3. Cardinality(0 .. k - 1) = k
        BY <4>1, <4>2
      <4> QED BY <4>2, <4>3 DEF k
    <3>2. IsFiniteSet({x}) /\ Cardinality({x}) = 1
      BY FS_Singleton
    <3>3. IsFiniteSet(own) /\ Cardinality(own) = 1 * g[x]
      BY <3>1, <3>2, FS_Product
    <3> QED BY <2>1, <3>3
  <2>3. IsFiniteSet(rest) /\ Cardinality(rest) \in Nat
    BY <1>1
  <2>4. Units(g, s) = own \cup rest /\ own \cap rest = {}
    BY <2>1 DEF Units
  <2> HIDE DEF own, rest
  <2>5. Cardinality({}) = 0
    BY FS_EmptySet
  <2>6. Cardinality(own \cup rest) = Cardinality(own) + Cardinality(rest) - Cardinality(own \cap rest)
    BY <2>2, <2>3, FS_Union, Zenon
  <2>7. Cardinality(Units(g, s)) = Cardinality(own) + Cardinality(rest) - 0
    BY <2>4, <2>5, <2>6, Zenon
  <2>8. Cardinality(Units(g, s)) = g[x] + Cardinality(rest)
    BY <2>1, <2>2, <2>3, <2>7
  <2> QED BY <2>8 DEF rest
<1> QED BY <1>1, <1>2, <1>3

(* The recursion has a value, and it is the number of units.               *)
LEMMA SumIsUnits ==
  ASSUME NEW S, NEW g, NEW bound \in Nat, Bounded(g, S, bound)
  PROVE  /\ \E it : SumsUp(it, g, S)
         /\ \A it : SumsUp(it, g, S) => it[S] = Cardinality(Units(g, S))
<1> DEFINE count == [s \in SUBSET S |-> Cardinality(Units(g, s))]
<1>1. SumsUp(count, g, S)
  <2>1. ASSUME NEW s \in SUBSET S
        PROVE  count[s] = IF s = {} THEN 0
                          ELSE LET x == CHOOSE x \in s : TRUE IN g[x] + count[s \ {x}]
    <3>1. CASE s = {}
      BY <3>1, UnitsOfElement
    <3>2. CASE s # {}
      <4> DEFINE x == CHOOSE x \in s : TRUE
      <4>1. x \in s
        BY <3>2
      <4> HIDE DEF x
      <4>2. count[s] = g[x] + count[s \ {x}]
        BY <4>1, UnitsOfElement
      <4> QED BY <3>2, <4>2 DEF x
    <3> QED BY <3>1, <3>2
  <2>2. count = [s \in SUBSET S |-> count[s]]
    OBVIOUS
  <2> HIDE DEF count
  <2> QED BY <2>1, <2>2 DEF SumsUp
<1>2. ASSUME NEW it, SumsUp(it, g, S) PROVE it[S] = Cardinality(Units(g, S))
  <2> DEFINE bad == {s \in SUBSET S : it[s] # count[s]}
             sizes == {Cardinality(s) : s \in bad}
  <2>0. \A s \in SUBSET S : IsFiniteSet(s) /\ Cardinality(s) \in Nat
    BY FS_Subset, FS_CardinalityType DEF Bounded
  <2>1. ASSUME bad # {} PROVE FALSE
    <3>1. sizes \in SUBSET Nat /\ sizes # {}
      BY <2>0, <2>1
    <3>2. PICK least \in sizes : \A k \in sizes : least <= k
      <4> HIDE DEF sizes
      <4> QED BY <3>1, LeastElement
    <3>3. PICK s \in bad : Cardinality(s) = least
      BY <3>2
    <3> DEFINE x == CHOOSE x \in s : TRUE
    <3>4. it[s] = IF s = {} THEN 0 ELSE g[x] + it[s \ {x}]
      BY <1>2, <3>3 DEF SumsUp
    <3>5. count[s] = IF s = {} THEN 0 ELSE g[x] + count[s \ {x}]
      BY <1>1, <3>3 DEF SumsUp
    <3>6. s # {} /\ x \in s
      BY <3>3, <3>4, <3>5
    <3> HIDE DEF x
    <3>7. s \ {x} \in SUBSET S /\ Cardinality(s \ {x}) < Cardinality(s)
      BY <2>0, <3>3, <3>6, FS_RemoveElement
    <3>8. s \ {x} \notin bad
      <4>1. ASSUME s \ {x} \in bad PROVE FALSE
        <5>1. Cardinality(s \ {x}) \in sizes
          BY <4>1
        <5>2. least <= Cardinality(s \ {x}) /\ least \in Nat /\ Cardinality(s \ {x}) \in Nat
          BY <5>1, <3>1, <3>2
        <5> QED BY <5>2, <3>3, <3>7
      <4> QED BY <4>1
    <3> QED BY <3>3, <3>4, <3>5, <3>6, <3>7, <3>8
  <2> QED BY <2>1
<1> QED BY <1>1, <1>2

(* The sums of the counters as numbers of units: the bytes recorded in the *)
(* listed nodes.                                                           *)
LEMMA RecordedSum ==
  ASSUME NEW S, NEW g, NEW bound \in Nat, Bounded(g, S, bound),
         \A n \in S : g[n] = node[n].allocated_bytes
  PROVE  MapThenSumSet(LAMBDA n : node[n].allocated_bytes, S) = Cardinality(Units(g, S))
<1> DEFINE Sum(it) == it = [s \in SUBSET S |->
                              IF s = {} THEN 0
                              ELSE LET x == CHOOSE x \in s : TRUE
                                   IN  node[x].allocated_bytes + it[s \ {x}]]
           sum == CHOOSE it : Sum(it)
<1>1. MapThenSumSet(LAMBDA n : node[n].allocated_bytes, S) = sum[S]
  BY DEF MapThenSumSet, MapThenFoldSet
<1>2. \A it : Sum(it) <=> SumsUp(it, g, S)
  BY DEF SumsUp
<1> HIDE DEF Sum
<1>3. SumsUp(sum, g, S)
  BY <1>2, SumIsUnits
<1> QED BY <1>1, <1>3, SumIsUnits

(* The blocks of the listed nodes.                                         *)
LEMMA NeededSum ==
  ASSUME NEW S, NEW g, NEW bound \in Nat, Bounded(g, S, bound),
         \A n \in S : g[n] = count_needed_blocks(node[n].allocated_bytes)
  PROVE  MapThenSumSet(LAMBDA n : count_needed_blocks(node[n].allocated_bytes), S)
           = Cardinality(Units(g, S))
<1> DEFINE Sum(it) == it = [s \in SUBSET S |->
                              IF s = {} THEN 0
                              ELSE LET x == CHOOSE x \in s : TRUE
                                   IN  count_needed_blocks(node[x].allocated_bytes) + it[s \ {x}]]
           sum == CHOOSE it : Sum(it)
<1>1. MapThenSumSet(LAMBDA n : count_needed_blocks(node[n].allocated_bytes), S) = sum[S]
  BY DEF MapThenSumSet, MapThenFoldSet
<1>2. \A it : Sum(it) <=> SumsUp(it, g, S)
  BY DEF SumsUp
<1> HIDE DEF Sum
<1>3. SumsUp(sum, g, S)
  BY <1>2, SumIsUnits
<1> QED BY <1>1, <1>3, SumIsUnits

(* The bytes the program asked for.                                        *)
LEMMA HeldSum ==
  ASSUME NEW S, NEW g, NEW bound \in Nat, Bounded(g, S, bound), \A p \in S : g[p] = held[p]
  PROVE  MapThenSumSet(LAMBDA p : held[p], S) = Cardinality(Units(g, S))
<1> DEFINE Sum(it) == it = [s \in SUBSET S |->
                              IF s = {} THEN 0
                              ELSE LET x == CHOOSE x \in s : TRUE
                                   IN  held[x] + it[s \ {x}]]
           sum == CHOOSE it : Sum(it)
<1>1. MapThenSumSet(LAMBDA p : held[p], S) = sum[S]
  BY DEF MapThenSumSet, MapThenFoldSet
<1>2. \A it : Sum(it) <=> SumsUp(it, g, S)
  BY DEF SumsUp
<1> HIDE DEF Sum
<1>3. SumsUp(sum, g, S)
  BY <1>2, SumIsUnits
<1> QED BY <1>1, <1>3, SumIsUnits

(* What the sentinel and the size of the pool are fixed to by init.        *)
SentinelOK ==
  g_pool # NULL => /\ node[0].allocated_bytes = 0
                   /\ Chunk * g_pool.blocks < SizeMod

(* A pool starts with an empty sentinel, and its bytes can be counted.     *)
LEMMA PoolSentinel ==
  ASSUME PoolsFit, NEW p \in Pools, init(p)
  PROVE  SentinelOK'
<1> DEFINE e == aligned_extent(p)
<1>1. PICK ok \in accepted(e) :
        IF ok
        THEN /\ g_pool' = [blocks |-> e \div Chunk, tail |-> e % Chunk # 0]
             /\ node' = [n \in {0} |-> [node_next |-> NULL, node_prev |-> NULL,
                                        allocated_bytes |-> 0]]
        ELSE g_pool' = NULL /\ node' = EmptyFn
  BY DEF init
<1>2. e \in Int /\ e < SizeMod /\ Chunk \in Nat \ {0}
  BY ExtentType, MemoryAssumption
<1>3. g_pool' # NULL => node'[0].allocated_bytes = 0 /\ g_pool'.blocks = e \div Chunk
  <2> HIDE DEF e
  <2> QED BY <1>1
<1>4. Chunk * (e \div Chunk) <= e
  <2> HIDE DEF e
  <2> QED BY <1>2
<1>5. Chunk * (e \div Chunk) \in Int
  <2> HIDE DEF e
  <2> QED BY <1>2
<1>6. Chunk * (e \div Chunk) < SizeMod
  <2> HIDE DEF e
  <2> QED BY <1>2, <1>4, <1>5, MemoryAssumption
<1> QED BY <1>3, <1>6 DEF SentinelOK

(* Placing a block leaves the sentinel as it is, and so does unlinking one.*)
LEMMA PlaceSentinel ==
  ASSUME PoolOK, NEW size \in Sizes, NEW n \in first_fit(node, size)
  PROVE  /\ 0 \in DOMAIN place_after(node, n, size)
         /\ place_after(node, n, size)[0].allocated_bytes = node[0].allocated_bytes
<1>1. data_end(node, n) # 0
  BY SizesAreNat, PlaceIsFresh
<1>2. 0 \in DOMAIN node
  BY DEF PoolOK, WellFormed
<1> QED BY <1>1, <1>2 DEF place_after, insert_node

(* The sentinel is never what is unlinked.                                 *)
LEMMA UnlinkSentinel ==
  ASSUME NEW h, NEW old, old # 0, 0 \in DOMAIN h
  PROVE  unlink_node(h, old)[0].allocated_bytes = h[0].allocated_bytes
BY DEF unlink_node

(* No call gives the sentinel data or changes the size of the pool.        *)
LEMMA NextSentinel ==
  ASSUME PoolsFit, IInv, SentinelOK, [Next]_vars
  PROVE  SentinelOK'
<1>0. ASSUME g_pool # NULL, UNCHANGED g_pool, node'[0].allocated_bytes = node[0].allocated_bytes
      PROVE  SentinelOK'
  BY <1>0 DEF SentinelOK
<1>1. ASSUME UNCHANGED <<g_pool, node>> PROVE SentinelOK'
  BY <1>1 DEF SentinelOK
<1>2. ASSUME g_pool # NULL
      PROVE  /\ PoolOK /\ 0 \in DOMAIN node
             /\ \A m : is_existing_memory_node(node, m) => m \in DOMAIN node \ {0}
  <2>1. PoolOK /\ g_pool.blocks \in Nat /\ WellFormed(node, g_pool.blocks)
    BY <1>2 DEF IInv, PoolOK
  <2> QED BY <2>1, ListIsLive DEF WellFormed, is_existing_memory_node
<1>3. ASSUME NEW size \in Sizes, malloc(size) PROVE SentinelOK'
  <2>1. CASE malloc_fails(size)
    BY <1>1, <1>3, <2>1 DEF malloc, malloc_fails
  <2>2. CASE malloc_succeeds(size)
    BY <1>0, <1>2, <1>3, <2>2, PlaceSentinel DEF malloc, malloc_succeeds
  <2> QED BY <1>3, <2>1, <2>2 DEF malloc
<1>4. ASSUME NEW ptr \in Int \cup {NULL}, NEW size \in Sizes, realloc(ptr, size)
      PROVE  SentinelOK'
  <2>1. CASE ptr = NULL
    BY <1>3, <1>4, <2>1 DEF realloc
  <2>2. CASE ptr # NULL /\ (realloc_unknown(ptr, size) \/ realloc_fails(ptr, size))
    BY <1>1, <1>4, <2>2 DEF realloc, realloc_unknown, realloc_fails
  <2>3. CASE ptr # NULL /\ realloc_in_place(ptr, size)
    <3> DEFINE old == associated_node(ptr)
               new == data_end(node, node[old].node_prev)
    <3>1. g_pool # NULL /\ old \in DOMAIN node \ {0} /\ UNCHANGED g_pool
      BY <1>2, <1>4, <2>3 DEF realloc, realloc_in_place
    <3>2. WellFormed(node, g_pool.blocks) /\ g_pool.blocks \in Nat /\ 0 \in DOMAIN node
      BY <1>2, <3>1 DEF PoolOK
    <3>3. node[old].node_prev \in DOMAIN node /\ node[old].node_prev \in Nat
      BY <3>1, <3>2 DEF WellFormed, PrevOK
    <3>4. new # 0
      BY <3>2, <3>3, EndInside
    <3>5. node' = Slid(old, size)
      BY <2>3 DEF realloc_in_place, Slid
    <3>6. node'[0].allocated_bytes = node[0].allocated_bytes
      BY <3>1, <3>2, <3>4, <3>5 DEF Slid, insert_node
    <3> QED BY <1>0, <3>1, <3>6
  <2>4. CASE ptr # NULL /\ realloc_moves(ptr, size)
    <3> DEFINE old == associated_node(ptr)
    <3>1. g_pool # NULL /\ old # 0 /\ UNCHANGED g_pool /\ PoolOK
      BY <1>2, <1>4, <2>4 DEF realloc, realloc_moves
    <3>2. PICK n \in first_fit(node, size) :
            \/ node' = unlink_node(place_after(node, n, size), old)
            \/ node' = place_after(node, n, size)
      BY <2>4 DEF realloc_moves
    <3>3. node'[0].allocated_bytes = node[0].allocated_bytes
      BY <3>1, <3>2, PlaceSentinel, UnlinkSentinel
    <3> QED BY <1>0, <3>1, <3>3
  <2> QED BY <1>4, <2>1, <2>2, <2>3, <2>4 DEF realloc
<1>5. ASSUME NEW ptr \in Int \cup {NULL}, free_ext(ptr) PROVE SentinelOK'
  <2>1. CASE free_result(node, ptr) = OK
    <3>1. g_pool # NULL /\ UNCHANGED g_pool /\ node' = unlink_node(node, associated_node(ptr))
          /\ is_existing_memory_node(node, associated_node(ptr))
      BY <1>5, <2>1, FreedIsListed DEF free_ext, is_existing_memory_node
    <3> QED BY <1>0, <1>2, <3>1, UnlinkSentinel
  <2>2. CASE free_result(node, ptr) # OK
    BY <1>1, <1>5, <2>2 DEF free_ext
  <2> QED BY <2>1, <2>2
<1>6. ASSUME NEW ptr \in Int \cup {NULL}, free(ptr) PROVE SentinelOK'
  <2>1. free_ext(ptr) \/ UNCHANGED <<g_pool, node>>
    BY <1>6 DEF free
  <2> QED BY <1>1, <1>5, <2>1
<1>7. CASE UNCHANGED vars
  BY <1>1, <1>7 DEF vars
<1> QED BY <1>3, <1>4, <1>5, <1>6, <1>7, PoolSentinel, AddressesAreInt DEF Next

(* As many units on both sides of a correspondence.                        *)
LEMMA UnitsMatch ==
  ASSUME NEW S, NEW g, NEW bound \in Nat, Bounded(g, S, bound), NEW T,
         NEW f \in [Units(g, S) -> T],
         \A t, u \in Units(g, S) : f[t] = f[u] => t = u,
         \A v \in T : \E t \in Units(g, S) : f[t] = v
  PROVE  IsFiniteSet(T) /\ Cardinality(T) = Cardinality(Units(g, S))
<1> DEFINE U == Units(g, S)
<1>1. IsFiniteSet(U)
  BY UnitsOfElement
<1>2. f \in Bijection(U, T)
  BY DEF Bijection, Injection, Surjection, IsInjective
<1>3. ExistsBijection(U, T)
  BY <1>2 DEF ExistsBijection
<1> QED BY <1>1, <1>3, FS_Bijection

(* The headers are finitely many, and what they count is bounded.          *)
LEMMA HeadersCounted ==
  ASSUME IInv, g_pool # NULL
  PROVE  /\ g_pool.blocks \in Nat /\ NodeList(node) = Live
         /\ DOMAIN node \in SUBSET Nat /\ IsFiniteSet(Live)
         /\ Bounded([n \in Live |-> node[n].allocated_bytes], Live, SizeMod)
         /\ Bounded([n \in Live |-> count_needed_blocks(node[n].allocated_bytes)],
                    Live, g_pool.blocks)
         /\ \A n \in DOMAIN node : data_end(node, n) <= g_pool.blocks
         /\ \A m, n \in DOMAIN node : m < n => data_end(node, m) <= n
<1>1. /\ PoolOK /\ WellFormed(node, g_pool.blocks) /\ g_pool.blocks \in Nat
      /\ DOMAIN node \subseteq Nat
  BY DEF IInv, PoolOK, WellFormed
<1>2. NodeList(node) = Live
  BY <1>1, ListIsLive DEF Live
<1>3. ASSUME NEW n \in DOMAIN node
      PROVE  /\ data_end(node, n) \in Nat /\ n < data_end(node, n) /\ n \in Nat
             /\ data_end(node, n) <= g_pool.blocks
             /\ node[n].allocated_bytes \in Nat /\ node[n].allocated_bytes <= SizeMod
             /\ count_needed_blocks(node[n].allocated_bytes) \in Nat
             /\ count_needed_blocks(node[n].allocated_bytes) <= g_pool.blocks
  <2>1. data_end(node, n) \in Nat /\ n < data_end(node, n) /\ data_end(node, n) <= g_pool.blocks
    BY <1>1, EndInside DEF WellFormed, NextOK
  <2>2. node[n].allocated_bytes \in Sizes \cup {0}
    BY <1>1 DEF PoolOK
  <2>3. node[n].allocated_bytes \in Nat /\ node[n].allocated_bytes <= SizeMod
    <3>1. \A size \in Sizes \cup {0} : size \in Nat /\ size <= SizeMod
      BY MemoryAssumption
    <3> QED BY <2>2, <3>1, Zenon
  <2>4. count_needed_blocks(node[n].allocated_bytes) \in Nat
    BY <2>3, CountType
  <2>5. n \in Nat
    BY <1>1
  <2>6. count_needed_blocks(node[n].allocated_bytes) <= g_pool.blocks
    BY <1>1, <2>1, <2>4, <2>5 DEF data_end
  <2> QED BY <2>1, <2>3, <2>4, <2>5, <2>6
<1>4. \A m, n \in DOMAIN node : m < n => data_end(node, m) <= n
  <2> SUFFICES ASSUME NEW m \in DOMAIN node, NEW n \in DOMAIN node, m < n
               PROVE  data_end(node, m) <= n
    OBVIOUS
  <2>1. node[m].node_next # NULL /\ node[m].node_next <= n
    BY <1>1 DEF WellFormed, Adjacent
  <2>2. data_end(node, m) <= node[m].node_next /\ node[m].node_next \in Nat
    BY <1>1, <2>1, EndInside DEF WellFormed, NextOK
  <2> QED BY <1>3, <2>1, <2>2
<1>5. IsFiniteSet(Live)
  <2>1. Live \in SUBSET Nat /\ \A n \in Live : n <= g_pool.blocks
    BY <1>1, <1>3 DEF Live
  <2> QED BY <1>1, <2>1, FS_BoundedSetOfNaturals
<1>6. \A n \in Live : n \in DOMAIN node
  BY DEF Live
<1>7. Bounded([n \in Live |-> node[n].allocated_bytes], Live, SizeMod)
  BY <1>3, <1>5, <1>6 DEF Bounded
<1>8. Bounded([n \in Live |-> count_needed_blocks(node[n].allocated_bytes)], Live, g_pool.blocks)
  BY <1>3, <1>5, <1>6 DEF Bounded
<1> QED BY <1>1, <1>2, <1>3, <1>4, <1>5, <1>7, <1>8

(* get_allocated_bytes sums what the program asked for.                    *)
LEMMA BytesAreHeld ==
  ASSUME IInv, HeldLists, g_pool # NULL
  PROVE  /\ Cardinality(NodeList(node)) = Cardinality(DOMAIN held)
         /\ MapThenSumSet(LAMBDA n : node[n].allocated_bytes, NodeList(node))
              = MapThenSumSet(LAMBDA p : held[p], DOMAIN held)
<1> DEFINE g == [n \in Live |-> node[n].allocated_bytes]
           f == [t \in Units(g, Live) |-> <<data_begin(t[1]), t[2]>>]
           b == [n \in Live |-> data_begin(n)]
<1>1. /\ NodeList(node) = Live /\ Live \subseteq Nat /\ IsFiniteSet(Live)
      /\ Bounded(g, Live, SizeMod) /\ SizeMod \in Nat
  BY HeadersCounted, MemoryAssumption DEF Live
<1>2. /\ \A n \in Live : data_begin(n) \in DOMAIN held /\ held[data_begin(n)] = g[n]
      /\ \A p \in DOMAIN held : associated_node(p) \in Live /\ data_begin(associated_node(p)) = p
  BY <1>1 DEF HeldLists, Lists, Live, data_begin, associated_node
<1>3. b \in Bijection(Live, DOMAIN held)
  <2>1. b \in [Live -> DOMAIN held]
    BY <1>2
  <2>2. \A m, n \in Live : b[m] = b[n] => m = n
    BY <1>1 DEF data_begin
  <2>3. \A p \in DOMAIN held : \E n \in Live : b[n] = p
    BY <1>2
  <2> HIDE DEF b
  <2> QED BY <2>1, <2>2, <2>3 DEF Bijection, Injection, Surjection, IsInjective
<1>4. IsFiniteSet(DOMAIN held) /\ Cardinality(DOMAIN held) = Cardinality(Live)
  <2>1. ExistsBijection(Live, DOMAIN held)
    BY <1>3 DEF ExistsBijection
  <2> QED BY <1>1, <2>1, FS_Bijection
<1>5. Bounded(held, DOMAIN held, SizeMod)
  BY <1>4, MemoryAssumption DEF Bounded, HeldLists, Lists
<1>6. Cardinality(Units(held, DOMAIN held)) = Cardinality(Units(g, Live))
  <2>1. f \in [Units(g, Live) -> Units(held, DOMAIN held)]
    BY <1>2 DEF Units
  <2>2. ASSUME NEW t \in Units(g, Live), NEW u \in Units(g, Live), f[t] = f[u]
        PROVE  t = u
    <3>0. /\ t[1] \in Live /\ t = <<t[1], t[2]>>
          /\ u[1] \in Live /\ u = <<u[1], u[2]>>
      BY DEF Units
    <3>1. t[1] \in Nat /\ u[1] \in Nat
      BY <1>1, <3>0
    <3>2. /\ f[t][1] = data_begin(t[1]) /\ f[t][2] = t[2]
          /\ f[u][1] = data_begin(u[1]) /\ f[u][2] = u[2]
      OBVIOUS
    <3>3. data_begin(t[1]) = data_begin(u[1]) /\ t[2] = u[2]
      BY <2>2, <3>2, Zenon
    <3>4. t[1] = u[1]
      BY <3>1, <3>3 DEF data_begin

    <3> HIDE DEF f, g
    <3> QED BY <3>0, <3>3, <3>4
  <2>3. ASSUME NEW v \in Units(held, DOMAIN held) PROVE \E t \in Units(g, Live) : f[t] = v
    <3> DEFINE t == <<associated_node(v[1]), v[2]>>
    <3>1. t \in Units(g, Live)
      BY <1>2 DEF Units
    <3>2. f[t] = v
      BY <1>2, <3>1 DEF Units
    <3> QED BY <3>1, <3>2
  <2> HIDE DEF f, g
  <2> QED BY <1>1, <2>1, <2>2, <2>3, UnitsMatch
<1>7. MapThenSumSet(LAMBDA n : node[n].allocated_bytes, Live) = Cardinality(Units(g, Live))
  <2>1. \A n \in Live : g[n] = node[n].allocated_bytes
    OBVIOUS
  <2> HIDE DEF g
  <2> QED BY <1>1, <2>1, RecordedSum
<1>8. MapThenSumSet(LAMBDA p : held[p], DOMAIN held) = Cardinality(Units(held, DOMAIN held))
  BY <1>1, <1>5, HeldSum
<1> QED BY <1>1, <1>4, <1>6, <1>7, <1>8

(* The blocks that get_memory_allocated_blocks counts are those of the     *)
(* regions behind the sentinel.                                            *)
LEMMA BlocksAreRegions ==
  ASSUME IInv, g_pool # NULL
  PROVE  /\ IsFiniteSet(UNION {Span(n) : n \in Live})
         /\ Cardinality(UNION {Span(n) : n \in Live}) = get_memory_allocated_blocks
<1> DEFINE g == [n \in Live |-> count_needed_blocks(node[n].allocated_bytes)]
           T == UNION {Span(n) : n \in Live}
           f == [t \in Units(g, Live) |-> t[1] + t[2]]
<1>1. /\ NodeList(node) = Live /\ Live \subseteq Nat /\ g_pool.blocks \in Nat
      /\ Bounded(g, Live, g_pool.blocks)
      /\ \A m, n \in Live : m < n => data_end(node, m) <= n
  BY HeadersCounted DEF Live
<1>2. \A n \in Live : g[n] \in Nat /\ data_end(node, n) = n + g[n]
  BY <1>1 DEF Bounded, data_end
<1> HIDE DEF g
<1>3. ASSUME NEW n \in Live PROVE Span(n) = n .. n + g[n] - 1
  <2>1. data_end(node, n) - 1 = n + g[n] - 1
    BY <1>1, <1>2
  <2> QED BY <2>1 DEF Span
<1>4. \A m, n \in Live : m < n => m + g[m] <= n
  BY <1>1, <1>2
<1>5. f \in [Units(g, Live) -> T]
  <2>1. ASSUME NEW t \in Units(g, Live) PROVE t[1] + t[2] \in T
    <3>1. t[1] \in Live /\ t[2] \in Nat /\ t[2] < g[t[1]]
      BY DEF Units
    <3>2. t[1] \in Nat /\ g[t[1]] \in Nat /\ Span(t[1]) = t[1] .. t[1] + g[t[1]] - 1
      BY <1>1, <1>2, <1>3, <3>1
    <3>3. t[1] + t[2] \in t[1] .. t[1] + g[t[1]] - 1
      BY <3>1, <3>2
    <3> QED BY <3>1, <3>2, <3>3
  <2> QED BY <2>1
<1>6. \A t, u \in Units(g, Live) : f[t] = f[u] => t = u
  <2> SUFFICES ASSUME NEW t \in Units(g, Live), NEW u \in Units(g, Live), f[t] = f[u]
               PROVE  t = u
    OBVIOUS
  <2>1. /\ t[1] \in Live /\ t[2] \in Nat /\ t[2] < g[t[1]] /\ t = <<t[1], t[2]>>
        /\ u[1] \in Live /\ u[2] \in Nat /\ u[2] < g[u[1]] /\ u = <<u[1], u[2]>>
    BY DEF Units
  <2>2. t[1] + t[2] = u[1] + u[2]
    OBVIOUS
  <2>3. t[1] \in Nat /\ u[1] \in Nat /\ g[t[1]] \in Nat /\ g[u[1]] \in Nat
    BY <1>1, <1>2, <2>1
  <2>4. t[1] < u[1] => t[1] + g[t[1]] <= u[1]
    BY <1>4, <2>1
  <2>5. u[1] < t[1] => u[1] + g[u[1]] <= t[1]
    BY <1>4, <2>1
  <2>6. t[1] = u[1] /\ t[2] = u[2]
    BY <2>1, <2>2, <2>3, <2>4, <2>5
  <2> QED BY <2>1, <2>6
<1>7. ASSUME NEW v \in T PROVE \E t \in Units(g, Live) : f[t] = v
  <2>1. PICK n \in Live : v \in Span(n)
    OBVIOUS
  <2>2. n \in Nat /\ g[n] \in Nat /\ v \in n .. n + g[n] - 1
    BY <1>1, <1>2, <1>3, <2>1
  <2> DEFINE t == <<n, v - n>>
  <2>3. t \in Units(g, Live) /\ t[1] + t[2] = v
    BY <2>2 DEF Units
  <2> QED BY <2>3
<1>8. IsFiniteSet(T) /\ Cardinality(T) = Cardinality(Units(g, Live))
  <2> HIDE DEF T, f
  <2> QED BY <1>1, <1>5, <1>6, <1>7, UnitsMatch
<1>9. get_memory_allocated_blocks = Cardinality(Units(g, Live))
  <2>1. \A n \in Live : g[n] = count_needed_blocks(node[n].allocated_bytes)
    BY DEF g
  <2>2. MapThenSumSet(LAMBDA n : count_needed_blocks(node[n].allocated_bytes), Live)
          = Cardinality(Units(g, Live))
    BY <1>1, <2>1, NeededSum
  <2> QED BY <1>1, <2>2 DEF get_memory_allocated_blocks
<1> QED BY <1>8, <1>9

(* get_free_bytes is what no region covers, and does not wrap around.      *)
LEMMA FreeIsUncovered ==
  ASSUME IInv, SentinelOK, g_pool # NULL
  PROVE  get_free_bytes = Chunk * Cardinality(
           (0 .. g_pool.blocks - 1) \ UNION {Span(n) : n \in DOMAIN node})
<1> DEFINE pool == 0 .. g_pool.blocks - 1
           T == UNION {Span(n) : n \in Live}
           all == UNION {Span(n) : n \in DOMAIN node}
           uncovered == Cardinality(pool \ all)
<1>1. /\ g_pool.blocks \in Nat /\ 0 \in DOMAIN node /\ DOMAIN node \subseteq Nat
      /\ data_end(node, 0) = 1 /\ 1 <= g_pool.blocks
  <2>1. 0 \in DOMAIN node /\ WellFormed(node, g_pool.blocks)
    BY DEF IInv, PoolOK, WellFormed
  <2>2. data_end(node, 0) = 1
    BY SentinelCount DEF SentinelOK, data_end
  <2> QED BY <2>1, <2>2, HeadersCounted
<1>2. \A n \in DOMAIN node : data_end(node, n) \in Nat /\ data_end(node, n) <= g_pool.blocks
  <2>1. WellFormed(node, g_pool.blocks)
    BY DEF IInv, PoolOK
  <2> QED BY <1>1, <2>1, EndInside, HeadersCounted
<1>3. all = {0} \cup T
  <2>1. Span(0) = {0}
    BY <1>1 DEF Span
  <2>2. DOMAIN node = {0} \cup Live
    BY <1>1 DEF Live
  <2> QED BY <2>1, <2>2
<1>4. all \subseteq pool
  BY <1>1, <1>2 DEF Span
<1>5. 0 \notin T
  <2>1. \A n \in Live : n \in Nat /\ n # 0
    BY <1>1 DEF Live
  <2> QED BY <2>1 DEF Span
<1>6. IsFiniteSet(T) /\ Cardinality(T) = get_memory_allocated_blocks
  BY BlocksAreRegions
<1>7. Cardinality(T) \in Nat
  BY <1>6, FS_CardinalityType
<1>8. IsFiniteSet(pool) /\ Cardinality(pool) = g_pool.blocks
  <2> DEFINE k == g_pool.blocks
  <2>1. k \in Nat /\ 1 <= k /\ 0 \in Int /\ k - 1 \in Int
    BY <1>1
  <2> HIDE DEF k
  <2>2. /\ IsFiniteSet(0 .. k - 1)
        /\ Cardinality(0 .. k - 1) = IF 0 > k - 1 THEN 0 ELSE k - 1 - 0 + 1
    BY <2>1, FS_Interval, Zenon
  <2>3. Cardinality(0 .. k - 1) = k
    BY <2>1, <2>2
  <2> QED BY <2>2, <2>3 DEF k
<1> HIDE DEF pool, T, all
<1>9. IsFiniteSet(all) /\ Cardinality(all) = Cardinality(T) + 1
  <2>1. all = T \cup {0}
    BY <1>3
  <2>2. /\ IsFiniteSet(T \cup {0})
        /\ Cardinality(T \cup {0}) = IF 0 \in T THEN Cardinality(T) ELSE Cardinality(T) + 1
    BY <1>6, FS_AddElement, Zenon
  <2> QED BY <1>5, <2>1, <2>2, Zenon
<1>10. pool \cap all = all
  BY <1>4
<1>11. IsFiniteSet(pool \ all) /\ uncovered = g_pool.blocks - Cardinality(all)
  BY <1>8, <1>10, FS_Difference
<1>12. uncovered \in Nat
  BY <1>11, FS_CardinalityType
<1> HIDE DEF uncovered
<1>13. uncovered = g_pool.blocks - 1 - get_memory_allocated_blocks /\ uncovered <= g_pool.blocks
  BY <1>1, <1>6, <1>7, <1>9, <1>11
<1>14. Chunk * uncovered \in Nat /\ Chunk * uncovered < SizeMod /\ SizeMod \in Nat
  <2>1. Chunk * g_pool.blocks < SizeMod /\ Chunk \in Nat /\ SizeMod \in Nat
    BY MemoryAssumption DEF SentinelOK
  <2>2. Chunk * uncovered <= Chunk * g_pool.blocks
    BY <1>1, <1>12, <1>13, <2>1
  <2>3. Chunk * uncovered \in Nat /\ Chunk * g_pool.blocks \in Nat
    BY <1>1, <1>12, <2>1
  <2> QED BY <2>1, <2>2, <2>3
<1>15. get_free_bytes = (Chunk * uncovered) % SizeMod
  BY <1>13 DEF get_free_bytes
<1>16. (Chunk * uncovered) % SizeMod = Chunk * uncovered
  <2> DEFINE k == Chunk * uncovered
  <2>1. k \in Nat /\ k < SizeMod /\ SizeMod \in Nat
    BY <1>14
  <2> HIDE DEF k
  <2>2. k % SizeMod = k
    BY <2>1
  <2> QED BY <2>2 DEF k
<1> QED BY <1>15, <1>16 DEF uncovered, pool, all

(* After every mixture of calls the three counters agree with what the     *)
(* program holds, and the free bytes with what no region covers.           *)
THEOREM CountersAreExact ==
  ASSUME PoolsFit, SizesTakeRoom
  PROVE  Spec => []CountersExact
<1>1. Init => SentinelOK
  BY DEF Init, SentinelOK
<1>2. IInv /\ SentinelOK /\ [Next]_vars => SentinelOK'
  BY NextSentinel
<1>3. IInv /\ HeldLists /\ SentinelOK => CountersExact
  <2> SUFFICES ASSUME IInv, HeldLists, SentinelOK, g_pool # NULL
               PROVE  /\ get_allocations = Cardinality(DOMAIN held)
                      /\ get_allocated_bytes
                           = MapThenSumSet(LAMBDA p : held[p], DOMAIN held) % SizeMod
                      /\ get_free_bytes = Chunk * Cardinality(
                           (0 .. g_pool.blocks - 1) \ UNION {Span(n) : n \in DOMAIN node})
    BY DEF CountersExact
  <2>1. get_allocations = Cardinality(DOMAIN held)
    BY BytesAreHeld DEF get_allocations
  <2>2. get_allocated_bytes = MapThenSumSet(LAMBDA p : held[p], DOMAIN held) % SizeMod
    BY BytesAreHeld DEF get_allocated_bytes
  <2>3. get_free_bytes = Chunk * Cardinality(
          (0 .. g_pool.blocks - 1) \ UNION {Span(n) : n \in DOMAIN node})
    BY FreeIsUncovered
  <2> QED BY <2>1, <2>2, <2>3
<1> QED BY <1>1, <1>2, <1>3, HeldInvariance, PTL DEF Spec

=============================================================================
