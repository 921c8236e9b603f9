------------------------------- MODULE Memory -------------------------------
(***************************************************************************)
(* The static-pool allocator of src/src/memory.c.                          *)
(*                                                                         *)
(* The pool is an array of blocks of sizeof(chunk_t) bytes.  A block is    *)
(* either a special node (a list header) or raw data.  Block 0 is the      *)
(* sentinel node g_pool_begin[0]; the data of a node directly follows it.  *)
(*                                                                         *)
(* An address is the index of a block relative to g_pool_begin: every      *)
(* pointer the allocator hands out or compares is block aligned.  What a   *)
(* caller may pass is in Addresses, below and beyond the pool included.    *)
(***************************************************************************)
EXTENDS Integers, FiniteSets, FiniteSetsExt

CONSTANTS
  Chunk,      (* sizeof(chunk_t)                                           *)
  Align,      (* _Alignof(chunk_t); may be smaller than sizeof(chunk_t)    *)
  SizeMod,    (* 2^w for the w bits of size_t and uintptr_t                *)
  Pools,      (* the arrays a program may pass to cmagic_memory_init       *)
  Sizes,      (* the sizes a program may request                           *)
  Addresses,  (* the non-null pointers a program may pass                  *)
  Debug,      (* TRUE when assert() is compiled in                         *)
  MaxInits,   (* bound on the calls of cmagic_memory_init                  *)
  NULL

ASSUME MemoryAssumption ==
  /\ Chunk \in Nat \ {0} /\ Align \in Nat \ {0} /\ SizeMod \in Nat \ {0}
  /\ Pools \subseteq [addr : Nat, size : Nat]
  /\ \A p \in Pools : p.addr + p.size < SizeMod
  /\ Sizes \subseteq 0 .. SizeMod - 1
  /\ Addresses \subseteq Int
  /\ Debug \in BOOLEAN
  /\ MaxInits \in Nat
  /\ NULL \notin Int /\ NULL \notin [blocks : Int, tail : BOOLEAN]

VARIABLES
  g_pool,     (* NULL, or the extent g_pool_begin .. g_pool_end            *)
  node,       (* the headers in the pool: block index -> chunk_t           *)
  held,       (* the blocks the program owns: pointer -> requested size    *)
  last,       (* the last call and what it returned                        *)
  inits       (* number of calls of cmagic_memory_init                     *)

vars == <<g_pool, node, held, last, inits>>

-----------------------------------------------------------------------------
(* utils.c and the macros of utils.h, in size_t arithmetic. *)

align_address_up(addr, alignment) == (addr \div alignment + 1) * alignment

(* mutant: rounds down *)
Mut_DIV_CEIL(dividend, divisor) == dividend \div divisor

align_address_down(addr, alignment) == (addr \div alignment) * alignment

DIV_CEIL(dividend, divisor) == ((dividend + divisor - 1) % SizeMod) \div divisor

-----------------------------------------------------------------------------
(* The static helpers of memory.c.  h is the contents of the headers.      *)

count_needed_blocks(bytes) == 1 + DIV_CEIL(bytes, Chunk)

data_begin(n) == n + 1

data_end(h, n) == n + count_needed_blocks(h[n].allocated_bytes)

node_list_head(h) == h[0].node_next

associated_node(ptr) == ptr - 1

(* The difference of two pointers, cast to size_t. *)
blocks_between(from, to) == (to - from) % SizeMod

free_space_end(h, n) ==
  IF h[n].node_next = NULL THEN g_pool.blocks ELSE h[n].node_next

(* mutant: forgets the block of the header *)
Mut_available_free_space(h, n, bytes) ==
  DIV_CEIL(bytes, Chunk) <= blocks_between(data_end(h, n), free_space_end(h, n))

(* mutant: a hole of exactly the needed size is not used *)
Mut_available_strictly(h, n, bytes) ==
  count_needed_blocks(bytes) < blocks_between(data_end(h, n), free_space_end(h, n))

available_free_space_after_node(h, n, bytes) ==
  count_needed_blocks(bytes) <= blocks_between(data_end(h, n), free_space_end(h, n))

(* The nodes a loop over node_next visits from node n on: the least set    *)
(* that holds n and is closed under node_next.                             *)
Closed(h, S) == \A m \in S : h[m].node_next # NULL => h[m].node_next \in S

ListFrom(h, n) ==
  {m \in DOMAIN h :
     \A S \in SUBSET DOMAIN h : n \in S /\ Closed(h, S) => m \in S}

NodeList(h) ==
  IF node_list_head(h) = NULL THEN {} ELSE ListFrom(h, node_list_head(h))

is_existing_memory_node(h, n) == n \in NodeList(h)

(* mutant: next_node->node_prev is not updated *)
Mut_insert_node(h, new, bytes, prev, next) ==
  [n \in DOMAIN h \cup {new} |->
     IF n = new
     THEN [node_next |-> next, node_prev |-> prev, allocated_bytes |-> bytes]
     ELSE [h[n] EXCEPT !.node_next = IF n = prev THEN new ELSE @]]

(* mutant: records the capacity instead of the requested size *)
Mut_insert_rounded(h, new, bytes, prev, next) ==
  [n \in DOMAIN h \cup {new} |->
     IF n = new
     THEN [node_next |-> next, node_prev |-> prev,
           allocated_bytes |-> Chunk * DIV_CEIL(bytes, Chunk)]
     ELSE [node_next |-> IF n = prev THEN new ELSE h[n].node_next,
           node_prev |-> IF n = next THEN new ELSE h[n].node_prev,
           allocated_bytes |-> h[n].allocated_bytes]]

insert_node(h, new, bytes, prev, next) ==
  [n \in DOMAIN h \cup {new} |->
     IF n = new
     THEN [node_next |-> next, node_prev |-> prev, allocated_bytes |-> bytes]
     ELSE [node_next |-> IF n = prev THEN new ELSE h[n].node_next,
           node_prev |-> IF n = next THEN new ELSE h[n].node_prev,
           allocated_bytes |-> h[n].allocated_bytes]]

(* The unlinking at the end of cmagic_memory_free_ext.  A header that is   *)
(* in the list no longer is raw memory.                                    *)
unlink_node(h, old) ==
  [n \in DOMAIN h \ {old} |->
     [node_next |-> IF n = h[old].node_prev THEN h[old].node_next ELSE h[n].node_next,
      node_prev |-> IF n = h[old].node_next THEN h[old].node_prev ELSE h[n].node_prev,
      allocated_bytes |-> h[n].allocated_bytes]]

(* The nodes after which the loop of cmagic_memory_malloc places a block:  *)
(* the first one of the list, sentinel included, that has room behind it.  *)
first_fit(h, bytes) ==
  LET fits == {n \in ListFrom(h, 0) : available_free_space_after_node(h, n, bytes)}
  IN  {n \in fits : \A m \in fits : n \in ListFrom(h, m) => m = n}

place_after(h, n, bytes) ==
  insert_node(h, data_end(h, n), bytes, n, h[n].node_next)

-----------------------------------------------------------------------------
(* Results. *)

OK                    == "OK"
OK_NULLPTR            == "OK_NULLPTR"
ERR_NOT_ALLOCATED     == "ERR_NOT_ALLOCATED_BEFORE"
ERR_ADDRESS_OUTSIDE   == "ERR_ADDRESS_OUTSIDE_MEMORY_POOL"
ERR_UNINITIALIZED     == "ERR_UNINITIALIZED"
CRASH                 == "CRASH"  (* g_pool_begin[0] read through a null pointer *)
ABORT                 == "ABORT"  (* the assertion of cmagic_memory_free fails   *)

FreeResults ==
  {OK, OK_NULLPTR, ERR_NOT_ALLOCATED, ERR_ADDRESS_OUTSIDE, ERR_UNINITIALIZED}

Return(op, ptr, size, ret, code) ==
  last' = [op |-> op, ptr |-> ptr, size |-> size, ret |-> ret, code |-> code]

(* A program that crashed or aborted makes no further call. *)
Running == last.code \notin {CRASH, ABORT}

Hold(h, ptr, size) ==
  [p \in DOMAIN h \cup {ptr} |-> IF p = ptr THEN size ELSE h[p]]

Drop(h, ptr) == [p \in DOMAIN h \ {ptr} |-> h[p]]

-----------------------------------------------------------------------------
(* mutant: the last block of the pool is taken to be outside of it *)
Mut_below_pool_end(ptr) == ptr < g_pool.blocks - 1

(* ptr < g_pool_end.  When the pool does not end on a block boundary, the  *)
(* pointer just behind its last whole block still is below g_pool_end.     *)
below_pool_end(ptr) ==
  ptr < g_pool.blocks \/ (ptr = g_pool.blocks /\ g_pool.tail)

below_list_head(h, ptr) == node_list_head(h) # NULL /\ ptr < node_list_head(h)

(* What cmagic_memory_free_ext returns when the headers are h. *)
free_result(h, ptr) ==
  CASE g_pool = NULL -> ERR_UNINITIALIZED
    [] g_pool # NULL /\ ptr = NULL -> OK_NULLPTR
    [] g_pool # NULL /\ ptr # NULL ->
         IF below_list_head(h, ptr) \/ ~below_pool_end(ptr)
         THEN ERR_ADDRESS_OUTSIDE
         ELSE IF is_existing_memory_node(h, associated_node(ptr))
              THEN OK ELSE ERR_NOT_ALLOCATED

is_allocated(ptr) ==
  CASE g_pool = NULL -> CRASH
    [] g_pool # NULL ->
         IF /\ ptr # NULL
            /\ ~below_list_head(node, ptr) /\ below_pool_end(ptr)
            /\ is_existing_memory_node(node, associated_node(ptr))
         THEN "true" ELSE "false"

get_allocated_bytes ==
  IF g_pool = NULL THEN 0
  ELSE MapThenSumSet(LAMBDA n : node[n].allocated_bytes, NodeList(node)) % SizeMod

(* mutant: the sum leaves out the blocks of the headers *)
Mut_allocated_blocks ==
  MapThenSumSet(LAMBDA n : DIV_CEIL(node[n].allocated_bytes, Chunk), NodeList(node))

get_memory_allocated_blocks ==
  MapThenSumSet(LAMBDA n : count_needed_blocks(node[n].allocated_bytes), NodeList(node))

get_free_bytes ==
  IF g_pool = NULL THEN 0
  ELSE (Chunk * (g_pool.blocks - 1 - get_memory_allocated_blocks)) % SizeMod

get_allocations == IF g_pool = NULL THEN 0 ELSE Cardinality(NodeList(node))

-----------------------------------------------------------------------------
EmptyFn == [x \in {} |-> NULL]

(* No pool has been set: the globals are zero. *)
Init ==
  /\ g_pool = NULL
  /\ node = EmptyFn
  /\ held = EmptyFn
  /\ last = [op |-> "none", ptr |-> NULL, size |-> 0, ret |-> NULL, code |-> OK]
  /\ inits = 0

(* The distance in bytes between the aligned ends of an array. *)
aligned_extent(p) ==
  align_address_down(p.addr + p.size, Align) - align_address_up(p.addr, Align)

(* The test pool_end_aligned - pool_begin_aligned > 0 subtracts pointers   *)
(* that need not be a whole number of blocks apart.  That is undefined:    *)
(* the compiler may divide, or compare the addresses (gcc does the latter).*)
accepted(bytes) == IF bytes \in 1 .. Chunk - 1 THEN BOOLEAN ELSE {bytes > 0}

init(p) ==
  /\ Running
  /\ held = EmptyFn       (* no block of an earlier pool is in use *)
  /\ inits < MaxInits
  /\ inits' = inits + 1
  /\ \E ok \in accepted(aligned_extent(p)) :
       IF ok
       THEN /\ g_pool' = [blocks |-> aligned_extent(p) \div Chunk,
                          tail   |-> aligned_extent(p) % Chunk # 0]
            /\ node' = [n \in {0} |-> [node_next |-> NULL, node_prev |-> NULL,
                                       allocated_bytes |-> 0]]
       ELSE g_pool' = NULL /\ node' = EmptyFn
  /\ Return("init", NULL, p.size, NULL, OK)
  /\ UNCHANGED held

malloc_fails(size) ==
  /\ g_pool = NULL \/ first_fit(node, size) = {}
  /\ Return("malloc", NULL, size, NULL, OK)
  /\ UNCHANGED <<node, held>>

malloc_succeeds(size) ==
  /\ g_pool # NULL
  /\ \E n \in first_fit(node, size) :
       LET ptr == data_begin(data_end(node, n))
       IN  /\ node' = place_after(node, n, size)
           /\ held' = Hold(held, ptr, size)
           /\ Return("malloc", NULL, size, ptr, OK)

malloc(size) ==
  /\ Running
  /\ malloc_fails(size) \/ malloc_succeeds(size)
  /\ UNCHANGED <<g_pool, inits>>

(* realloc of a pointer that is no block of the list. *)
realloc_unknown(ptr, size) ==
  /\ IF g_pool = NULL
     THEN Return("realloc", ptr, size, NULL, CRASH)
     ELSE /\ ~is_existing_memory_node(node, associated_node(ptr))
          /\ Return("realloc", ptr, size, NULL, OK)
  /\ UNCHANGED <<node, held>>

(* mutant: only looks at the space behind the old header *)
Mut_fits_in_place(n, size) ==
  count_needed_blocks(size) <= blocks_between(n, free_space_end(node, n))

(* The space between the previous block and the next one, old block        *)
(* included, is big enough: the block slides down to the beginning of it.  *)
fits_in_place(n, size) ==
  count_needed_blocks(size)
    <= blocks_between(data_end(node, node[n].node_prev), free_space_end(node, n))

realloc_in_place(ptr, size) ==
  /\ g_pool # NULL
  /\ is_existing_memory_node(node, associated_node(ptr))
  /\ LET old == associated_node(ptr)
         new == data_end(node, node[old].node_prev)
         h   == insert_node(node, new, size, node[old].node_prev, node[old].node_next)
     IN  /\ fits_in_place(old, size)
         /\ node' = [n \in (DOMAIN node \ {old}) \cup {new} |-> h[n]]
         /\ held' = Hold(Drop(held, ptr), data_begin(new), size)
         /\ Return("realloc", ptr, size, data_begin(new), OK)

(* mutant: the old block is not freed *)
Mut_realloc_moves(ptr, size) ==
  /\ g_pool # NULL
  /\ is_existing_memory_node(node, associated_node(ptr))
  /\ ~fits_in_place(associated_node(ptr), size)
  /\ \E n \in first_fit(node, size) :
       LET result == data_begin(data_end(node, n))
       IN  /\ node' = place_after(node, n, size)
           /\ held' = Hold(Drop(held, ptr), result, size)
           /\ Return("realloc", ptr, size, result, OK)

(* malloc, memcpy, then cmagic_memory_free of the old block. *)
realloc_moves(ptr, size) ==
  /\ g_pool # NULL
  /\ is_existing_memory_node(node, associated_node(ptr))
  /\ ~fits_in_place(associated_node(ptr), size)
  /\ \E n \in first_fit(node, size) :
       LET h      == place_after(node, n, size)
           result == data_begin(data_end(node, n))
       IN  IF free_result(h, ptr) = OK
           THEN /\ node' = unlink_node(h, associated_node(ptr))
                /\ held' = Hold(Drop(held, ptr), result, size)
                /\ Return("realloc", ptr, size, result, OK)
           ELSE /\ node' = h
                /\ held' = Hold(Drop(held, ptr), result, size)
                /\ Return("realloc", ptr, size, result, IF Debug THEN ABORT ELSE OK)

realloc_fails(ptr, size) ==
  /\ g_pool # NULL
  /\ is_existing_memory_node(node, associated_node(ptr))
  /\ ~fits_in_place(associated_node(ptr), size)
  /\ first_fit(node, size) = {}
  /\ Return("realloc", ptr, size, NULL, OK)
  /\ UNCHANGED <<node, held>>

realloc(ptr, size) ==
  IF ptr = NULL THEN malloc(size)
  ELSE /\ Running
       /\ \/ realloc_unknown(ptr, size)
          \/ realloc_in_place(ptr, size)
          \/ realloc_moves(ptr, size)
          \/ realloc_fails(ptr, size)
       /\ UNCHANGED <<g_pool, inits>>

free_ext(ptr) ==
  /\ Running
  /\ Return("free", ptr, 0, NULL, free_result(node, ptr))
  /\ IF free_result(node, ptr) = OK
     THEN /\ node' = unlink_node(node, associated_node(ptr))
          /\ held' = Drop(held, ptr)
     ELSE UNCHANGED <<node, held>>
  /\ UNCHANGED <<g_pool, inits>>

(* cmagic_memory_free differs only by its assertion. *)
free(ptr) ==
  IF free_result(node, ptr) \in {OK, OK_NULLPTR} \/ ~Debug
  THEN free_ext(ptr)
  ELSE /\ Running
       /\ Return("free", ptr, 0, NULL, ABORT)
       /\ UNCHANGED <<g_pool, node, held, inits>>

Next ==
  \/ \E p \in Pools : init(p)
  \/ \E size \in Sizes : malloc(size)
  \/ \E ptr \in Addresses \cup {NULL}, size \in Sizes : realloc(ptr, size)
  \/ \E ptr \in Addresses \cup {NULL} : free_ext(ptr) \/ free(ptr)

Spec == Init /\ [][Next]_vars

-----------------------------------------------------------------------------
(* Properties. *)

Live == DOMAIN node \ {0}

Span(n) == n .. data_end(node, n) - 1

ChunkType ==
  [node_next : Int \cup {NULL}, node_prev : Int \cup {NULL}, allocated_bytes : Sizes \cup {0}]

(* Types of the variables: the headers are records over block indexes and  *)
(* exist exactly while a pool is set.                                      *)
TypeOK ==
  /\ g_pool = NULL \/ g_pool \in [blocks : Int, tail : BOOLEAN]
  /\ DOMAIN node \subseteq Int
  /\ node \in [DOMAIN node -> ChunkType]
  /\ DOMAIN held \subseteq Int
  /\ held \in [DOMAIN held -> Sizes]
  /\ g_pool = NULL <=> node = EmptyFn
  /\ inits \in 0 .. MaxInits

(* What every caller relies on: a node with its data lies inside the pool, *)
(* and no two of them (the sentinel included) share a block, whatever      *)
(* sequence of malloc, realloc and free led here.                          *)
RegionsDisjoint ==
  g_pool # NULL =>
    \A n \in DOMAIN node :
      /\ 0 <= n /\ data_end(node, n) <= g_pool.blocks
      /\ \A m \in DOMAIN node \ {n} : Span(m) \cap Span(n) = {}

(* The loops over node_next visit every header, in address order (so they  *)
(* end), and node_prev is the way back: unlinking a node needs both.       *)
ListIsComplete ==
  g_pool # NULL =>
    /\ NodeList(node) = Live
    /\ \A n \in DOMAIN node : node[n].node_next # NULL => node[n].node_next > n
    /\ \A n \in Live : node[node[n].node_prev].node_next = n

(* The list is what the program owns: no block leaks out of the list while *)
(* a program holds it and no block stays listed after its release.         *)
HeldIsListed ==
  /\ DOMAIN held = {data_begin(n) : n \in Live}
  /\ \A ptr \in DOMAIN held : held[ptr] = node[associated_node(ptr)].allocated_bytes

(* malloc and realloc return room for the bytes that were asked for        *)
(* (memory.h:50-53).                                                       *)
CapacityCovers ==
  \A ptr \in DOMAIN held :
    held[ptr] <= Chunk * (data_end(node, associated_node(ptr)) - ptr)

(* cmagic_memory_is_allocated is TRUE of the blocks the program holds and  *)
(* of no other pointer (memory.h:132-136).                                 *)
IsAllocatedExact ==
  g_pool # NULL =>
    \A ptr \in Addresses : is_allocated(ptr) = "true" <=> ptr \in DOMAIN held

(* The three counters agree with what the program holds: the free bytes    *)
(* are those of the blocks no node covers (and never wrap below zero).     *)
CountersExact ==
  g_pool # NULL =>
    /\ get_allocations = Cardinality(DOMAIN held)
    /\ get_allocated_bytes = MapThenSumSet(LAMBDA p : held[p], DOMAIN held) % SizeMod
    /\ get_free_bytes = Chunk * Cardinality(
         (0 .. g_pool.blocks - 1) \ UNION {Span(n) : n \in DOMAIN node})

-----------------------------------------------------------------------------
(* Action properties.                                                      *)

(* The block indexes at which a region of count blocks is free when the    *)
(* nodes in ignored are taken away.                                        *)
Holes(count, ignored) ==
  {base \in 1 .. g_pool.blocks - count :
     \A n \in DOMAIN node \ ignored : base .. base + count - 1 \cap Span(n) = {}}

(* malloc returns NULL only when no hole is big enough, and otherwise the  *)
(* lowest hole: earlier frees never leave room the list walk cannot see.   *)
MallocTakesLowestHole ==
  [][last'.op = "malloc" /\ g_pool # NULL =>
       LET holes == Holes(count_needed_blocks(last'.size), {})
       IN  last'.ret = IF holes = {} THEN NULL ELSE data_begin(Min(holes))]_vars

(* realloc of a held block gives up only if not even the release of that   *)
(* block would leave a big enough hole; a shrink therefore never fails.    *)
ReallocFindsRoom ==
  [][last'.op = "realloc" /\ last'.ptr \in DOMAIN held /\ last'.ret = NULL =>
       Holes(count_needed_blocks(last'.size), {associated_node(last'.ptr)}) = {}]_vars

(* free reports OK exactly for a block the program holds: stale pointers,  *)
(* interior pointers and double frees are all refused, and change nothing. *)
FreeAcceptsExactlyHeld ==
  [][last'.op = "free" /\ g_pool # NULL =>
       /\ last'.code = OK <=> last'.ptr \in DOMAIN held
       /\ last'.code # OK => UNCHANGED node]_vars

(* A program that only passes blocks it holds never trips the assertion of *)
(* cmagic_memory_free, be it called directly or from inside realloc.       *)
NoAssertionOnHeld ==
  [][last'.ptr \in DOMAIN held => last'.code # ABORT]_vars

-----------------------------------------------------------------------------
(* Refinement.                                                             *)

(* The regions and the arena of the abstract heap, read from the headers.  *)
HeapLive == [ptr \in {data_begin(n) : n \in Live} |-> node[associated_node(ptr)].allocated_bytes]

HeapArena == IF g_pool = NULL THEN 0 ELSE Chunk * g_pool.blocks

H == INSTANCE Heap WITH arena <- HeapArena, live <- HeapLive

(* The linked list of headers implements the abstract heap of memory.h:    *)
(* each call allocates, resizes or releases one region and touches no      *)
(* other, or leaves the heap as it is.                                     *)
ImplementsHeap == H!Spec

=============================================================================
