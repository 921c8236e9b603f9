--------------------------- MODULE MemoryContents ---------------------------
(***************************************************************************)
(* The bytes of the pool, on top of Memory: what a program writes into the *)
(* blocks it holds, where the allocator writes its headers, and what the   *)
(* memmove and memcpy of cmagic_memory_realloc carry along.                *)
(*                                                                         *)
(* A program fills a block it is given: byte number i of the block at ptr  *)
(* holds <<ptr, i>>.  Every other byte is Indeterminate.                   *)
(***************************************************************************)
EXTENDS Memory

CONSTANT Indeterminate   (* the value of a byte no one may rely on *)

ASSUME ContentsAssumption == Indeterminate \notin Int \X Int

VARIABLE cell            (* the bytes of the pool: byte offset -> value *)

cvars == <<vars, cell>>

-----------------------------------------------------------------------------
bytes_of(ptr, from, to) == Chunk * ptr + from .. Chunk * ptr + to - 1

(* Writing the three fields of the chunk_t in block n. *)
write_header(c, n) ==
  [b \in DOMAIN c |-> IF b \div Chunk = n THEN Indeterminate ELSE c[b]]

(* memmove(dst, src, count); memcpy when the two do not overlap. *)
memmove(c, dst, src, count) ==
  [b \in DOMAIN c |->
     IF b \in bytes_of(dst, 0, count) THEN c[b + Chunk * (src - dst)] ELSE c[b]]

(* The program writes into its block. *)
fill(c, ptr, from, to) ==
  [b \in DOMAIN c |->
     IF b \in bytes_of(ptr, from, to) THEN <<ptr, b - Chunk * ptr>> ELSE c[b]]

(* The program calls the block at old by its new address. *)
rename(c, old, new) ==
  [b \in DOMAIN c |->
     IF c[b] # Indeterminate /\ c[b][1] = old THEN <<new, c[b][2]>> ELSE c[b]]

(* Nobody may rely on a byte that is in no held block. *)
settle(c, h) ==
  [b \in DOMAIN c |->
     IF \E p \in DOMAIN h : b \in bytes_of(p, 0, h[p]) THEN c[b] ELSE Indeterminate]

bytes_to_copy(ptr, size) ==
  LET old == node[associated_node(ptr)].allocated_bytes
  IN  IF size < old THEN size ELSE old

(* mutant: the data is taken from one block too low, the old header *)
Mut_moved(ptr, size, result) ==
  memmove(write_header(cell, associated_node(result)),
          result, ptr - 1, bytes_to_copy(ptr, size))

(* The bytes after the header of the new place was written and the data of *)
(* the old place carried over, in this order, both when the block slides   *)
(* down in place and when it moves to another hole.                        *)
moved(ptr, size, result) ==
  memmove(write_header(cell, associated_node(result)),
          result, ptr, bytes_to_copy(ptr, size))

-----------------------------------------------------------------------------
CInit == Init /\ cell = EmptyFn

CInitPool(p) ==
  /\ init(p)
  /\ cell' = IF g_pool' = NULL THEN EmptyFn
             ELSE [b \in 0 .. Chunk * g_pool'.blocks - 1 |-> Indeterminate]

(* The bytes after the program has filled the block it was given.          *)
obtained(ptr, size) ==
  IF ptr = NULL THEN cell
  ELSE fill(write_header(cell, associated_node(ptr)), ptr, 0, size)

CMalloc(size) ==
  /\ malloc(size)
  /\ cell' = obtained(last'.ret, size)

(* The program also fills the part realloc added.                          *)
CRealloc(ptr, size) ==
  /\ realloc(ptr, size)
  /\ LET new == last'.ret
     IN  cell' = CASE ptr = NULL -> obtained(new, size)
                   [] ptr # NULL /\ new = NULL -> cell
                   [] ptr # NULL /\ new # NULL ->
                        settle(fill(rename(moved(ptr, size, new), ptr, new),
                                    new, bytes_to_copy(ptr, size), size), held')

CFree(ptr) ==
  /\ free_ext(ptr) \/ free(ptr)
  /\ cell' = settle(cell, held')

(* The calls of Memory's Next, with what they do to the bytes.             *)
CNext ==
  \/ \E p \in Pools : CInitPool(p)
  \/ \E size \in Sizes : CMalloc(size)
  \/ \E ptr \in Addresses \cup {NULL}, size \in Sizes : CRealloc(ptr, size)
  \/ \E ptr \in Addresses \cup {NULL} : CFree(ptr)

CSpec == CInit /\ [][CNext]_cvars

-----------------------------------------------------------------------------
(* memory.h:61-63, 72-73: the content of a block survives every call, up   *)
(* to the lesser of the sizes it had: no header, no other block's data and *)
(* no move ever damages a byte its owner wrote, and a failed realloc       *)
(* leaves the block unmodified.                                            *)
ContentsKept ==
  \A ptr \in DOMAIN held :
    \A i \in 0 .. held[ptr] - 1 : cell[Chunk * ptr + i] = <<ptr, i>>
=============================================================================
