-------------------------------- MODULE Heap --------------------------------
(***************************************************************************)
(* What include/cmagic/memory.h promises of malloc, realloc and free, said *)
(* without lists, headers or a placement policy: a heap is a set of live   *)
(* regions of an arena of bytes; a call changes at most the region it is   *)
(* about, and a new region overlaps no other.                              *)
(***************************************************************************)
EXTENDS Integers

CONSTANTS
  Sizes,   (* the sizes a program may request *)
  Chunk    (* bytes per unit of address       *)

VARIABLES
  arena,   (* number of bytes of the pool, 0 before one is set    *)
  live     (* the live regions: pointer -> size in bytes          *)

vars == <<arena, live>>

Bytes(ptr, size) == Chunk * ptr .. Chunk * ptr + size - 1

(* A region of size bytes at ptr is inside the arena and overlaps none of   *)
(* regions.  Pointers are distinct also of empty regions.                   *)
Fresh(regions, ptr, size) ==
  /\ ptr > 0 /\ Chunk * ptr + size <= arena
  /\ \A p \in DOMAIN regions :
       p # ptr /\ Bytes(p, regions[p]) \cap Bytes(ptr, size) = {}

Without(ptr) == [p \in DOMAIN live \ {ptr} |-> live[p]]

With(regions, ptr, size) ==
  [p \in DOMAIN regions \cup {ptr} |-> IF p = ptr THEN size ELSE regions[p]]

Init == arena = 0 /\ live = [p \in {} |-> 0]

(* memory.h:19-30. A pool replaces another one only when nothing is live. *)
SetArena ==
  /\ DOMAIN live = {}
  /\ arena' \in Nat
  /\ UNCHANGED live

(* memory.h:32-56. *)
Allocate(size) ==
  /\ \E ptr \in 1 .. arena \div Chunk :
       Fresh(live, ptr, size) /\ live' = With(live, ptr, size)
  /\ UNCHANGED arena

(* memory.h:58-76: the old region ends, and only it may be reused. *)
Resize(ptr, size) ==
  /\ \E new \in 1 .. arena \div Chunk :
       /\ Fresh(Without(ptr), new, size)
       /\ live' = With(Without(ptr), new, size)
  /\ UNCHANGED arena

(* memory.h:113-129. *)
Release(ptr) ==
  /\ live' = Without(ptr)
  /\ UNCHANGED arena

(* Failed calls are stuttering steps. *)
Next ==
  \/ SetArena
  \/ \E size \in Sizes : Allocate(size)
  \/ \E ptr \in DOMAIN live : Release(ptr) \/ \E size \in Sizes : Resize(ptr, size)

Spec == Init /\ [][Next]_vars
=============================================================================
