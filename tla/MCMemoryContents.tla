-------------------------- MODULE MCMemoryContents --------------------------
(* Values of the constants of MemoryContents for TLC.  sizeof(chunk_t) is 4 *)
(* and its alignment 2, in the proportion 32 : 16 of a 64 bit build.        *)
EXTENDS MemoryContents

(* Nine blocks and half a block; five blocks; room for the sentinel only.  *)
PoolsOfAllShapes ==
  {[addr |-> 1, size |-> 39], [addr |-> 3, size |-> 21], [addr |-> 0, size |-> 6]}

AddressRange == -1 .. 11
=============================================================================
