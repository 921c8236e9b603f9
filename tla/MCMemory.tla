------------------------------ MODULE MCMemory ------------------------------
(* Values of the constants of Memory for TLC. sizeof(chunk_t) is 4 and its  *)
(* alignment 2, in the proportion 32 : 16 of a 64 bit build.                *)
EXTENDS Memory

(* Eight blocks. *)
OnePool == {[addr |-> 1, size |-> 33]}

AddressRange == -1 .. 11
=============================================================================
