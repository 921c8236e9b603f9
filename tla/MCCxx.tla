--------------------------------- MODULE MCCxx ---------------------------------
(* Values of the constants of CxxContainers for TLC.                        *)
EXTENDS CxxContainers

(* Objects, addresses of containers and values are interchangeable.  All    *)
(* properties of the run are safety properties.                             *)
Interchangeable ==
  Permutations(Objects) \cup Permutations(Handles) \cup Permutations(Values)
=============================================================================
