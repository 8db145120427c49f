---------------------------- MODULE MCRegionWalk ----------------------------
(***************************************************************************)
(* RegionWalk for small address spaces, with one shape for every branch of *)
(* the classification in print_memory_info.                                *)
(***************************************************************************)
EXTENDS RegionWalk

MCShapes ==
  {[size |-> 1, mode |-> "SM_PRIVATE", refs |-> 1, private |-> 1, shared |-> 0],
   [size |-> 2, mode |-> "SM_PRIVATE", refs |-> 1, private |-> 1, shared |-> 0],
   [size |-> 2, mode |-> "SM_COW",     refs |-> 1, private |-> 1, shared |-> 1],
   [size |-> 2, mode |-> "SM_COW",     refs |-> 2, private |-> 1, shared |-> 2],
   [size |-> 2, mode |-> "SM_SHARED",  refs |-> 3, private |-> 0, shared |-> 2],
   [size |-> 1, mode |-> "SM_SHARED",  refs |-> 1, private |-> 0, shared |-> 1],
   [size |-> 1, mode |-> "SM_EMPTY",   refs |-> 1, private |-> 0, shared |-> 0]}
=============================================================================
