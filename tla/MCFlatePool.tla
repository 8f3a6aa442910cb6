---------------------------- MODULE MCFlatePool ----------------------------
(* Bounded instances of FlatePool.  Nothing tells goroutines, handles,     *)
(* objects or levels apart.                                                *)
EXTENDS FlatePool, TLC

Symmetry == Permutations(Procs) \cup Permutations(Handles)
              \cup Permutations(Objects)
=============================================================================
