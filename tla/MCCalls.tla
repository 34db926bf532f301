------------------------------ MODULE MCCalls ------------------------------
(* Small instances of Calls. *)
EXTENDS Calls

Symmetry == Permutations(SharedThreads) \cup Permutations(Coroutines)
=============================================================================
