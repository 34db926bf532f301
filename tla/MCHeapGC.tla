------------------------------ MODULE MCHeapGC ------------------------------
(* Small instances of HeapGC. *)
EXTENDS HeapGC, TLC

Symmetry == Permutations(HasFinalizer)
=============================================================================
