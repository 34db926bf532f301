---------------------------- MODULE MCFuncStash ----------------------------
(* Small instances of FuncStash. *)
EXTENDS FuncStash, TLC

\* JavaScript functions are interchangeable.
Symmetry == Permutations(Funcs \ GoFuncs)
=============================================================================
