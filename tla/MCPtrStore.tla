----------------------------- MODULE MCPtrStore -----------------------------
(* A small instance of PtrStore; PtrStore_dense.cfg gives the constants. *)
EXTENDS PtrStore, TLC
=============================================================================
