----------------------------- MODULE MCCtxLocks -----------------------------
(* Small instances of CtxLocks. *)
EXTENDS CtxLocks
=============================================================================
