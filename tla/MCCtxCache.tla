----------------------------- MODULE MCCtxCache -----------------------------
(* Small instances of CtxCache. *)
EXTENDS CtxCache, TLC

\* Writes 2 and 3 fall within one tick of the file system's clock.
Ticks == 1 :> 1 @@ 2 :> 2 @@ 3 :> 2 @@ 4 :> 3
=============================================================================
