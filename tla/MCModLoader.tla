---------------------------- MODULE MCModLoader ----------------------------
(* Small instances of ModLoader. *)
EXTENDS ModLoader, TLC

\* The ids "a" and "a.js" name one file, "b" another.
AliasFiles == "a" :> "a.js" @@ "a.js" :> "a.js" @@ "b" :> "b.js"
=============================================================================
