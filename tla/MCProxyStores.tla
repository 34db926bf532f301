--------------------------- MODULE MCProxyStores ---------------------------
(* Small instances of ProxyStores. *)
EXTENDS ProxyStores, TLC

Symmetry == Permutations(Ctxs) \cup Permutations(Addrs) \cup Permutations(Proxies)
=============================================================================
