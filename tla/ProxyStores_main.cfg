\* Two contexts and their coroutines on two addresses, two proxies.
SPECIFICATION Spec
CONSTANTS
  Ctxs = {c1, c2}
  Addrs = {a1, a2}
  GlobalHeap = GlobalHeap
  Proxies = {p1, p2}
  NULL = NULL
SYMMETRY Symmetry
CHECK_DEADLOCK FALSE
INVARIANTS OwnProxyResolves IsolatedReclaims SharedKeeps CoroutinesReachNothing LeftStoresAreEmpty PanicNeedsFree
