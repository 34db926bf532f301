\* Two goroutines, a context and one more that a load makes, calls nested
\* three deep; no symmetry under a liveness property.
SPECIFICATION FairSpec
CONSTANTS
  Threads = {t1, t2}
  MaxCtx = 2
  Existing = {1}
  MaxDepth = 3
  NULL = NULL
CHECK_DEADLOCK FALSE
INVARIANTS EngineExclusive AscendingIsSafe DeadlockNeedsCallback
PROPERTY CallsReturn
