SPECIFICATION Spec
CONSTANTS
  HeapThread = heap_thread
  SharedThreads = {c1, c2}
  Coroutines = {k1, k2}
  None = None
  CallRecursionLimit = 3
  CallstackLimit = 3
  MaxTries = 1
SYMMETRY Symmetry
INVARIANTS BooksBalance EntriesStand SwitchesAgree EscapesUnprotected
PROPERTY FinalizersRun
