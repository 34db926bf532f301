\* Three targets for three pointers, so that a search passes over taken ids,
\* and more ids than pointers: everything that needs room for all pointers,
\* and that a search ends (so no symmetry).
SPECIFICATION FairSpec
CONSTANTS
  Targets = {t1, t2, t3}
  Objects = {o1, o2, o3}
  MaxId = 4
  NULL = NULL
INVARIANTS IdsDense HandleResolves CountExact
PROPERTY LowestIdFirst
PROPERTY SearchEnds
PROPERTY ImplementsHandles
