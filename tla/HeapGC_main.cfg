SPECIFICATION Spec
CONSTANTS
  Objs = {a, b, c}
  HasFinalizer = {a, b}
  Root = Root
  None = None
SYMMETRY Symmetry
CHECK_DEADLOCK FALSE
INVARIANTS CountsExact NoDangling FinalizedOnce
PROPERTY ImplementsReclamation
