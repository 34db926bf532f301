SPECIFICATION FairSpec
CONSTANTS
  Objs = {a, b}
  HasFinalizer = {a, b}
  Root = Root
  None = None
CHECK_DEADLOCK FALSE
PROPERTY DestructionEnds
PROPERTY GarbageGoes
