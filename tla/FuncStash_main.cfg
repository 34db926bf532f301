\* Two JavaScript functions and the proxy of a Go function, whose id can be
\* an index.
SPECIFICATION Spec
CONSTANTS
  Funcs = {f1, f2, g}
  GoFuncs = {g}
  Width = 3
  NULL = NULL
SYMMETRY Symmetry
INVARIANTS CallsOwner LostNeedsSharer OneIndex ExportedStays
