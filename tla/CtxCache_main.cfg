\* Two callers against four writes, two of which share their time, and a
\* version that does not evaluate; no symmetry under a liveness property.
SPECIFICATION FairSpec
CONSTANTS
  Callers = {g1, g2}
  MaxVersion = 4
  Broken = {3}
  Mtime <- Ticks
  NULL = NULL
INVARIANTS NeverAhead
PROPERTY Regular
PROPERTY NoStepBack
PROPERTY CallsReturn
