SPECIFICATION Spec
CONSTANTS
  p1 = p1  p2 = p2  p3 = p3  h1 = h1  h2 = h2  h3 = h3
  None = None
  Procs <- TwoProcs
  Handles <- TwoHandles
  Ops <- SharedOps
  Invalidation = TRUE
SYMMETRY Symmetry
INVARIANTS OneWriter
CHECK_DEADLOCK FALSE
