SPECIFICATION FairSpec
CONSTANTS
  p1 = p1  p2 = p2  p3 = p3  h1 = h1  h2 = h2  h3 = h3
  None = None
  Procs <- TwoProcs
  Handles <- TwoHandles
  Ops <- MostOps
  Invalidation = TRUE
INVARIANTS LockDiscipline ExclusiveAlone
PROPERTIES EveryOpEnds
CHECK_DEADLOCK FALSE
