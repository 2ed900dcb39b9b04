SPECIFICATION FairSpec
CONSTANTS
  tick = tick  window = window  f1 = f1  f2 = f2  None = None
  Files <- TwoFiles
  Loaders <- BothLoaders
  Scheduler <- tick
  NChunks = 2
  MaxFaults = 2
INVARIANTS IngestInv NoDuplicateRows
PROPERTIES EventuallyLoaded Implements
CHECK_DEADLOCK FALSE
