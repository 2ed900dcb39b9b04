SPECIFICATION Spec
CONSTANTS
  tick = tick  window = window  f1 = f1  f2 = f2  None = None
  Files <- OneFile
  Loaders <- BothLoaders
  Scheduler <- tick
  NChunks = 2
  MaxFaults = 1
INVARIANTS MarkedMeansComplete
