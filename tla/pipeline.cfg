SPECIFICATION FairSpec
CONSTANTS
  Loads <- TwoLoads
  Files <- FourFiles
  Batch <- ThreeAndOne
  Size <- FourSizes
  MaxDownloads = 1
  MaxInFlight = 2
  Depth = 1
  MaxFaults = 1
  None = None
INVARIANTS PipelineInv BoundedMemory
PROPERTIES Implements EveryFileReported NothingLeaks
CHECK_DEADLOCK FALSE
