SPECIFICATION Spec
CONSTANTS
  f1 = f1  f2 = f2  NoTime = NoTime
  Files <- TwoFiles
  Contents <- SomeContents
  TimeKeys <- Keys
  EpochLimit = 20  EpochScale = 10
  ChunkLines = 3  Workers = 2
  MaxBatch = 3  MinBatch = 2  Micro = 8
  Fits = {1, 2, 9}
  Days = {0, 1, 3}
  Caps = {0, 20}
  Sizes = {10, 21, 30, 99}
  Start = 5  End = 6
INVARIANTS RetentionInv RowsOnce RowsKept CopyCopes CapPursued SpaceReturned
PROPERTIES TrimBounded Implements
SYMMETRY Symmetry
