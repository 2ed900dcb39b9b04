SPECIFICATION Spec
CONSTANTS
  w1 = w1  w2 = w2  l1 = l1  l2 = l2  None = None
  Wiretap <- TwoWiretaps
  Load <- OneLoad
  MaxChanges = 1
  MaxFaults = 2
INVARIANTS DiskInv SplitComplete
PROPERTIES Implements StartsAgain
CHECK_DEADLOCK FALSE
