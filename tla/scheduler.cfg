SPECIFICATION FairSpec
CONSTANTS
  w1 = w1  w2 = w2
  None = None
  Wiretap <- TwoWiretaps
  Settings <- SomeSettings
  RetryAfter = 2
  MaxGap = 2
  MaxChanges = 2
  MaxFaults = 1
INVARIANTS SchedulerInv
PROPERTIES Spaced EveryoneServed
CHECK_DEADLOCK FALSE
