SPECIFICATION Spec
CONSTANTS
  w1 = w1  w2 = w2  r1 = r1  r2 = r2  r3 = r3  r4 = r4  None = None
  Wiretap <- TwoWiretaps
  Row <- FourRows
  TimeOf <- Times
  Filters <- SomeFilters
  PageSize = 1
  MaxCalls = 2
  MaxChanges = 2
INVARIANTS ViewInv PagesRight EndMeansAll OwnRows
PROPERTY LoadingEnds
CHECK_DEADLOCK FALSE
