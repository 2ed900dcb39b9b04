SPECIFICATION Spec
CONSTANTS
  p1 = p1  p2 = p2  p3 = p3  None = None
  Procs <- TwoProcs
  FieldLists <- SomeFields
  MaxFails = 1
  MaxStops = 0
SYMMETRY Symmetry
INVARIANTS FieldsAgree
