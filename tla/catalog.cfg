SPECIFICATION Spec
CONSTANTS
  p1 = p1  p2 = p2  p3 = p3  None = None
  Procs <- ThreeProcs
  FieldLists <- SomeFields
  MaxFails = 1
  MaxStops = 1
SYMMETRY Symmetry
INVARIANTS CatalogInv FieldsHaveColumns RowHasFileUncrossed ValuesInPlace
