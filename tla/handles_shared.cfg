SPECIFICATION Spec
CONSTANTS
  p1 = p1  p2 = p2  p3 = p3  h1 = h1  h2 = h2  h3 = h3
  None = None
  Procs <- ThreeProcs
  Handles <- ThreeHandles
  Ops <- SharedOps
  Invalidation = FALSE
SYMMETRY Symmetry
INVARIANTS SharedDiscipline OneInstance ServedCurrent
PROPERTIES Implements
