SPECIFICATION Spec
CONSTANTS
  Cells = {n1, n2, n3}
  Null = Null
  MaxId = 3
  MaxSess = 1
SYMMETRY Symmetry
INVARIANTS
  NoBufferSurvived
CHECK_DEADLOCK FALSE
