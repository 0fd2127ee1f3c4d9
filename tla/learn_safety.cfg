SPECIFICATION Spec
CONSTANTS
  Cells = {n1, n2, n3, n4, n5}
  Null = Null
  MaxId = 5
  MaxSess = 3
SYMMETRY Symmetry
INVARIANTS
  TypeOK
  IntactUntilSpoiled
PROPERTIES
  AnswersNamed
  StoreSpec
CHECK_DEADLOCK FALSE
