SPECIFICATION Spec
CONSTANTS
  c1 = c1
  c2 = c2
  e1 = e1
  e2 = e2
  e3 = e3
  c3 = c3
  Ccbs = {c1}
  Evts = {e1, e2, e3}
  Delays = {2, 3}
  MaxDelta = 2
  Deltas = {1, 2}
  Wrap = 16
  NumTcb = 3
  QCap = 1
INVARIANTS
  TypeOK
  BlocksAccounted
  OneEntryPerKey
  NoUnderflow
PROPERTIES
  ServiceSpec
  TaskSpec
