SPECIFICATION Spec
CONSTANTS
  c1 = c1
  c2 = c2
  e1 = e1
  e2 = e2
  e3 = e3
  c3 = c3
  Ccbs = {c1, c2}
  Evts = {e1}
  Delays <- LongDelays
  MaxDelta = 2
  Deltas <- Slices
  Wrap = 16
  NumTcb = 2
  QCap = 1
INVARIANTS
  SuspendedMeansEmpty
