SPECIFICATION FairSpec
CONSTANTS
  c1 = c1
  c2 = c2
  e1 = e1
  e2 = e2
  e3 = e3
  c3 = c3
  Ccbs = {c1, c2, c3}
  Evts = {e1}
  Delays = {2}
  MaxDelta = 2
  Deltas = {1, 2}
  Wrap = 16
  NumTcb = 2
  QCap = 1
PROPERTIES
  CallsReturn
  TimersExpire
