SPECIFICATION FairSpec
CONSTANTS
  p1 = p1
  p2 = p2
  k1 = k1
  k2 = k2
  k3 = k3
  Clients = {p1, p2}
  Patient = {p1}
  IpcKeys = {k1, k2, k3}
  MAX_IPC_NUM = 2
  QCap = 2
  MaxCalls = 3
CHECK_DEADLOCK FALSE
INVARIANTS
  TypeOK
  OneEntryPerKey
  EntriesCurrent
  AnswersOwnCall
  CallsAccounted
PROPERTIES
  AnswersInOrder
  NameSpec
  CallsReturn
