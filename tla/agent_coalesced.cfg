SPECIFICATION Spec
CONSTANTS
  MaxFd = 1
  QueryMod = 2
  QCap = 2
  NetCap = 2
  CtrlMsgs <- HandshakeMsgs
  Fragments = {}
PROPERTIES
  EveryMessageMailed
CHECK_DEADLOCK FALSE
