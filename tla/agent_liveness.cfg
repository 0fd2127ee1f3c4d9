SPECIFICATION FairSpec
CONSTANTS
  MaxFd = 2
  QueryMod = 3
  QCap = 2
  NetCap = 1
  CtrlMsgs <- NoEchoReply
  Fragments <- NoEchoReply
PROPERTIES
  LossIsRepaired
  SilentControllerProbed
CHECK_DEADLOCK FALSE
