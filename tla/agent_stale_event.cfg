SPECIFICATION Spec
CONSTANTS
  MaxFd = 1
  QueryMod = 2
  QCap = 2
  NetCap = 2
  CtrlMsgs <- Messages
  Fragments <- Messages
PROPERTIES
  EventIsOfTheFrame
CHECK_DEADLOCK FALSE
