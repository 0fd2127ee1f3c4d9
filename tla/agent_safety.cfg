SPECIFICATION Spec
CONSTANTS
  MaxFd = 2
  QueryMod = 3
  QCap = 2
  NetCap = 1
  CtrlMsgs <- Messages
  Fragments <- Messages
INVARIANTS
  TypeOK
  MailsInSessionOrder
  NoStaleMail
  OneFailPerLoss
  SingleChildren
  CleanCount
  KeepaliveAhead
  LossAhead
  FramesOnTheirSocket
PROPERTIES
  SessionSpec
  TimerSpec
  HandshakeByFrame
CHECK_DEADLOCK FALSE
