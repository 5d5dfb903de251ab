\* Messages that fit in the sockets and that do not, cut anywhere
SPECIFICATION FairSpec
CONSTANTS
  Messages <- MCMessageSet
  MaxSent = 3
  ReadSize = 2
  SocketSize = 3
INVARIANTS
  TypeOK
  StreamKept
  LossReported
PROPERTIES
  InOrder
  NoSilentLoss
\* Both ends may close: the system stops there.
CHECK_DEADLOCK FALSE
