SPECIFICATION FairSpec
CONSTANTS
  Threads = {0, 1}
  Conns = {1, 2, 3}
  Fds = {1, 2}
  Workers = {w1}
  NoConn = NoConn
  NoFd = NoFd
  MainSocket = MainSocket
  AcceptorLoad = 1
  Modulus = 4
  MaxSent = 2
  MaxLeft = 1
  Refusing = TRUE
  AddFails = TRUE
  Splits = TRUE
CHECK_DEADLOCK FALSE
INVARIANTS
  TypeOK
  LoadIsAccounted
  WatchedOnce
  InOrder
PROPERTIES
  ClosedForCause
  HangupsAreSeen
