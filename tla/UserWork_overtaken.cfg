\* A worker deletes a user before another one creates it.
SPECIFICATION Spec
CONSTANTS
  anna = anna
  boris = boris
  vera = vera
  fd1 = fd1
  fd2 = fd2
  fd3 = fd3
  NoLogin = NoLogin
  NoFd = NoFd
  Logins = {anna}
  Privileged = {}
  Fds = {fd1}
  Workers = {w1, w2}
  Friends <- AllPairs
  Account <- OwnAccount
  Contacts <- AllPairs
  Moves = {"authentication"}
  Leavers = {fd1}
  Polite = TRUE
  Settled = FALSE
  DbFails = FALSE
  FdReuse = FALSE
  MaxInFlight = 1
  MaxCommands = 2
SYMMETRY WorkerSymmetry
CHECK_DEADLOCK FALSE
INVARIANTS
  DisconnectedIsDeleted
