\* Two connections log in to one account.
SPECIFICATION Spec
CONSTANTS
  anna = anna
  boris = boris
  vera = vera
  fd1 = fd1
  fd2 = fd2
  fd3 = fd3
  NoLogin = NoLogin
  NoFd = NoFd
  Logins = {anna, boris}
  Privileged = {}
  Fds = {fd1, fd2}
  Workers = {w1, w2}
  Friends <- AllPairs
  Account <- SharedAccounts
  Contacts <- AllPairs
  Moves = {"authentication"}
  Leavers = {}
  Polite = TRUE
  Settled = TRUE
  DbFails = FALSE
  FdReuse = FALSE
  MaxInFlight = 1
  MaxCommands = 1
SYMMETRY WorkerSymmetry
CHECK_DEADLOCK FALSE
INVARIANTS
  UniqueLogin
