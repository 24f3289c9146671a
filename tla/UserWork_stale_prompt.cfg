\* A request reaches a user who is waiting or talking by then.
SPECIFICATION LoggedInSpec
CONSTANTS
  anna = anna
  boris = boris
  vera = vera
  fd1 = fd1
  fd2 = fd2
  fd3 = fd3
  NoLogin = NoLogin
  NoFd = NoFd
  Logins = {anna, boris, vera}
  Privileged = {}
  Fds = {fd1, fd2, fd3}
  Workers = {w1, w2}
  Friends <- AllPairs
  Account <- OwnAccount
  Contacts <- AllPairs
  Moves = {"communication_request", "response_yes", "exit_dialog"}
  Leavers = {}
  Polite = TRUE
  Settled = TRUE
  DbFails = FALSE
  FdReuse = FALSE
  MaxInFlight = 1
  MaxCommands = 2
SYMMETRY WorkerSymmetry
CHECK_DEADLOCK FALSE
PROPERTIES
  PromptOnlyInMenu
