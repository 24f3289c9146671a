\* Two users call each other, talk, leave, log off and on, one of them closes the
\* client, and what they are told arrives late and together: once the server is
\* done with a user, the user's window will show it unless commands crossed, and
\* a client is thrown out only then, or over a dialog that stayed open while the
\* user's mode changed.
SPECIFICATION LoggedInSpec
CONSTANTS
  anna = anna
  boris = boris
  vera = vera
  fd1 = fd1
  fd2 = fd2
  fd3 = fd3
  NoLogin = NoLogin
  NoFd = NoFd
  Logins = {anna, boris}
  Privileged = {}
  Fds = {fd1, fd2}
  Workers = {w1, w2}
  Friends <- AllPairs
  Account <- OwnAccount
  Contacts <- AllPairs
  Moves = {"communication_request", "response_yes", "response_no", "make_friend_request", "exit_dialog",
           "leave_from_account", "authentication"}
  Leavers = {fd1}
  Polite = TRUE
  Settled = TRUE
  DbFails = FALSE
  FdReuse = FALSE
  MaxInFlight = 1
  MaxCommands = 1
  MaxUnread = 1
SYMMETRY WorkerSymmetry
CHECK_DEADLOCK FALSE
INVARIANTS
  WindowsAgree
PROPERTIES
  RejectedForCause
