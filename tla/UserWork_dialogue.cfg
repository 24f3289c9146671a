\* Three logged-in users who each call the next one, one of them a stranger,
\* with two workers: dialogues stay two-sided and between friends, and nobody
\* waits in a circle although the requests cross.
SPECIFICATION LoggedInSpec
CONSTANTS
  anna = anna
  boris = boris
  vera = vera
  fd1 = fd1
  fd2 = fd2
  fd3 = fd3
  NoLogin = NoLogin
  NoFd = NoFd
  Logins = {anna, boris, vera}
  Privileged = {}
  Fds = {fd1, fd2, fd3}
  Workers = {w1, w2}
  Friends <- AllButOne
  Account <- OwnAccount
  Contacts <- Ring
  Moves = {"get_friends_list", "communication_request", "response_yes", "send_message", "exit_dialog"}
  Leavers = {}
  Polite = TRUE
  Settled = TRUE
  DbFails = FALSE
  FdReuse = FALSE
  MaxInFlight = 1
  MaxCommands = 1
SYMMETRY WorkerSymmetry
CHECK_DEADLOCK FALSE
INVARIANTS
  DialogueSymmetric
  NoCircularWait
  DialogueOnlyFriends
PROPERTIES
  AskedByFriend
