\* One connection sends every command there is, two at a time, with or without
\* permission, and is closed by either side: two workers race on its record,
\* which never outlives the connection.
SPECIFICATION LoggedInSpec
CONSTANTS
  anna = anna
  boris = boris
  vera = vera
  fd1 = fd1
  fd2 = fd2
  fd3 = fd3
  NoLogin = NoLogin
  NoFd = NoFd
  Logins = {anna}
  Privileged = {anna}
  Fds = {fd1}
  Workers = {w1, w2}
  Friends <- AllPairs
  Account <- OwnAccount
  Contacts <- AllPairs
  Moves = {"authentication", "registration", "communication_request", "response_yes", "response_no", "send_message", "exit_dialog", "leave_from_account", "get_friends_list", "get_friends_requests", "accept_friendship", "discard_friendship", "make_friend_request", "unknown"}
  Leavers = {fd1}
  Polite = FALSE
  Settled = TRUE
  DbFails = FALSE
  FdReuse = FALSE
  MaxInFlight = 2
  MaxCommands = 1
SYMMETRY WorkerSymmetry
CHECK_DEADLOCK FALSE
INVARIANTS
  TypeOK
  DisconnectedIsDeleted
