\* Two connections with an account each connect, register, log in, talk and log
\* off, and one gets lost at any time, starting from the empty server, with
\* fair workers: the two maps agree, every step is a step or a stutter of
\* Sessions, and a closed connection's record disappears.
SPECIFICATION FairSpec
CONSTANTS
  anna = anna
  boris = boris
  vera = vera
  fd1 = fd1
  fd2 = fd2
  fd3 = fd3
  NoLogin = NoLogin
  NoFd = NoFd
  Logins = {anna, boris}
  Privileged = {}
  Fds = {fd1, fd2}
  Workers = {w1, w2}
  Friends <- AllPairs
  Account <- OwnAccount
  Contacts <- AllPairs
  Moves = {"authentication", "registration", "get_friends_list", "communication_request", "response_yes", "send_message", "exit_dialog",
           "leave_from_account"}
  Leavers = {fd1}
  Polite = TRUE
  Settled = TRUE
  DbFails = FALSE
  FdReuse = FALSE
  MaxInFlight = 1
  MaxCommands = 1
CHECK_DEADLOCK FALSE
INVARIANTS
  LoginTableExact
PROPERTIES
  KeepsPromises
  NoGhosts
