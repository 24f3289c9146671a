\* Two users whose clients already send the next command while the last one is
\* executed, with a query that may fail, log-ins to either account and log-offs,
\* also right after an answer or a call: two workers execute commands of one
\* connection at once. Table, dialogues and the promises of Sessions do get out
\* of order, but only by the late steps that the properties name.
SPECIFICATION LoggedInSpec
CONSTANTS
  anna = anna
  boris = boris
  vera = vera
  fd1 = fd1
  fd2 = fd2
  fd3 = fd3
  NoLogin = NoLogin
  NoFd = NoFd
  Logins = {anna, boris}
  Privileged = {}
  Fds = {fd1, fd2}
  Workers = {w1, w2}
  Friends <- AllPairs
  Account <- SharedAccounts
  Contacts <- AllPairs
  Moves = {"authentication", "communication_request", "response_yes",
           "response_no", "exit_dialog", "leave_from_account"}
  Leavers = {fd1}
  Polite = TRUE
  Settled = TRUE
  DbFails = TRUE
  FdReuse = FALSE
  MaxInFlight = 2
  MaxCommands = 1
SYMMETRY WorkerSymmetry
CHECK_DEADLOCK FALSE
PROPERTIES
  EntriesStayTrue
  StaysFound
  NoNewCircle
  DialoguesStayMutual
  PromisesBrokenLate
  DialogueByConsent
