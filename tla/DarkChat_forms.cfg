\* One client connects, registers, logs in and off and is lost at any time, also
\* before its record was created, its number is given out again at once, and it
\* hears of everything late, one command per readyRead: a form that was sent is
\* enabled again unless its answer stays unread or the server gives none, and the
\* record of a closed connection is about to be deleted unless overtaken.
SPECIFICATION FairSpecTransmit
CONSTANTS
  anna = anna
  boris = boris
  vera = vera
  fd1 = fd1
  fd2 = fd2
  fd3 = fd3
  NoLogin = NoLogin
  NoFd = NoFd
  Logins = {anna}
  Privileged = {anna}
  Fds = {fd1}
  Workers = {w1, w2}
  Friends <- AllPairs
  Account <- OwnAccount
  Contacts <- AllPairs
  Moves = {"authentication", "registration", "get_friends_list", "leave_from_account"}
  Leavers = {fd1}
  Polite = TRUE
  Settled = FALSE
  DbFails = FALSE
  FdReuse = TRUE
  MaxInFlight = 2
  MaxCommands = 2
  MaxUnread = 0
CHECK_DEADLOCK FALSE
INVARIANTS
  
  DeletedUnlessOvertaken
PROPERTIES
  FormIsAnswered
