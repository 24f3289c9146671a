\* The stored procedures keep friendship mutual and by consent for four
\* accounts, with calls that fail before or in the commit, and the accounts'
\* lists of friends and requests show them.
SPECIFICATION Spec
CONSTANTS
  anna = anna
  boris = boris
  vera = vera
  gleb = gleb
  Logins = {anna, boris, vera, gleb}
  NoLogin = NoLogin
  DbFails = TRUE
  Letters <- Typed
  LoginSize = 15
  DataSize = 47
  EmptyLimit = 15
  Garbage <- Leftovers
VIEW db
INVARIANTS
  TypeOK
  FriendsAreMutual
  RequestsAreOpen
  FriendsListExact
  RequestsListed
PROPERTIES
  FriendsByConsent
