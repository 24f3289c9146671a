--------------------------- MODULE UserWorkProperties ---------------------------
(***************************************************************************)
(* What the workers of UserWork should keep true of the shared maps and    *)
(* what their clients should see.  Some of it holds only for clients that  *)
(* stay within their windows and wait for their last command; the runs say *)
(* which.  The action properties at the end hold whatever clients do: they *)
(* name the steps, and the only ones, that break the rest.                 *)
(***************************************************************************)
EXTENDS UserWork

(* login_to_socket never points to a connection that is gone or belongs to *)
(* another login: commands to a user reach that user.                      *)
LoginTableSound ==
  \A login \in DOMAIN login_to_socket :
    /\ login_to_socket[login] \in DOMAIN users
    /\ users[login_to_socket[login]].login = login

(* Every authenticated connection can be found by its login, so a friend   *)
(* can call it and a second log-in is refused.                             *)
LoginTableExact ==
  /\ LoginTableSound
  /\ \A fd \in DOMAIN users : Authenticated(users[fd]) => Find(users[fd].login) = fd

(* The comment of user_work.cpp:76, "the user is already on line": one     *)
(* login is never on line twice.                                           *)
UniqueLogin ==
  \A f, g \in DOMAIN users : Authenticated(users[f]) /\ users[f].login = users[g].login => f = g

(* Whoever is in a dialogue has a partner in a dialogue with him: the two  *)
(* records are changed together by answers, exits and disconnections.      *)
DialogueSymmetric ==
  \A fd \in DOMAIN users : users[fd].status = "in_dialogue" =>
    LET partner == Find(users[fd].correspondent_login) IN
      /\ partner \notin {NoFd, fd}
      /\ users[partner].status = "in_dialogue"
      /\ users[partner].correspondent_login = users[fd].login

(* No circle of users who all wait for each other and whose windows only   *)
(* offer to give up: the receiver of a request is free at that moment.     *)
NoCircularWait ==
  \A C \in SUBSET DOMAIN users : C # {} =>
    \E fd \in C : ~(users[fd].status = "in_wait" /\ Find(users[fd].correspondent_login) \in C)

(* Only friends talk: the prompt that leads to an acceptance is sent after *)
(* Check_friends said yes.                                                 *)
DialogueOnlyFriends ==
  \A fd \in DOMAIN users : users[fd].status = "in_dialogue" =>
    \/ <<users[fd].login, users[fd].correspondent_login>> \in Friends
    \/ <<users[fd].correspondent_login, users[fd].login>> \in Friends

(* The record of a closed connection is always about to be deleted: a      *)
(* delete_user for it is being pushed, queued or executed.                 *)
DisconnectedIsDeleted ==
  \A fd \in DOMAIN users \ sockets :
    \/ Command("delete_user", fd, NoLogin) \in pending
    \/ \E i \in DOMAIN commands : commands[i] = Command("delete_user", fd, NoLogin)
    \/ \E w \in Workers : cmd[w] = Command("delete_user", fd, NoLogin)
---------------------------------------------------------------------------------
(* fd said yes to a connection whose user waits for him, and its user is   *)
(* the partner.                                                            *)
SaidYesTo(fd, partner) ==
  \E w \in Workers :
    LET asking == Find(cmd[w].login) IN
      /\ cmd[w].action = "response_yes" /\ cmd[w].from = fd
      /\ asking # NoFd /\ users[asking].login = partner
      /\ AwaitsAnswerOf(asking, users[fd].login)

(* Nobody is put into a dialogue who neither waits for that partner nor    *)
(* answers yes to him just now, whatever the clients send                  *)
(* (communication_response_processing).                                    *)
DialogueByConsent == [][
  \A fd \in DOMAIN users \cap DOMAIN users' :
    users[fd].status # "in_dialogue" /\ users'[fd].status = "in_dialogue" =>
      LET partner == users'[fd].correspondent_login IN
        AwaitsAnswerOf(fd, partner) \/ SaidYesTo(fd, partner)
  ]_vars

(* The comment of user_work.cpp:227, "check of the receiver's status": the *)
(* question whether to talk is put to users in the menu only.              *)
PromptOnlyInMenu == [][
  \A fd \in sockets \cap DOMAIN users :
    win'[fd].caller \notin {NoLogin, win[fd].caller} => users[fd].status = "in_menu"
  ]_vars

(* The record of a closed connection disappears, and with it the login.    *)
NoGhosts ==
  \A fd \in Fds : fd \in DOMAIN users \ sockets ~> fd \notin DOMAIN users
---------------------------------------------------------------------------------
(* The users' view of the maps: who a login reaches, and its status.       *)
Session(login) ==
  LET fd == Find(login) IN
  IF fd = NoFd THEN [mode |-> "offline", with |-> NoLogin]
  ELSE [mode |-> users[fd].status, with |-> users[fd].correspondent_login]

Promise == INSTANCE Sessions WITH session <- [login \in Logins |-> Session(login)]

(* Every step of a worker keeps the promises of Sessions: dialogues start  *)
(* and end for both, only free users are asked, a leaver releases his      *)
(* partner.                                                                *)
KeepsPromises == Promise!Spec
---------------------------------------------------------------------------------
(* Steps that come too late: the worker decided on something that another  *)
(* worker has changed since.  A step of worker w changes where w is.       *)
Acts(w) == pc'[w] # pc[w]

(* The connection is already logged in, because its log-off is still       *)
(* queued or another log-in of it was faster.                              *)
LogsInAgain(w) ==
  At(w, "checked", "authentication") /\ From(w) \in DOMAIN users /\ Authenticated(users[From(w)])

(* The connection waits for an answer by now. *)
LogsInWaiting(w) ==
  At(w, "checked", "authentication") /\ From(w) \in DOMAIN users /\ users[From(w)].status = "in_wait"

CallsHimself(w) == At(w, "handle", "communication_request") /\ Find(cmd[w].login) = From(w)

(* The command was authorized, and would not be any more. *)
OutOfTurn(w) ==
  /\ pc[w] = "handle" \/ At(w, "checked", "authentication")
  /\ From(w) \in DOMAIN users /\ ~Authorized(users[From(w)], cmd[w].action)

(* The caller whose request is being checked is in a dialogue by now. *)
TalksMeanwhile(w) ==
  /\ At(w, "checked", "communication_request")
  /\ \E fd \in {held[w].node, Find(held[w].login)} \cap DOMAIN users : users[fd].status = "in_dialogue"

EntryTrue(login) ==
  login \in DOMAIN login_to_socket =>
    login_to_socket[login] \in DOMAIN users /\ users[login_to_socket[login]].login = login

(* An entry of the login table comes to name a wrong connection only when  *)
(* this connection logs in again without having logged off.                *)
EntriesStayTrue == [][
  \A login \in Logins : EntryTrue(login) /\ ~EntryTrue(login)' =>
    \E w \in Workers :
      Acts(w) /\ LogsInAgain(w) /\ login_to_socket[login] = From(w) /\ cmd[w].login # login
  ]_vars

LoggedInAs(fd, login) == fd \in DOMAIN users /\ users[fd].login = login

Twice(login) == \E f, g \in Fds : f # g /\ LoggedInAs(f, login) /\ LoggedInAs(g, login)

(* A logged-in connection gets lost to its login only where the login is   *)
(* on line twice or its entry is wrong already.                            *)
StaysFound == [][
  \A fd \in Fds, login \in Logins :
    LoggedInAs(fd, login)' /\ Find(login)' # fd =>
      \/ LoggedInAs(fd, login) /\ Find(login) # fd
      \/ Twice(login) \/ Twice(login)' \/ ~EntryTrue(login)
  ]_vars

(* A circle of waiting users is closed only by one who calls himself or    *)
(* logs in while he waits.                                                 *)
NoNewCircle == [][
  NoCircularWait /\ ~NoCircularWait' =>
    \E w \in Workers : Acts(w) /\ (CallsHimself(w) \/ LogsInWaiting(w))
  ]_vars

(* With the login table in order, a dialogue becomes one-sided only by a   *)
(* command executed out of its turn or by a late end of a request.         *)
DialoguesStayMutual == [][
  LoginTableExact /\ DialogueSymmetric /\ ~DialogueSymmetric' =>
    \E w \in Workers : Acts(w) /\ (OutOfTurn(w) \/ TalksMeanwhile(w))
  ]_vars

View == [login \in Logins |-> Session(login)]

(* A promise of Sessions is broken only by a command executed out of its   *)
(* turn, a late end of a request, or a call to oneself.                    *)
PromisesBrokenLate == [][
  LoginTableExact /\ DialogueSymmetric =>
    \/ [Promise!Next]_View
    \/ \E w \in Workers : Acts(w) /\ (OutOfTurn(w) \/ TalksMeanwhile(w) \/ CallsHimself(w))
  ]_vars

(* A dialogue starts with an answer to a friend of the answering client:   *)
(* the query approved the prompt that was answered, for a login of this    *)
(* client, however long ago that was.                                      *)
AskedByFriend == [][
  \A w \in Workers : Acts(w) /\ At(w, "handle", "response_yes") /\ users' # users =>
    \E login \in Account[From(w)] : <<cmd[w].login, login>> \in Friends
  ]_vars
=================================================================================
