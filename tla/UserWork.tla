-------------------------------- MODULE UserWork --------------------------------
(***************************************************************************)
(* The workers of the server (Server_Work, User_work): they pop commands,  *)
(* check whether the sender may give them, and execute them on two shared  *)
(* maps.  Every critical section of data_mutex (= decode_mutex,            *)
(* server_work.cpp:16) is one step; a worker is interruptible between the  *)
(* pop, the authorization, each critical section around a database call,   *)
(* and each send() after the unlock.  The queue is the FIFO of             *)
(* CommandQueue; epoll threads and clients appear as far as they feed it.  *)
(*                                                                         *)
(* A send is received at once by the client at the other end: its windows  *)
(* are those of a client that has read everything.  DarkChat puts the      *)
(* channel in between; nothing about windows is claimed without it but     *)
(* what they show when a prompt arrives.                                   *)
(***************************************************************************)
EXTENDS ChatClient, Sequences, Naturals

CONSTANTS Fds,          \* file descriptors of client sockets
          NoFd,         \* "no descriptor", users.end(), or a freed map node
          Workers,      \* the threads of Server_Work::work_thread
          Friends,      \* pairs of logins that are friends in the database
          Account,      \* per descriptor: the logins its client uses
          Contacts,     \* pairs <<a, b>>: the friends list of a names b
          Moves,        \* the moves the clients of this instance make
          Leavers,      \* descriptors whose clients close the connection
          Polite,       \* TRUE: clients send only what their windows offer
          Settled,      \* TRUE: clients act after their record was created
          DbFails,      \* TRUE: the friendship query may fail
          FdReuse,      \* TRUE: the kernel reuses a closed descriptor at once
          MaxInFlight,  \* bound: commands of one connection under way
          MaxCommands   \* bound: queued commands when a client acts

ASSUME WorkAssumption ==
  /\ NoFd \notin Fds
  /\ Friends \subseteq Logins \X Logins /\ Contacts \subseteq Logins \X Logins
  /\ Account \in [Fds -> SUBSET Logins] /\ Moves \subseteq UserMoves /\ Leavers \subseteq Fds
  /\ {Polite, Settled, DbFails, FdReuse} \subseteq BOOLEAN
  /\ MaxInFlight \in Nat /\ MaxCommands \in Nat

VARIABLES users,            \* std::map<int, User>
          login_to_socket,  \* std::map<std::string, int>
          commands,         \* queue_safe<Command>
          pending,          \* what epoll threads are about to push
          sockets,          \* open descriptors
          win,              \* per descriptor: the windows of its client
          pc,               \* per worker: where it is in its loop
          cmd,              \* per worker: the command it executes
          held,             \* per worker: copies made in a critical section
          out               \* per worker: what it still has to send

maps == <<users, login_to_socket>>
world == <<commands, pending, sockets, win>>
locals == <<pc, cmd, held, out>>
vars == <<users, login_to_socket, commands, pending, sockets, win, pc, cmd, held, out>>

FdOrNone == Fds \cup {NoFd}
Command(action, from, login) == [action |-> action, from |-> from, login |-> login]
Commands ==
  {c \in [action : UserMoves \cup {"make_new_user", "delete_user"}, from : Fds, login : LoginOrNone] :
     /\ c.action = "authentication" => c.login \in Logins
     /\ c.action \notin UserMoves => c.login = NoLogin}
NoCommand == Command("none", NoFd, NoLogin)

(* communication_request_processing keeps the logins and the receiver's    *)
(* socket of its copies and, in "node", its iterator to the sender.        *)
NoCopies == [login |-> NoLogin, peer |-> NoLogin, socket |-> NoFd, node |-> NoFd]
Copies == [login : LoginOrNone, peer : LoginOrNone, socket : FdOrNone, node : FdOrNone]

Message(to, response, login) == [to |-> to, response |-> response, login |-> login]
Messages == [to : Fds, response : Responses, login : LoginOrNone]

At(w, point, action) == pc[w] = point /\ cmd[w].action = action
From(w) == cmd[w].from

MapsOK ==
  /\ DOMAIN users \subseteq Fds /\ users \in [DOMAIN users -> Users]
  /\ DOMAIN login_to_socket \subseteq Logins
  /\ login_to_socket \in [DOMAIN login_to_socket -> Fds]

WorldOK ==
  /\ commands \in Seq(Commands) /\ pending \subseteq Commands
  /\ sockets \subseteq Fds /\ win \in [Fds -> Windows]

LocalsOK ==
  /\ pc \in [Workers -> {"idle", "popped", "handle", "checked", "reject", "close", "send"}]
  /\ cmd \in [Workers -> Commands \cup {NoCommand}]
  /\ held \in [Workers -> Copies] /\ out \in [Workers -> Seq(Messages)]
  /\ \A w \in Workers : pc[w] # "idle" => cmd[w] \in Commands
  /\ \A w \in Workers : pc[w] = "send" => out[w] # <<>>
  /\ \A w \in Workers : At(w, "checked", "communication_request") => held[w].socket \in Fds

(* Beyond the types: a busy worker has a command, a sending one something  *)
(* to send, and the socket a request is forwarded to is a real one.        *)
TypeOK == MapsOK /\ WorldOK /\ LocalsOK

Init ==
  /\ users = [fd \in {} |-> New_user] /\ login_to_socket = [login \in {} |-> NoFd]
  /\ commands = <<>> /\ pending = {}
  /\ sockets = {} /\ win = [fd \in Fds |-> FreshWindows]
  /\ pc = [w \in Workers |-> "idle"] /\ cmd = [w \in Workers |-> NoCommand]
  /\ held = [w \in Workers |-> NoCopies] /\ out = [w \in Workers |-> <<>>]
---------------------------------------------------------------------------------
(* std::map::emplace keeps a value that is already there. *)
Emplace(map, key, value) ==
  [k \in DOMAIN map \cup {key} |-> IF k \in DOMAIN map THEN map[k] ELSE value]
Erase(map, key) == [k \in DOMAIN map \ {key} |-> map[k]]

(* The descriptor of the user a login stands for, NoFd for users.end(). *)
upload_user_iter(table, login) ==
  IF login \in DOMAIN table /\ table[login] \in DOMAIN users THEN table[login] ELSE NoFd
Find(login) == upload_user_iter(login_to_socket, login)

Received(w, fd, response, login) ==
  IF fd \in sockets THEN [w EXCEPT ![fd] = AfterReceiving(@, response, login)] ELSE w

(* send_command: what a client sees of one command.  A closed descriptor   *)
(* makes send() fail, which nobody looks at.                               *)
send_command(fd, response, login) == win' = Received(win, fd, response, login)

Goto(w, point) == pc' = [pc EXCEPT ![w] = point] /\ UNCHANGED <<cmd, out>>

(* The locked part of a handler is over: send the messages, or be done.    *)
Finish(w, messages) ==
  /\ pc' = [pc EXCEPT ![w] = IF messages = <<>> THEN "idle" ELSE "send"]
  /\ cmd' = [cmd EXCEPT ![w] = IF messages = <<>> THEN NoCommand ELSE @]
  /\ out' = [out EXCEPT ![w] = messages]

Drop(w) == held' = [held EXCEPT ![w] = NoCopies]

Reply(w, response) == <<Message(From(w), response, NoLogin)>>
---------------------------------------------------------------------------------
(* work_thread, internal_decoding *)

Pop(w) ==
  /\ pc[w] = "idle" /\ commands # <<>>
  /\ cmd' = [cmd EXCEPT ![w] = Head(commands)]
  /\ commands' = Tail(commands)
  /\ pc' = [pc EXCEPT ![w] = "popped"]
  /\ UNCHANGED <<users, login_to_socket, pending, sockets, win, held, out>>

(* The allocator may give the new map node the memory of an erased one, so *)
(* that an iterator that dangled now reaches the new user.                 *)
Dangling == {w \in Workers : At(w, "checked", "communication_request") /\ held[w].node = NoFd}

make_new_user(w) ==
  /\ At(w, "popped", "make_new_user")
  /\ users' = Emplace(users, From(w), New_user)
  /\ \E reused \in SUBSET Dangling :
       /\ reused # {} => From(w) \notin DOMAIN users
       /\ held' = [v \in Workers |-> IF v \in reused THEN [held[v] EXCEPT !.node = From(w)] ELSE held[v]]
  /\ Finish(w, <<>>)
  /\ UNCHANGED <<login_to_socket, world>>

(* Whom a user leaves behind in a dialogue; the partner is looked up after *)
(* the user's own login left the table.                                    *)
TableWithout(fd) ==
  IF Authenticated(users[fd]) THEN Erase(login_to_socket, users[fd].login) ELSE login_to_socket

Deserted(fd) ==
  IF fd \in DOMAIN users /\ users[fd].status = "in_dialogue"
  THEN upload_user_iter(TableWithout(fd), users[fd].correspondent_login) ELSE NoFd

erase_user(w) ==
  LET fd == From(w) IN
  /\ At(w, "popped", "delete_user")
  /\ IF fd \notin DOMAIN users THEN UNCHANGED <<maps, held>> ELSE
       /\ login_to_socket' = TableWithout(fd)
       /\ users' = [g \in DOMAIN users \ {fd} |->
                      IF g = Deserted(fd) THEN change_to_menu_mode(users[g]) ELSE users[g]]
       /\ held' = [v \in Workers |-> IF held[v].node = fd THEN [held[v] EXCEPT !.node = NoFd] ELSE held[v]]
  /\ Finish(w, <<>>)
  /\ UNCHANGED <<commands, pending, sockets>>

(* The partner is told while the lock is held. *)
delete_user(w) == erase_user(w) /\ send_command(Deserted(From(w)), "dialog_closed", NoLogin)
---------------------------------------------------------------------------------
(* user_decoding, authorization *)

authorization(w) ==
  /\ pc[w] = "popped" /\ cmd[w].action \in UserMoves
  /\ Goto(w, IF From(w) \in DOMAIN users /\ Authorized(users[From(w)], cmd[w].action)
             THEN "handle" ELSE "reject")
  /\ UNCHANGED <<maps, world, held>>

(* Mistake RejectCleared: the command is cleared before it is queued again. *)
RejectCleared(w) ==
  /\ pc[w] = "reject"
  /\ commands' = Append(commands, Command("delete_user", NoFd, NoLogin))
  /\ Goto(w, "close")
  /\ UNCHANGED <<maps, pending, sockets, win, held>>

(* Mistake RejectWithoutDelete: the connection is closed, its record forgotten. *)
RejectWithoutDelete(w) ==
  /\ pc[w] = "reject" /\ Goto(w, "close")
  /\ UNCHANGED <<maps, world, held>>

reject_push(w) ==
  /\ pc[w] = "reject"
  /\ commands' = Append(commands, Command("delete_user", From(w), NoLogin))
  /\ Goto(w, "close")
  /\ UNCHANGED <<maps, pending, sockets, win, held>>

(* close(fd), whoever the descriptor belongs to by now. *)
reject_close(w) ==
  /\ pc[w] = "close"
  /\ sockets' = sockets \ {From(w)}
  /\ win' = [win EXCEPT ![From(w)] = FreshWindows]
  /\ Finish(w, <<>>)
  /\ UNCHANGED <<maps, commands, pending, held>>

(* An action behind the enum passes a privileged user's check and is then  *)
(* none of the cases of the switch.                                        *)
no_case(w) ==
  /\ At(w, "handle", "unknown")
  /\ Finish(w, <<>>) /\ UNCHANGED <<maps, world, held>>
---------------------------------------------------------------------------------
(* authentication, registration, leave_from_account *)

(* "already on line?" is asked before the database is, ... *)
authentication_lookup(w) ==
  /\ At(w, "handle", "authentication")
  /\ IF cmd[w].login \in DOMAIN login_to_socket
     THEN Finish(w, Reply(w, "authentication_error")) ELSE Goto(w, "checked")
  /\ UNCHANGED <<maps, world, held>>

(* ... and the answer is used after it: the password is right or wrong,    *)
(* the connection still there or gone.                                     *)
authentication_finish(w) ==
  /\ At(w, "checked", "authentication")
  /\ \/ /\ From(w) \in DOMAIN users
        /\ users' = [users EXCEPT ![From(w)] = set_db_data(@, cmd[w].login)]
        /\ login_to_socket' = Emplace(login_to_socket, cmd[w].login, From(w))
        /\ Finish(w, Reply(w, "authentication_successful"))
     \/ UNCHANGED maps /\ Finish(w, Reply(w, "authentication_error"))
  /\ UNCHANGED <<world, held>>

(* Mistake RegisterSilently: the outcome of a registration is not reported. *)
RegisterSilently(w) ==
  /\ At(w, "handle", "registration") /\ Finish(w, <<>>)
  /\ UNCHANGED <<maps, world, held>>

(* Of an authenticated connection a registration is dropped without reply. *)
registration(w) ==
  /\ \/ /\ At(w, "handle", "registration")
        /\ IF From(w) \in DOMAIN users /\ ~Authenticated(users[From(w)])
           THEN Goto(w, "checked") ELSE Finish(w, <<>>)
     \/ At(w, "checked", "registration") /\ Finish(w, Reply(w, "registration_reply"))
  /\ UNCHANGED <<maps, world, held>>

(* Mistake LeaveTheLogin: the login stays in the table. *)
LeaveTheLogin(w) ==
  /\ At(w, "handle", "leave_from_account")
  /\ users' = [fd \in DOMAIN users |-> IF fd = From(w) THEN log_off(users[fd]) ELSE users[fd]]
  /\ Finish(w, <<>>)
  /\ UNCHANGED <<login_to_socket, world, held>>

leave_from_account(w) ==
  /\ At(w, "handle", "leave_from_account")
  /\ IF From(w) \notin DOMAIN users THEN UNCHANGED maps ELSE
       /\ login_to_socket' = Erase(login_to_socket, users[From(w)].login)
       /\ users' = [users EXCEPT ![From(w)] = log_off(@)]
  /\ Finish(w, <<>>)
  /\ UNCHANGED <<world, held>>
---------------------------------------------------------------------------------
(* The five handlers that copy the user, ask the database and reply; what  *)
(* the database does is the module Friendship.  The two lists answer an    *)
(* absent user with an error, the other three not at all.                  *)

database_command(w, action, absent, replies) ==
  /\ cmd[w].action = action
  /\ \/ /\ pc[w] = "handle"
        /\ IF From(w) \in DOMAIN users THEN Goto(w, "checked") ELSE Finish(w, absent)
     \/ pc[w] = "checked" /\ \E response \in replies : Finish(w, Reply(w, response))
  /\ UNCHANGED <<maps, world, held>>

list_command(w, action, list) ==
  database_command(w, action, Reply(w, "friends_reply"), {list, "friends_reply"})

get_friends_list(w) == list_command(w, "get_friends_list", "friends_list")
get_friends_requests(w) == list_command(w, "get_friends_requests", "friends_requests")
accept_friendship(w) == database_command(w, "accept_friendship", <<>>, {"friends_reply"})
discard_friendship(w) == database_command(w, "discard_friendship", <<>>, {"friends_reply"})
make_friend_request(w) == database_command(w, "make_friend_request", <<>>, {"friends_reply"})
---------------------------------------------------------------------------------
(* communication_request_processing *)

(* Mistake OnLine: the receiver is on line, whatever it is doing. *)
OnLine(fd) == fd # NoFd

(* The receiver was found and its status is in_menu. *)
Free(fd) == fd # NoFd /\ users[fd].status = "in_menu"

(* First critical section: the sender waits for a receiver in the menu. *)
request_start(w) ==
  LET fd == From(w)
      reciever == Find(cmd[w].login)
  IN
  /\ At(w, "handle", "communication_request")
  /\ \/ fd \notin DOMAIN users /\ Finish(w, <<>>) /\ UNCHANGED <<maps, held>>
     \/ /\ fd \in DOMAIN users /\ ~Free(reciever)
        /\ Finish(w, Reply(w, "dialog_closed")) /\ UNCHANGED <<maps, held>>
     \/ /\ fd \in DOMAIN users /\ Free(reciever)
        /\ users' = [users EXCEPT ![fd] = change_to_response_waiting_mode(@, cmd[w].login)]
        /\ held' = [held EXCEPT ![w] = [login |-> users[fd].login, peer |-> users[reciever].login,
                                        socket |-> reciever, node |-> fd]]
        /\ Goto(w, "checked") /\ UNCHANGED login_to_socket
  /\ UNCHANGED world

(* Mistake Unchecked: whoever is on line may be called. *)
Unchecked(w) == TRUE

(* The answer of Check_friends about the two copies. *)
Check_friends(w) == <<held[w].login, held[w].peer>> \in Friends

(* No friends, or no answer from the database: the old iterator is written *)
(* through without a new lookup (a freed node swallows the write).         *)
request_denied(w) ==
  /\ At(w, "checked", "communication_request")
  /\ DbFails \/ ~Check_friends(w)
  /\ users' = [fd \in DOMAIN users |-> IF fd = held[w].node THEN change_to_menu_mode(users[fd]) ELSE users[fd]]
  /\ Drop(w) /\ Finish(w, Reply(w, "session_establishment_error"))
  /\ UNCHANGED <<login_to_socket, world>>

(* Second critical section: both are looked up again, their status is not. *)
request_forward(w) ==
  LET sender == Find(held[w].login)
      reciever == Find(held[w].peer)
  IN
  /\ At(w, "checked", "communication_request")
  /\ Check_friends(w)
  /\ \/ sender = NoFd /\ Finish(w, <<>>) /\ UNCHANGED users
     \/ /\ sender # NoFd /\ reciever = NoFd
        /\ users' = [users EXCEPT ![sender] = change_to_menu_mode(@)]
        /\ Finish(w, Reply(w, "dialog_closed"))
     \/ /\ sender # NoFd /\ reciever # NoFd
        /\ Finish(w, <<Message(held[w].socket, "communication_request_from_server", held[w].login)>>)
        /\ UNCHANGED users
  /\ Drop(w) /\ UNCHANGED <<login_to_socket, world>>
---------------------------------------------------------------------------------
(* communication_response_processing, send_message, exit_dialog *)

(* Mistake AnyAnswer: any answer counts. *)
AnyAnswer(fd, login) == TRUE

(* Does the user at fd wait for an answer of this login? *)
AwaitsAnswerOf(fd, login) ==
  users[fd].status = "in_wait" /\ users[fd].correspondent_login = login

communication_response(w) ==
  LET fd == From(w)
      reciever == Find(cmd[w].login)
  IN
  /\ pc[w] = "handle" /\ cmd[w].action \in Answers
  /\ \/ fd \notin DOMAIN users /\ Finish(w, <<>>) /\ UNCHANGED users
     \/ fd \in DOMAIN users /\ reciever = NoFd /\ Finish(w, Reply(w, "dialog_closed")) /\ UNCHANGED users
     \/ /\ fd \in DOMAIN users /\ reciever # NoFd /\ ~AwaitsAnswerOf(reciever, users[fd].login)
        /\ Finish(w, Reply(w, "session_establishment_error")) /\ UNCHANGED users
     \/ /\ fd \in DOMAIN users /\ reciever # NoFd /\ AwaitsAnswerOf(reciever, users[fd].login)
        /\ cmd[w].action = "response_yes"
        /\ users' = LET answered == [users EXCEPT ![fd] = change_to_dialogue_mode(@, users[reciever].login)]
                    IN [answered EXCEPT ![reciever] = keep_correspondent_in_dialogue(@)]
        /\ Finish(w, <<Message(reciever, "session_accepted", NoLogin), Message(fd, "session_accepted", NoLogin)>>)
     \/ /\ fd \in DOMAIN users /\ reciever # NoFd /\ AwaitsAnswerOf(reciever, users[fd].login)
        /\ cmd[w].action = "response_no"
        /\ users' = [users EXCEPT ![reciever] = change_to_menu_mode(@)]
        /\ Finish(w, <<Message(reciever, "session_refused", NoLogin)>>)
  /\ UNCHANGED <<login_to_socket, world, held>>

send_message(w) ==
  LET fd == From(w) IN
  /\ At(w, "handle", "send_message")
  /\ \/ fd \notin DOMAIN users /\ Finish(w, <<>>)
     \/ fd \in DOMAIN users /\ users[fd].status # "in_dialogue" /\ Finish(w, Reply(w, "no_action"))
     \/ /\ fd \in DOMAIN users /\ users[fd].status = "in_dialogue"
        /\ LET corr == Find(users[fd].correspondent_login) IN
             Finish(w, IF corr = NoFd THEN <<>>
                       ELSE <<Message(corr, "new_message", users[fd].login), Message(fd, "new_message", users[fd].login)>>)
  /\ UNCHANGED <<maps, world, held>>

exit_dialog(w) ==
  LET fd == From(w) IN
  /\ At(w, "handle", "exit_dialog")
  /\ \/ /\ ~(fd \in DOMAIN users /\ users[fd].status # "in_menu")
        /\ Finish(w, <<>>) /\ UNCHANGED users
     \/ /\ fd \in DOMAIN users /\ users[fd].status = "in_wait"
        /\ users' = [users EXCEPT ![fd] = change_to_menu_mode(@)]
        /\ Finish(w, <<>>)
     \/ /\ fd \in DOMAIN users /\ users[fd].status = "in_dialogue"
        /\ LET corr == Find(users[fd].correspondent_login) IN
             /\ users' = [g \in DOMAIN users |-> IF g \in {fd, corr} THEN change_to_menu_mode(users[g]) ELSE users[g]]
             /\ Finish(w, IF corr = NoFd THEN <<>> ELSE <<Message(corr, "dialog_closed", NoLogin)>>)
  /\ UNCHANGED <<login_to_socket, world, held>>

(* One send() after the unlock; other workers may act before the next one. *)
Send(w) ==
  LET m == Head(out[w]) IN
  /\ pc[w] = "send"
  /\ send_command(m.to, m.response, m.login)
  /\ Finish(w, Tail(out[w]))
  /\ UNCHANGED <<maps, commands, pending, sockets, held>>
---------------------------------------------------------------------------------
(* Clients and epoll threads *)

(* Nothing in the server still refers to the descriptor. *)
Drained(fd) ==
  /\ fd \notin DOMAIN users
  /\ \A c \in pending : c.from # fd
  /\ \A i \in DOMAIN commands : commands[i].from # fd
  /\ \A w \in Workers : /\ From(w) # fd /\ held[w].socket # fd
                        /\ \A i \in DOMAIN out[w] : out[w][i].to # fd

(* accept() and EPOLL_CTL_ADD; make_new_user is pushed afterwards.         *)
Accept(fd) ==
  LET c == Command("make_new_user", fd, NoLogin) IN
  /\ fd \notin sockets /\ (FdReuse \/ Drained(fd))
  /\ Len(commands) < MaxCommands /\ c \notin pending
  /\ sockets' = sockets \cup {fd} /\ pending' = pending \cup {c}
  /\ UNCHANGED <<maps, commands, win, locals>>

(* recv() returns less than 1: close(), and delete_user is pushed after it.*)
Disconnect(fd) ==
  LET c == Command("delete_user", fd, NoLogin) IN
  /\ fd \in sockets \cap Leavers /\ (Settled => fd \in DOMAIN users)
  /\ Len(commands) < MaxCommands /\ c \notin pending
  /\ sockets' = sockets \ {fd} /\ pending' = pending \cup {c}
  /\ win' = [win EXCEPT ![fd] = FreshWindows]
  /\ UNCHANGED <<maps, commands, locals>>

PushPending(c) ==
  /\ c \in pending
  /\ pending' = pending \ {c} /\ commands' = Append(commands, c)
  /\ UNCHANGED <<maps, sockets, win, locals>>

InFlight(fd) == Cardinality({i \in DOMAIN commands : commands[i].from = fd})
              + Cardinality({w \in Workers : From(w) = fd})

(* A list may be an old one, of the account that was used before. *)
MayName(fd, action, login) ==
  CASE action = "authentication" -> login \in Account[fd]
    [] action \in Answers -> login \in Logins
    [] action = "communication_request" ->
         login \in Logins /\ (Polite => \E a \in Account[fd] : <<a, login>> \in Contacts)
    [] OTHER -> login = NoLogin

(* A client writes a command and its epoll thread pushes it. *)
ClientSend(fd, action, login) ==
  /\ fd \in sockets /\ (Settled => fd \in DOMAIN users)
  /\ InFlight(fd) < MaxInFlight /\ Len(commands) < MaxCommands
  /\ MayName(fd, action, login) /\ (Polite => Offers(win[fd], action, login))
  /\ commands' = Append(commands, Command(action, fd, login))
  /\ win' = [win EXCEPT ![fd] = AfterSending(@, action)]
  /\ UNCHANGED <<maps, pending, sockets, locals>>

(* The button of the menu that opens the form for a friend request; no     *)
(* command is sent.                                                        *)
set_make_request_mode(fd) ==
  /\ fd \in sockets /\ "make_friend_request" \in Moves /\ OffersMenu(win[fd])
  /\ win' = [win EXCEPT ![fd] = Show(@, "request_form")]
  /\ UNCHANGED <<maps, commands, pending, sockets, locals>>
---------------------------------------------------------------------------------
(* What a worker does without touching a socket, ... *)
Work(w) ==
  \/ make_new_user(w) \/ authorization(w) \/ reject_push(w) \/ no_case(w)
  \/ authentication_lookup(w) \/ authentication_finish(w)
  \/ registration(w) \/ leave_from_account(w)
  \/ get_friends_list(w) \/ get_friends_requests(w)
  \/ accept_friendship(w) \/ discard_friendship(w) \/ make_friend_request(w)
  \/ request_start(w) \/ request_denied(w) \/ request_forward(w)
  \/ communication_response(w) \/ send_message(w) \/ exit_dialog(w)

(* ... and the rest. *)
Handle(w) == Work(w) \/ delete_user(w) \/ reject_close(w) \/ Send(w)

Environment ==
  \/ \E fd \in Fds : Accept(fd) \/ Disconnect(fd) \/ set_make_request_mode(fd)
  \/ \E c \in pending : PushPending(c)
  \/ \E fd \in Fds, action \in Moves, login \in LoginOrNone : ClientSend(fd, action, login)

Next == (\E w \in Workers : Pop(w) \/ Handle(w)) \/ Environment

Spec == Init /\ [][Next]_vars

(* The queue hands out its commands (QueueSafe), a worker that has one     *)
(* finishes it, an epoll thread pushes what it decided to push; no client  *)
(* has to do anything.                                                     *)
Fairness ==
  /\ WF_vars(\E w \in Workers : Pop(w))
  /\ \A w \in Workers : WF_vars(Handle(w))
  /\ \A fd \in Fds : WF_vars(\E c \in pending : c.from = fd /\ PushPending(c))

FairSpec == Spec /\ Fairness
=================================================================================
