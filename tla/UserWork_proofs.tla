---------------------------- MODULE UserWork_proofs ----------------------------
(***************************************************************************)
(* For any number of connections, workers, logins and queued commands, for *)
(* clients that send whatever they like, for failing queries and reused    *)
(* descriptors: the shared maps, the queue and the workers' locals stay    *)
(* well formed, and nobody gets into a dialogue without consent.           *)
(***************************************************************************)
EXTENDS UserWorkProperties, SequenceTheorems, TLAPS

(* What a lookup by login returns is a key of the users map or NoFd. *)
LEMMA FindType ==
  ASSUME NEW table, NEW login
  PROVE upload_user_iter(table, login) \in DOMAIN users \cup {NoFd}
BY DEF upload_user_iter

(* Receiving a command keeps the windows windows. *)
LEMMA ReadingType ==
  ASSUME NEW v \in Windows, NEW response, NEW login \in LoginOrNone
  PROVE AfterReceiving(v, response, login) \in Windows
<1>1. \A dialog \in Dialogs : Show(v, dialog) \in Windows
  BY DEF Windows, Show, LoginOrNone
<1>2. \A u \in Windows : /\ [u EXCEPT !.mode = "menu"] \in Windows
                         /\ [u EXCEPT !.screen = IF @ = "submitted" THEN "login" ELSE @] \in Windows
  BY DEF Windows
<1>3. {"none", "friends", "requests"} \subseteq Dialogs
  BY DEF Dialogs
<1>4. /\ [v EXCEPT !.screen = "chat"] \in Windows /\ [v EXCEPT !.mode = "dialogue"] \in Windows
      /\ [v EXCEPT !.dialog = "prompt", !.caller = login] \in Windows
  BY DEF Windows, Dialogs
<1>5. Show(v, "none") \in Windows /\ Show(v, "friends") \in Windows /\ Show(v, "requests") \in Windows
  BY <1>1, <1>3
<1>6. /\ [Show(v, "none") EXCEPT !.mode = "menu"] \in Windows
      /\ [Show(v, "none") EXCEPT !.screen = IF @ = "submitted" THEN "login" ELSE @] \in Windows
  BY <1>2, <1>5
<1> QED
  BY <1>4, <1>5, <1>6 DEF AfterReceiving

LEMMA ReceivedType ==
  ASSUME NEW w \in [Fds -> Windows], NEW fd, NEW response, NEW login \in LoginOrNone
  PROVE Received(w, fd, response, login) \in [Fds -> Windows]
BY ReadingType DEF Received

LEMMA SendingType ==
  ASSUME NEW v \in Windows, NEW action
  PROVE AfterSending(v, action) \in Windows
BY DEF Windows, AfterSending, Show, Dialogs, LoginOrNone

LEMMA FreshType == FreshWindows \in Windows
BY DEF Windows, FreshWindows, Dialogs, LoginOrNone

(* The mutators of a record. *)
LEMMA UserType ==
  /\ New_user \in Users
  /\ \A u \in Users : /\ change_to_menu_mode(u) \in Users
                      /\ keep_correspondent_in_dialogue(u) \in Users
                      /\ log_off(u) \in Users
                      /\ \A login \in LoginOrNone : /\ set_db_data(u, login) \in Users
                                                    /\ change_to_response_waiting_mode(u, login) \in Users
                                                    /\ change_to_dialogue_mode(u, login) \in Users
BY DEF Users, New_user, LoginOrNone, change_to_menu_mode, keep_correspondent_in_dialogue, log_off,
       set_db_data, change_to_response_waiting_mode, change_to_dialogue_mode

(* Two maps, one entry more or less. *)
LEMMA EmplaceType ==
  ASSUME NEW S, NEW map, NEW key, NEW value \in S, map \in [DOMAIN map -> S]
  PROVE /\ DOMAIN Emplace(map, key, value) = DOMAIN map \cup {key}
        /\ Emplace(map, key, value) \in [DOMAIN map \cup {key} -> S]
BY DEF Emplace

LEMMA EraseType ==
  ASSUME NEW S, NEW map, NEW key, map \in [DOMAIN map -> S]
  PROVE /\ DOMAIN Erase(map, key) = DOMAIN map \ {key}
        /\ Erase(map, key) \in [DOMAIN map \ {key} -> S]
BY DEF Erase

(* A handler that ends with messages to send leaves the locals well formed. *)
LEMMA FinishType ==
  ASSUME LocalsOK, NEW w \in Workers, pc[w] # "idle", NEW messages \in Seq(Messages),
         Finish(w, messages), held' \in [Workers -> Copies],
         \A v \in Workers \ {w} : held'[v].socket = held[v].socket
  PROVE LocalsOK'
<1>1. /\ pc' \in [Workers -> {"idle", "popped", "handle", "checked", "reject", "close", "send"}]
      /\ cmd' \in [Workers -> Commands \cup {NoCommand}] /\ out' \in [Workers -> Seq(Messages)]
  BY DEF LocalsOK, Finish
<1>2. \A v \in Workers \ {w} : pc'[v] = pc[v] /\ cmd'[v] = cmd[v] /\ out'[v] = out[v]
  BY DEF LocalsOK, Finish
<1>3. /\ pc'[w] # "idle" => cmd'[w] \in Commands
      /\ pc'[w] = "send" => out'[w] # <<>>
      /\ pc'[w] # "checked"
  BY DEF LocalsOK, Finish
<1> QED
  BY <1>1, <1>2, <1>3 DEF LocalsOK, At

(* A handler that goes on to its next critical section does, too. *)
LEMMA GotoType ==
  ASSUME LocalsOK, NEW w \in Workers, pc[w] # "idle",
         NEW point \in {"handle", "checked", "reject", "close"}, Goto(w, point),
         held' \in [Workers -> Copies],
         \A v \in Workers \ {w} : held'[v].socket = held[v].socket,
         point = "checked" /\ cmd[w].action = "communication_request" => held'[w].socket \in Fds
  PROVE LocalsOK'
<1>1. /\ pc' \in [Workers -> {"idle", "popped", "handle", "checked", "reject", "close", "send"}]
      /\ \A v \in Workers \ {w} : pc'[v] = pc[v]
      /\ pc'[w] = point
      /\ cmd' = cmd /\ out' = out
  BY DEF LocalsOK, Goto
<1> QED
  BY <1>1 DEF LocalsOK, At

(* One or two messages with a real addressee and a known response. *)
LEMMA MessagesType ==
  ASSUME NEW to \in Fds, NEW response \in Responses, NEW login \in LoginOrNone
  PROVE Message(to, response, login) \in Messages
BY DEF Message, Messages

LEMMA CommandType ==
  ASSUME NEW action \in UserMoves \cup {"make_new_user", "delete_user"}, NEW fd \in Fds, NEW login \in LoginOrNone,
         action = "authentication" => login \in Logins, action \notin UserMoves => login = NoLogin
  PROVE Command(action, fd, login) \in Commands
BY DEF Command, Commands

LEMMA ReplyType ==
  ASSUME LocalsOK, NEW w \in Workers, pc[w] # "idle", NEW response \in Responses
  PROVE Reply(w, response) \in Seq(Messages) /\ From(w) \in Fds /\ cmd[w].login \in LoginOrNone
<1>1. cmd[w] \in Commands
  BY DEF LocalsOK
<1>2. From(w) \in Fds /\ cmd[w].login \in LoginOrNone
  BY <1>1 DEF Commands, From
<1>3. Message(From(w), response, NoLogin) \in Messages
  BY <1>2, MessagesType DEF LoginOrNone
<1> QED
  BY <1>2, <1>3 DEF Reply

LEMMA FinishSame ==
  ASSUME LocalsOK, NEW w \in Workers, pc[w] # "idle", NEW messages \in Seq(Messages),
         Finish(w, messages), UNCHANGED held
  PROVE LocalsOK'
BY FinishType DEF LocalsOK

LEMMA GotoSame ==
  ASSUME LocalsOK, NEW w \in Workers, pc[w] # "idle",
         NEW point \in {"handle", "checked", "reject", "close"}, Goto(w, point), UNCHANGED held,
         ~(point = "checked" /\ cmd[w].action = "communication_request")
  PROVE LocalsOK'
BY GotoType DEF LocalsOK

LEMMA NoMessages == <<>> \in Seq(Messages)
OBVIOUS

(* The response names that the handlers use. *)
LEMMA ResponseNames ==
  {"authentication_successful", "authentication_error", "registration_reply",
   "friends_list", "friends_requests", "friends_reply",
   "communication_request_from_server", "session_accepted", "session_refused",
   "session_establishment_error", "dialog_closed", "new_message", "no_action"} \subseteq Responses
BY DEF Responses
--------------------------------------------------------------------------------
(* Steps, whatever becomes of the windows.  A message that is sent may be   *)
(* seen by the client at once, as in UserWork, or later (DarkChat): what   *)
(* is shown of Step holds in both.                                         *)

(* One message less to send. *)
SendsOut(w) ==
  /\ pc[w] = "send" /\ Finish(w, Tail(out[w]))
  /\ UNCHANGED <<maps, commands, pending, sockets, held>>

Serves(w) == Work(w) \/ erase_user(w) \/ reject_close(w) \/ SendsOut(w)

(* Everything but the windows. *)
server == <<users, login_to_socket, commands, pending, sockets, pc, cmd, held, out>>

Step == (\E w \in Workers : Pop(w) \/ Serves(w)) \/ Environment \/ UNCHANGED server

LEMMA HandleServes == ASSUME NEW w, Handle(w) PROVE Serves(w)
BY DEF Handle, Serves, delete_user, Send, SendsOut

LEMMA NextIsStep == [Next]_vars => Step
BY HandleServes DEF Next, Step, vars, server
--------------------------------------------------------------------------------
(* Type correctness, one lemma for each kind of step. *)

LEMMA InitType == Init => TypeOK
<1> SUFFICES ASSUME Init PROVE TypeOK
  OBVIOUS
<1>1. MapsOK
  BY DEF Init, MapsOK
<1>2. WorldOK
  BY FreshType DEF Init, WorldOK
<1>3. LocalsOK
  BY DEF Init, LocalsOK, NoCopies, Copies, FdOrNone, LoginOrNone, At
<1> QED
  BY <1>1, <1>2, <1>3 DEF TypeOK

LEMMA PopType ==
  ASSUME TypeOK, NEW w \in Workers, Pop(w)
  PROVE TypeOK'
<1>1. Head(commands) \in Commands /\ Tail(commands) \in Seq(Commands)
  BY DEF TypeOK, WorldOK, Pop
<1>2. WorldOK'
  BY <1>1 DEF TypeOK, WorldOK, Pop
<1>3. LocalsOK'
  BY <1>1 DEF TypeOK, LocalsOK, Pop, At
<1>4. MapsOK'
  BY DEF TypeOK, MapsOK, Pop
<1> QED
  BY <1>2, <1>3, <1>4 DEF TypeOK

LEMMA MakeType ==
  ASSUME TypeOK, NEW w \in Workers, make_new_user(w)
  PROVE TypeOK'
<1>1. pc[w] = "popped" /\ From(w) \in Fds
  BY DEF TypeOK, LocalsOK, make_new_user, At, From, Commands
<1>2. MapsOK'
  <2>1. users \in [DOMAIN users -> Users] /\ New_user \in Users
    BY UserType DEF TypeOK, MapsOK
  <2>2. /\ DOMAIN Emplace(users, From(w), New_user) = DOMAIN users \cup {From(w)}
        /\ Emplace(users, From(w), New_user) \in [DOMAIN users \cup {From(w)} -> Users]
    BY <2>1, EmplaceType
  <2>3. users' = Emplace(users, From(w), New_user) /\ UNCHANGED login_to_socket
    BY DEF make_new_user
  <2> QED
    BY <1>1, <2>2, <2>3 DEF TypeOK, MapsOK
<1>3. /\ held' \in [Workers -> Copies]
      /\ \A v \in Workers : held'[v].socket = held[v].socket
  <2>1. PICK reused \in SUBSET Dangling :
          held' = [v \in Workers |-> IF v \in reused THEN [held[v] EXCEPT !.node = From(w)] ELSE held[v]]
    BY DEF make_new_user
  <2>2. \A c \in Copies : [c EXCEPT !.node = From(w)] \in Copies /\ [c EXCEPT !.node = From(w)].socket = c.socket
    BY <1>1 DEF Copies, FdOrNone
  <2> QED
    BY <2>1, <2>2 DEF TypeOK, LocalsOK
<1>4. LocalsOK'
  BY <1>1, <1>3, FinishType, NoMessages DEF TypeOK, make_new_user
<1>5. WorldOK'
  BY DEF TypeOK, WorldOK, make_new_user, world
<1> QED
  BY <1>2, <1>4, <1>5 DEF TypeOK

LEMMA DeleteType ==
  ASSUME TypeOK, NEW w \in Workers, erase_user(w), win' \in [Fds -> Windows]
  PROVE TypeOK'
<1>1. pc[w] = "popped" /\ UNCHANGED <<commands, pending, sockets>> /\ Finish(w, <<>>)
  BY DEF erase_user, At
<1>2. CASE From(w) \notin DOMAIN users
  <2>1. UNCHANGED <<maps, held>>
    BY <1>2 DEF erase_user
  <2>2. LocalsOK'
    BY <1>1, <2>1, FinishSame, NoMessages DEF TypeOK
  <2> QED
    BY <1>1, <2>1, <2>2 DEF TypeOK, MapsOK, WorldOK, maps
<1>3. CASE From(w) \in DOMAIN users
  <2> DEFINE fd == From(w)
             table == TableWithout(fd)
  <2>1. /\ login_to_socket' = table
        /\ users' = [g \in DOMAIN users \ {fd} |->
                       IF g = Deserted(fd) THEN change_to_menu_mode(users[g]) ELSE users[g]]
        /\ held' = [v \in Workers |-> IF held[v].node = fd THEN [held[v] EXCEPT !.node = NoFd] ELSE held[v]]
    BY <1>3 DEF erase_user
  <2>2. MapsOK'
    <3>1. \A g \in DOMAIN users : users[g] \in Users /\ change_to_menu_mode(users[g]) \in Users
      BY UserType DEF TypeOK, MapsOK
    <3>2. DOMAIN users' \subseteq Fds /\ users' \in [DOMAIN users' -> Users]
      BY <2>1, <3>1 DEF TypeOK, MapsOK
    <3>3. DOMAIN table \subseteq Logins /\ table \in [DOMAIN table -> Fds]
      <4>1. DOMAIN login_to_socket \subseteq Logins /\ login_to_socket \in [DOMAIN login_to_socket -> Fds]
        BY DEF TypeOK, MapsOK
      <4>2. /\ DOMAIN Erase(login_to_socket, users[fd].login) = DOMAIN login_to_socket \ {users[fd].login}
            /\ Erase(login_to_socket, users[fd].login) \in [DOMAIN login_to_socket \ {users[fd].login} -> Fds]
        BY <4>1, EraseType
      <4> QED
        BY <4>1, <4>2 DEF TableWithout
    <3> QED
      BY <2>1, <3>2, <3>3 DEF MapsOK
  <2>3. WorldOK'
    BY <1>1 DEF TypeOK, WorldOK
  <2>4. /\ held' \in [Workers -> Copies]
        /\ \A v \in Workers : held'[v].socket = held[v].socket
    <3>1. \A c \in Copies : [c EXCEPT !.node = NoFd] \in Copies /\ [c EXCEPT !.node = NoFd].socket = c.socket
      BY DEF Copies, FdOrNone
    <3> QED
      BY <2>1, <3>1 DEF TypeOK, LocalsOK
  <2>5. LocalsOK'
    BY <1>1, <2>4, FinishType, NoMessages DEF TypeOK
  <2> QED
    BY <2>2, <2>3, <2>5 DEF TypeOK
<1> QED
  BY <1>2, <1>3

LEMMA SameMaps == ASSUME MapsOK, UNCHANGED maps PROVE MapsOK'
BY DEF MapsOK, maps

LEMMA SameWorld == ASSUME WorldOK, UNCHANGED world PROVE WorldOK'
BY DEF WorldOK, world

(* Records are replaced by records, nobody comes or goes. *)
LEMMA SameUsers ==
  ASSUME MapsOK, UNCHANGED login_to_socket, users' \in [DOMAIN users -> Users]
  PROVE MapsOK'
BY DEF MapsOK

LEMMA OneUser ==
  ASSUME MapsOK, UNCHANGED login_to_socket, NEW fd \in DOMAIN users, NEW u \in Users,
         users' = [users EXCEPT ![fd] = u]
  PROVE MapsOK'
BY DEF MapsOK

LEMMA AuthorizationType ==
  ASSUME TypeOK, NEW w \in Workers,
         authorization(w) \/ reject_push(w) \/ reject_close(w) \/ no_case(w)
  PROVE TypeOK'
<1>1. CASE authorization(w)
  <2> DEFINE point == IF From(w) \in DOMAIN users /\ Authorized(users[From(w)], cmd[w].action)
                      THEN "handle" ELSE "reject"
  <2>1. pc[w] = "popped" /\ Goto(w, point) /\ UNCHANGED <<maps, world, held>>
    BY <1>1 DEF authorization
  <2>2. LocalsOK'
    BY <2>1, GotoSame DEF TypeOK
  <2> QED
    BY <2>1, <2>2, SameMaps, SameWorld DEF TypeOK
<1>2. CASE reject_push(w)
  <2>1. pc[w] = "reject" /\ Goto(w, "close") /\ UNCHANGED <<maps, pending, sockets, win, held>>
    BY <1>2 DEF reject_push
  <2>2. Command("delete_user", From(w), NoLogin) \in Commands
    BY <2>1, CommandType DEF TypeOK, LocalsOK, From, Commands, LoginOrNone
  <2>3. WorldOK'
    BY <1>2, <2>1, <2>2, AppendProperties DEF reject_push, TypeOK, WorldOK
  <2>4. LocalsOK'
    BY <2>1, GotoSame DEF TypeOK
  <2> QED
    BY <2>1, <2>3, <2>4, SameMaps DEF TypeOK
<1>3. CASE reject_close(w)
  <2>1. pc[w] = "close" /\ Finish(w, <<>>) /\ UNCHANGED <<maps, commands, pending, held>>
    BY <1>3 DEF reject_close
  <2>2. WorldOK'
    BY <1>3, <2>1, FreshType DEF reject_close, TypeOK, WorldOK
  <2>3. LocalsOK'
    BY <2>1, FinishSame, NoMessages DEF TypeOK
  <2> QED
    BY <2>1, <2>2, <2>3, SameMaps DEF TypeOK
<1>4. CASE no_case(w)
  <2>1. pc[w] = "handle" /\ Finish(w, <<>>) /\ UNCHANGED <<maps, world, held>>
    BY <1>4 DEF no_case, At
  <2>2. LocalsOK'
    BY <2>1, FinishSame, NoMessages DEF TypeOK
  <2> QED
    BY <2>1, <2>2, SameMaps, SameWorld DEF TypeOK
<1> QED
  BY <1>1, <1>2, <1>3, <1>4

(* A step that only ends the handler or moves it to the database. *)
LEMMA ControlStep ==
  ASSUME TypeOK, NEW w \in Workers, pc[w] # "idle", UNCHANGED <<maps, world, held>>,
         \/ \E messages \in Seq(Messages) : Finish(w, messages)
         \/ cmd[w].action # "communication_request" /\ Goto(w, "checked")
  PROVE TypeOK'
<1>1. LocalsOK'
  BY FinishSame, GotoSame DEF TypeOK
<1> QED
  BY <1>1, SameMaps, SameWorld DEF TypeOK

LEMMA AccountType ==
  ASSUME TypeOK, NEW w \in Workers,
         \/ authentication_lookup(w) \/ authentication_finish(w)
         \/ registration(w) \/ leave_from_account(w)
  PROVE TypeOK'
<1>0. /\ pc[w] # "idle" /\ LocalsOK /\ MapsOK
      /\ Reply(w, "authentication_error") \in Seq(Messages)
      /\ Reply(w, "authentication_successful") \in Seq(Messages)
      /\ Reply(w, "registration_reply") \in Seq(Messages)
      /\ From(w) \in Fds /\ cmd[w].login \in LoginOrNone
  <2>1. pc[w] # "idle" /\ LocalsOK /\ MapsOK
    BY DEF TypeOK, authentication_lookup, authentication_finish, registration, leave_from_account, At
  <2> QED
    BY <2>1, ReplyType, ResponseNames
<1>1. CASE authentication_lookup(w)
  BY <1>0, <1>1, ControlStep DEF authentication_lookup, At
<1>2. CASE authentication_finish(w)
  <2>1. UNCHANGED <<world, held>>
    BY <1>2 DEF authentication_finish
  <2>2. LocalsOK'
    BY <1>0, <1>2, FinishSame DEF authentication_finish
  <2>3. MapsOK'
    <3>1. CASE UNCHANGED maps
      BY <3>1, <1>0, SameMaps
    <3>2. CASE /\ From(w) \in DOMAIN users
               /\ users' = [users EXCEPT ![From(w)] = set_db_data(@, cmd[w].login)]
               /\ login_to_socket' = Emplace(login_to_socket, cmd[w].login, From(w))
      <4>1. cmd[w].login \in Logins
        BY <1>0, <1>2 DEF LocalsOK, Commands, authentication_finish, At
      <4>2. users' \in [DOMAIN users -> Users]
        BY <1>0, <3>2, UserType DEF MapsOK
      <4>3. /\ DOMAIN login_to_socket' = DOMAIN login_to_socket \cup {cmd[w].login}
            /\ login_to_socket' \in [DOMAIN login_to_socket \cup {cmd[w].login} -> Fds]
        <5>1. login_to_socket \in [DOMAIN login_to_socket -> Fds]
          BY <1>0 DEF MapsOK
        <5>2. From(w) \in Fds
          BY <1>0
        <5>3. /\ DOMAIN Emplace(login_to_socket, cmd[w].login, From(w)) = DOMAIN login_to_socket \cup {cmd[w].login}
              /\ Emplace(login_to_socket, cmd[w].login, From(w)) \in [DOMAIN login_to_socket \cup {cmd[w].login} -> Fds]
          BY <5>1, <5>2, EmplaceType
        <5> QED
          BY <3>2, <5>3
      <4> QED
        BY <1>0, <4>1, <4>2, <4>3 DEF MapsOK
    <3> QED
      BY <1>2, <3>1, <3>2 DEF authentication_finish
  <2> QED
    BY <2>1, <2>2, <2>3, SameWorld DEF TypeOK
<1>3. CASE registration(w)
  BY <1>0, <1>3, ControlStep, NoMessages DEF registration, At
<1>4. CASE leave_from_account(w)
  <2>1. UNCHANGED <<world, held>> /\ Finish(w, <<>>)
    BY <1>4 DEF leave_from_account
  <2>2. LocalsOK'
    BY <1>0, <2>1, FinishSame, NoMessages
  <2>3. CASE From(w) \notin DOMAIN users
    BY <1>0, <1>4, <2>1, <2>2, <2>3, SameMaps, SameWorld DEF leave_from_account, TypeOK
  <2>4. CASE From(w) \in DOMAIN users
    <3>1. /\ DOMAIN login_to_socket' = DOMAIN login_to_socket \ {users[From(w)].login}
          /\ login_to_socket' \in [DOMAIN login_to_socket \ {users[From(w)].login} -> Fds]
      <4>1. login_to_socket \in [DOMAIN login_to_socket -> Fds]
        BY <1>0 DEF MapsOK
      <4>2. login_to_socket' = Erase(login_to_socket, users[From(w)].login)
        BY <1>4, <2>4 DEF leave_from_account
      <4> QED
        BY <4>1, <4>2, EraseType
    <3>2. users' \in [DOMAIN users -> Users]
      BY <1>0, <1>4, <2>4, UserType DEF leave_from_account, MapsOK
    <3>3. MapsOK'
      BY <1>0, <3>1, <3>2 DEF MapsOK
    <3> QED
      BY <2>1, <2>2, <3>3, SameWorld DEF TypeOK
  <2> QED
    BY <2>3, <2>4
<1> QED
  BY <1>1, <1>2, <1>3, <1>4

LEMMA DatabaseType ==
  ASSUME TypeOK, NEW w \in Workers,
         \/ get_friends_list(w) \/ get_friends_requests(w)
         \/ accept_friendship(w) \/ discard_friendship(w) \/ make_friend_request(w)
  PROVE TypeOK'
<1> DEFINE Lists == {"friends_list", "friends_requests", "friends_reply"}
<1>1. PICK action \in FriendMoves, absent \in {<<>>, Reply(w, "friends_reply")}, replies \in SUBSET Lists :
        database_command(w, action, absent, replies)
  BY DEF get_friends_list, get_friends_requests, accept_friendship, discard_friendship,
         make_friend_request, list_command, FriendMoves, ListMoves
<1>2. /\ pc[w] # "idle" /\ cmd[w].action # "communication_request"
      /\ UNCHANGED <<maps, world, held>>
  BY <1>1 DEF database_command, FriendMoves, ListMoves
<1>3. /\ \A response \in replies : Reply(w, response) \in Seq(Messages)
      /\ absent \in Seq(Messages)
  BY <1>2, ReplyType, ResponseNames, NoMessages DEF TypeOK
<1> QED
  BY <1>1, <1>2, <1>3, ControlStep DEF database_command

(* The request: the sender waits, and the copies are of real connections.  *)
LEMMA StartType ==
  ASSUME TypeOK, NEW w \in Workers, request_start(w)
  PROVE TypeOK'
<1> DEFINE fd == From(w)
           reciever == Find(cmd[w].login)
<1>0. /\ pc[w] # "idle" /\ LocalsOK /\ MapsOK /\ UNCHANGED world
      /\ Reply(w, "dialog_closed") \in Seq(Messages)
      /\ fd \in Fds /\ cmd[w].login \in LoginOrNone
  <2>1. pc[w] # "idle" /\ LocalsOK /\ MapsOK /\ UNCHANGED world
    BY DEF TypeOK, request_start, At
  <2> QED
    BY <2>1, ReplyType, ResponseNames
<1>1. CASE \/ fd \notin DOMAIN users /\ Finish(w, <<>>) /\ UNCHANGED <<maps, held>>
           \/ fd \in DOMAIN users /\ ~Free(reciever)
              /\ Finish(w, Reply(w, "dialog_closed")) /\ UNCHANGED <<maps, held>>
  BY <1>0, <1>1, ControlStep, NoMessages
<1>2. CASE /\ fd \in DOMAIN users /\ Free(reciever)
           /\ users' = [users EXCEPT ![fd] = change_to_response_waiting_mode(@, cmd[w].login)]
           /\ held' = [held EXCEPT ![w] = [login |-> users[fd].login, peer |-> users[reciever].login,
                                           socket |-> reciever, node |-> fd]]
           /\ Goto(w, "checked") /\ UNCHANGED login_to_socket
  <2>1. reciever \in DOMAIN users
    BY <1>2, FindType DEF Find, Free
  <2>2. users[fd] \in Users /\ users[reciever] \in Users /\ reciever \in Fds
    BY <1>0, <1>2, <2>1 DEF MapsOK
  <2>3. MapsOK'
    BY <1>0, <1>2, <2>2, OneUser, UserType
  <2>4. [login |-> users[fd].login, peer |-> users[reciever].login,
         socket |-> reciever, node |-> fd] \in Copies
    BY <1>0, <2>2 DEF Copies, Users, FdOrNone
  <2>5. held' \in [Workers -> Copies] /\ held'[w].socket \in Fds
        /\ \A v \in Workers \ {w} : held'[v].socket = held[v].socket
    BY <1>0, <1>2, <2>2, <2>4 DEF LocalsOK
  <2>6. LocalsOK'
    BY <1>0, <1>2, <2>5, GotoType
  <2> QED
    BY <1>0, <2>3, <2>6, SameWorld DEF TypeOK
<1> QED
  BY <1>1, <1>2 DEF request_start

LEMMA AnswerToRequestType ==
  ASSUME TypeOK, NEW w \in Workers, request_denied(w) \/ request_forward(w)
  PROVE TypeOK'
<1>0. /\ pc[w] # "idle" /\ LocalsOK /\ MapsOK /\ UNCHANGED <<login_to_socket, world>>
      /\ At(w, "checked", "communication_request") /\ Drop(w)
      /\ Reply(w, "session_establishment_error") \in Seq(Messages)
      /\ Reply(w, "dialog_closed") \in Seq(Messages)
  <2>1. /\ pc[w] # "idle" /\ LocalsOK /\ MapsOK /\ UNCHANGED <<login_to_socket, world>>
        /\ At(w, "checked", "communication_request") /\ Drop(w)
    BY DEF TypeOK, request_denied, request_forward, At
  <2> QED
    BY <2>1, ReplyType, ResponseNames
<1>1. held' \in [Workers -> Copies] /\ \A v \in Workers \ {w} : held'[v].socket = held[v].socket
  BY <1>0 DEF Drop, LocalsOK, NoCopies, Copies, FdOrNone, LoginOrNone
<1>2. ASSUME NEW messages \in Seq(Messages), Finish(w, messages),
             UNCHANGED users \/ users' \in [DOMAIN users -> Users]
      PROVE TypeOK'
  <2>1. LocalsOK'
    BY <1>0, <1>1, <1>2, FinishType
  <2>2. MapsOK'
    BY <1>0, <1>2, SameUsers DEF MapsOK
  <2> QED
    BY <1>0, <2>1, <2>2, SameWorld DEF TypeOK
<1>3. \A g \in DOMAIN users : users[g] \in Users /\ change_to_menu_mode(users[g]) \in Users
  BY <1>0, UserType DEF MapsOK
<1>4. CASE request_denied(w)
  BY <1>0, <1>2, <1>3, <1>4 DEF request_denied
<1>5. CASE request_forward(w)
  <2> DEFINE sender == Find(held[w].login)
             reciever == Find(held[w].peer)
             prompt == <<Message(held[w].socket, "communication_request_from_server", held[w].login)>>
  <2>1. prompt \in Seq(Messages)
    <3>1. held[w].socket \in Fds /\ held[w].login \in LoginOrNone
      BY <1>0 DEF LocalsOK, Copies
    <3>2. Message(held[w].socket, "communication_request_from_server", held[w].login) \in Messages
      BY <3>1, MessagesType, ResponseNames
    <3> QED
      BY <3>2
  <2>2. sender # NoFd => sender \in DOMAIN users
    BY FindType DEF Find
  <2>3. \/ Finish(w, <<>>) /\ UNCHANGED users
        \/ /\ sender # NoFd
           /\ users' = [users EXCEPT ![sender] = change_to_menu_mode(@)]
           /\ Finish(w, Reply(w, "dialog_closed"))
        \/ Finish(w, prompt) /\ UNCHANGED users
    BY <1>5 DEF request_forward
  <2>4. users' = [users EXCEPT ![sender] = change_to_menu_mode(@)] /\ sender # NoFd
          => users' \in [DOMAIN users -> Users]
    BY <1>0, <1>3, <2>2 DEF MapsOK
  <2> QED
    BY <1>0, <1>2, <2>1, <2>3, <2>4, NoMessages
<1> QED
  BY <1>4, <1>5

(* Handlers that rewrite records in place and send what they collected.    *)
LEMMA RecordStep ==
  ASSUME TypeOK, NEW w \in Workers, pc[w] # "idle", UNCHANGED <<login_to_socket, world, held>>,
         NEW messages \in Seq(Messages), Finish(w, messages),
         UNCHANGED users \/ users' \in [DOMAIN users -> Users]
  PROVE TypeOK'
<1>1. LocalsOK'
  BY FinishSame DEF TypeOK
<1>2. MapsOK'
  BY SameUsers DEF TypeOK, MapsOK
<1> QED
  BY <1>1, <1>2, SameWorld DEF TypeOK

LEMMA ResponseType ==
  ASSUME TypeOK, NEW w \in Workers, communication_response(w)
  PROVE TypeOK'
<1> DEFINE fd == From(w)
           reciever == Find(cmd[w].login)
           both == <<Message(reciever, "session_accepted", NoLogin), Message(fd, "session_accepted", NoLogin)>>
           refusal == <<Message(reciever, "session_refused", NoLogin)>>
           answered == [users EXCEPT ![fd] = change_to_dialogue_mode(@, users[reciever].login)]
<1>0. /\ pc[w] # "idle" /\ LocalsOK /\ MapsOK /\ UNCHANGED <<login_to_socket, world, held>>
      /\ Reply(w, "session_establishment_error") \in Seq(Messages)
      /\ Reply(w, "dialog_closed") \in Seq(Messages)
      /\ fd \in Fds
  <2>1. pc[w] # "idle" /\ LocalsOK /\ MapsOK /\ UNCHANGED <<login_to_socket, world, held>>
    BY DEF TypeOK, communication_response
  <2> QED
    BY <2>1, ReplyType, ResponseNames
<1>1. \A g \in DOMAIN users : /\ users[g] \in Users /\ g \in Fds
                             /\ change_to_menu_mode(users[g]) \in Users
                             /\ keep_correspondent_in_dialogue(users[g]) \in Users
  BY <1>0, UserType DEF MapsOK
<1>2. reciever # NoFd => reciever \in DOMAIN users
  BY FindType DEF Find
<1>3. reciever # NoFd => both \in Seq(Messages) /\ refusal \in Seq(Messages)
  <2> SUFFICES ASSUME reciever # NoFd PROVE both \in Seq(Messages) /\ refusal \in Seq(Messages)
    OBVIOUS
  <2>1. /\ Message(reciever, "session_accepted", NoLogin) \in Messages
        /\ Message(fd, "session_accepted", NoLogin) \in Messages
        /\ Message(reciever, "session_refused", NoLogin) \in Messages
    BY <1>0, <1>1, <1>2, MessagesType, ResponseNames DEF LoginOrNone
  <2> QED
    BY <2>1
<1>4. \/ Finish(w, <<>>) /\ UNCHANGED users
      \/ Finish(w, Reply(w, "dialog_closed")) /\ UNCHANGED users
      \/ Finish(w, Reply(w, "session_establishment_error")) /\ UNCHANGED users
      \/ /\ fd \in DOMAIN users /\ reciever # NoFd
         /\ users' = [answered EXCEPT ![reciever] = keep_correspondent_in_dialogue(@)]
         /\ Finish(w, both)
      \/ /\ reciever # NoFd
         /\ users' = [users EXCEPT ![reciever] = change_to_menu_mode(@)]
         /\ Finish(w, refusal)
  BY DEF communication_response
<1>5. CASE \/ Finish(w, <<>>) /\ UNCHANGED users
           \/ Finish(w, Reply(w, "dialog_closed")) /\ UNCHANGED users
           \/ Finish(w, Reply(w, "session_establishment_error")) /\ UNCHANGED users
  BY <1>0, <1>5, RecordStep, NoMessages
<1>6. CASE /\ fd \in DOMAIN users /\ reciever # NoFd
           /\ users' = [answered EXCEPT ![reciever] = keep_correspondent_in_dialogue(@)]
           /\ Finish(w, both)
  <2>1. change_to_dialogue_mode(users[fd], users[reciever].login) \in Users
    BY <1>1, <1>2, <1>6, UserType DEF Users
  <2>2. answered \in [DOMAIN users -> Users]
    BY <1>0, <1>6, <2>1 DEF MapsOK
  <2>3. keep_correspondent_in_dialogue(answered[reciever]) \in Users
    BY <1>2, <1>6, <2>2, UserType
  <2>4. users' \in [DOMAIN users -> Users]
    BY <1>6, <2>2, <2>3
  <2> QED
    BY <1>0, <1>3, <1>6, <2>4, RecordStep
<1>7. CASE /\ reciever # NoFd
           /\ users' = [users EXCEPT ![reciever] = change_to_menu_mode(@)]
           /\ Finish(w, refusal)
  <2>1. users' \in [DOMAIN users -> Users]
    BY <1>0, <1>1, <1>2, <1>7 DEF MapsOK
  <2> QED
    BY <1>0, <1>3, <1>7, <2>1, RecordStep
<1> QED
  BY <1>4, <1>5, <1>6, <1>7

LEMMA MessageType ==
  ASSUME TypeOK, NEW w \in Workers, send_message(w)
  PROVE TypeOK'
<1> DEFINE fd == From(w)
           corr == Find(users[fd].correspondent_login)
           copies == <<Message(corr, "new_message", users[fd].login), Message(fd, "new_message", users[fd].login)>>
<1>0. /\ pc[w] # "idle" /\ LocalsOK /\ MapsOK /\ UNCHANGED <<maps, world, held>>
      /\ Reply(w, "no_action") \in Seq(Messages)
      /\ fd \in Fds
  <2>1. pc[w] # "idle" /\ LocalsOK /\ MapsOK /\ UNCHANGED <<maps, world, held>>
    BY DEF TypeOK, send_message, At
  <2> QED
    BY <2>1, ReplyType, ResponseNames
<1>1. fd \in DOMAIN users /\ corr # NoFd => copies \in Seq(Messages)
  <2> SUFFICES ASSUME fd \in DOMAIN users, corr # NoFd PROVE copies \in Seq(Messages)
    OBVIOUS
  <2>1. corr \in Fds /\ users[fd].login \in LoginOrNone
    BY <1>0, FindType DEF Find, MapsOK, Users
  <2>2. /\ Message(corr, "new_message", users[fd].login) \in Messages
        /\ Message(fd, "new_message", users[fd].login) \in Messages
    BY <1>0, <2>1, MessagesType, ResponseNames
  <2> QED
    BY <2>2
<1>2. \/ Finish(w, <<>>) \/ Finish(w, Reply(w, "no_action"))
      \/ fd \in DOMAIN users /\ corr # NoFd /\ Finish(w, copies)
  BY DEF send_message
<1> QED
  BY <1>0, <1>1, <1>2, ControlStep, NoMessages

LEMMA ExitType ==
  ASSUME TypeOK, NEW w \in Workers, exit_dialog(w)
  PROVE TypeOK'
<1> DEFINE fd == From(w)
           corr == Find(users[fd].correspondent_login)
           closing == <<Message(corr, "dialog_closed", NoLogin)>>
<1>0. /\ pc[w] # "idle" /\ LocalsOK /\ MapsOK /\ UNCHANGED <<login_to_socket, world, held>>
  BY DEF TypeOK, exit_dialog, At
<1>1. \A g \in DOMAIN users : users[g] \in Users /\ change_to_menu_mode(users[g]) \in Users
  BY <1>0, UserType DEF MapsOK
<1>2. corr # NoFd => closing \in Seq(Messages)
  <2> SUFFICES ASSUME corr # NoFd PROVE closing \in Seq(Messages)
    OBVIOUS
  <2>1. Message(corr, "dialog_closed", NoLogin) \in Messages
    BY <1>0, FindType, MessagesType, ResponseNames DEF Find, MapsOK, LoginOrNone
  <2> QED
    BY <2>1
<1>3. /\ UNCHANGED users \/ users' \in [DOMAIN users -> Users]
      /\ Finish(w, <<>>) \/ (corr # NoFd /\ Finish(w, closing))
  BY <1>0, <1>1 DEF exit_dialog, MapsOK
<1> QED
  BY <1>0, <1>2, <1>3, RecordStep, NoMessages

LEMMA SendType ==
  ASSUME TypeOK, NEW w \in Workers, SendsOut(w), win' \in [Fds -> Windows]
  PROVE TypeOK'
<1>1. /\ pc[w] = "send" /\ UNCHANGED <<maps, commands, pending, sockets, held>>
      /\ out[w] \in Seq(Messages) /\ out[w] # <<>> /\ Finish(w, Tail(out[w]))
  BY DEF TypeOK, LocalsOK, SendsOut
<1>2. Tail(out[w]) \in Seq(Messages)
  BY <1>1
<1>3. WorldOK'
  BY <1>1 DEF TypeOK, WorldOK
<1>4. LocalsOK'
  BY <1>1, <1>2, FinishSame DEF TypeOK
<1> QED
  BY <1>1, <1>3, <1>4, SameMaps DEF TypeOK

LEMMA EnvironmentType ==
  ASSUME TypeOK, Environment
  PROVE TypeOK'
<1>1. ASSUME UNCHANGED locals, UNCHANGED maps, WorldOK' PROVE TypeOK'
  BY <1>1, SameMaps DEF TypeOK, LocalsOK, locals, At
<1>2. ASSUME NEW fd \in Fds, Accept(fd) PROVE TypeOK'
  <2>1. Command("make_new_user", fd, NoLogin) \in Commands
    BY CommandType DEF LoginOrNone
  <2>2. WorldOK'
    BY <1>2, <2>1 DEF TypeOK, WorldOK, Accept
  <2> QED
    BY <1>1, <1>2, <2>2 DEF Accept
<1>3. ASSUME NEW fd \in Fds, Disconnect(fd) PROVE TypeOK'
  <2>1. Command("delete_user", fd, NoLogin) \in Commands
    BY CommandType DEF LoginOrNone
  <2>2. WorldOK'
    BY <1>3, <2>1, FreshType DEF TypeOK, WorldOK, Disconnect
  <2> QED
    BY <1>1, <1>3, <2>2 DEF Disconnect
<1>4. ASSUME NEW c \in pending, PushPending(c) PROVE TypeOK'
  <2>1. WorldOK'
    BY <1>4 DEF TypeOK, WorldOK, PushPending
  <2> QED
    BY <1>1, <1>4, <2>1 DEF PushPending
<1>5. ASSUME NEW fd \in Fds, NEW action \in Moves, NEW login \in LoginOrNone, ClientSend(fd, action, login)
      PROVE TypeOK'
  <2>1. action = "authentication" => login \in Logins
    BY <1>5, WorkAssumption DEF ClientSend, MayName
  <2>2. Command(action, fd, login) \in Commands
    BY <2>1, CommandType, WorkAssumption
  <2>3. WorldOK'
    BY <1>5, <2>2, SendingType DEF TypeOK, WorldOK, ClientSend
  <2> QED
    BY <1>1, <1>5, <2>3 DEF ClientSend
<1>6. ASSUME NEW fd \in Fds, set_make_request_mode(fd) PROVE TypeOK'
  <2>1. Show(win[fd], "request_form") \in Windows
    BY DEF TypeOK, WorldOK, Show, Windows, Dialogs, LoginOrNone
  <2>2. WorldOK'
    BY <1>6, <2>1 DEF TypeOK, WorldOK, set_make_request_mode
  <2> QED
    BY <1>1, <1>6, <2>2 DEF set_make_request_mode
<1> QED
  BY <1>2, <1>3, <1>4, <1>5, <1>6 DEF Environment

LEMMA ServesType ==
  ASSUME TypeOK, NEW w \in Workers, Serves(w), win' \in [Fds -> Windows]
  PROVE TypeOK'
BY MakeType, DeleteType, AuthorizationType, AccountType, DatabaseType, StartType,
   AnswerToRequestType, ResponseType, MessageType, ExitType, SendType DEF Serves, Work

LEMMA StepType == ASSUME TypeOK, Step, win' \in [Fds -> Windows] PROVE TypeOK'
<1>1. CASE UNCHANGED server
  BY <1>1 DEF server, TypeOK, MapsOK, WorldOK, LocalsOK, At
<1> QED
  BY <1>1, ServesType, PopType, EnvironmentType DEF Step

(* A client sees only what is a message. *)
LEMMA WindowsType == TypeOK /\ [Next]_vars => win' \in [Fds -> Windows]
<1> SUFFICES ASSUME TypeOK, [Next]_vars PROVE win' \in [Fds -> Windows]
  OBVIOUS
<1>1. CASE UNCHANGED win
  BY <1>1 DEF TypeOK, WorldOK
<1>2. ASSUME NEW w \in Workers, delete_user(w) PROVE win' \in [Fds -> Windows]
  BY <1>2, ReceivedType DEF TypeOK, WorldOK, delete_user, send_command, LoginOrNone
<1>3. ASSUME NEW w \in Workers, Send(w) PROVE win' \in [Fds -> Windows]
  <2>1. Head(out[w]) \in Messages
    BY <1>3 DEF TypeOK, LocalsOK, Send
  <2> QED
    BY <1>3, <2>1, ReceivedType DEF TypeOK, WorldOK, Send, send_command, Messages
<1>4. ASSUME NEW w \in Workers, Work(w) \/ reject_close(w) PROVE win' \in [Fds -> Windows]
  <2>1. TypeOK'
    BY <1>4, MakeType, AuthorizationType, AccountType, DatabaseType, StartType,
       AnswerToRequestType, ResponseType, MessageType, ExitType DEF Work
  <2> QED
    BY <2>1 DEF TypeOK, WorldOK
<1>5. Environment => win' \in [Fds -> Windows]
  BY EnvironmentType DEF TypeOK, WorldOK
<1> QED
  BY <1>1, <1>2, <1>3, <1>4, <1>5 DEF Next, Handle, Pop, vars

LEMMA NextType == TypeOK /\ [Next]_vars => TypeOK'
BY StepType, WindowsType, NextIsStep

(* The shared maps, the queue, the windows and the locals of the workers   *)
(* are well formed in every reachable state: the logins of the table are   *)
(* real ones, a worker that executes a command has it, and the copied      *)
(* socket a request is forwarded to is the receiver's                      *)
(* (User_work, Server_Work::internal_decoding).                            *)
THEOREM Invariance == Spec => []TypeOK
BY InitType, NextType, PTL DEF Spec
--------------------------------------------------------------------------------
(* Consent *)

(* Only an answer puts anybody into a dialogue. *)
LEMMA OnlyAnswers ==
  ASSUME TypeOK, Step, NEW fd \in DOMAIN users \cap DOMAIN users',
         users[fd].status # "in_dialogue", users'[fd].status = "in_dialogue"
  PROVE \E w \in Workers : communication_response(w)
<1>0. \A g \in DOMAIN users : /\ users[g] \in Users
                             /\ change_to_menu_mode(users[g]).status = "in_menu"
                             /\ log_off(users[g]).status = "in_menu"
                             /\ \A login \in LoginOrNone :
                                  /\ set_db_data(users[g], login).status = users[g].status
                                  /\ change_to_response_waiting_mode(users[g], login).status = "in_wait"
  BY DEF TypeOK, MapsOK, Users, change_to_menu_mode, log_off, New_user, set_db_data,
         change_to_response_waiting_mode
<1>1. users'[fd] # users[fd]
  OBVIOUS
<1>2. ~(UNCHANGED server) /\ ~Environment /\ \A w \in Workers : ~Pop(w) /\ ~SendsOut(w)
  BY <1>1 DEF server, Environment, Accept, Disconnect, PushPending, ClientSend, set_make_request_mode,
              Pop, SendsOut, maps
<1>3. PICK w \in Workers : Serves(w) /\ ~SendsOut(w)
  BY <1>2 DEF Step
<1>4. pc[w] # "idle" => cmd[w].login \in LoginOrNone
  BY DEF TypeOK, LocalsOK, Commands
<1>5. ~make_new_user(w)
  BY <1>1 DEF make_new_user, Emplace
<1>6. ~erase_user(w)
  BY <1>0, <1>1 DEF erase_user, maps
<1>7. ~authorization(w) /\ ~reject_push(w) /\ ~reject_close(w) /\ ~no_case(w)
  BY <1>1 DEF authorization, reject_push, reject_close, no_case, maps
<1>8. ~authentication_lookup(w) /\ ~registration(w) /\ ~send_message(w)
  BY <1>1 DEF authentication_lookup, registration, send_message, maps
<1>9. ~get_friends_list(w) /\ ~get_friends_requests(w) /\ ~accept_friendship(w)
      /\ ~discard_friendship(w) /\ ~make_friend_request(w)
  BY <1>1 DEF get_friends_list, get_friends_requests, accept_friendship, discard_friendship,
              make_friend_request, list_command, database_command, maps
<1>10. ~authentication_finish(w)
  BY <1>0, <1>1, <1>4 DEF authentication_finish, At, maps, TypeOK, MapsOK
<1>11. ~leave_from_account(w)
  BY <1>0, <1>1 DEF leave_from_account, maps, TypeOK, MapsOK
<1>12. ~request_start(w)
  BY <1>0, <1>1, <1>4 DEF request_start, At, maps, TypeOK, MapsOK
<1>13. ~request_denied(w)
  BY <1>0, <1>1 DEF request_denied
<1>14. ~request_forward(w)
  BY <1>0, <1>1 DEF request_forward, TypeOK, MapsOK
<1>15. ~exit_dialog(w)
  BY <1>0, <1>1 DEF exit_dialog, TypeOK, MapsOK
<1> QED
  BY <1>3, <1>5, <1>6, <1>7, <1>8, <1>9, <1>10, <1>11, <1>12, <1>13, <1>14, <1>15 DEF Serves, Work

(* And an answer puts only its two ends into one. *)
LEMMA AnswerNeedsConsent ==
  ASSUME TypeOK, NEW w \in Workers, communication_response(w),
         NEW fd \in DOMAIN users \cap DOMAIN users',
         users[fd].status # "in_dialogue", users'[fd].status = "in_dialogue"
  PROVE LET partner == users'[fd].correspondent_login IN
          AwaitsAnswerOf(fd, partner) \/ SaidYesTo(fd, partner)
<1> DEFINE d == From(w)
           reciever == Find(cmd[w].login)
           answered == [users EXCEPT ![d] = change_to_dialogue_mode(@, users[reciever].login)]
           partner == users'[fd].correspondent_login
<1>0. /\ users \in [DOMAIN users -> Users]
      /\ reciever # NoFd => reciever \in DOMAIN users
  BY FindType DEF TypeOK, MapsOK, Find
<1>1. users' # users
  OBVIOUS
<1>2. ~(reciever # NoFd /\ users' = [users EXCEPT ![reciever] = change_to_menu_mode(@)])
  BY <1>0 DEF change_to_menu_mode, Users
<1>3. /\ d \in DOMAIN users /\ reciever # NoFd /\ AwaitsAnswerOf(reciever, users[d].login)
      /\ cmd[w].action = "response_yes"
      /\ users' = [answered EXCEPT ![reciever] = keep_correspondent_in_dialogue(@)]
  BY <1>1, <1>2 DEF communication_response
<1>4. reciever \in DOMAIN users /\ users[d] \in Users /\ users[reciever] \in Users
  BY <1>0, <1>3
<1>5. CASE fd = reciever
  <2>1. users[reciever].correspondent_login = users[d].login /\ users[reciever].status = "in_wait"
    BY <1>3 DEF AwaitsAnswerOf
  <2>2. partner = answered[reciever].correspondent_login
    BY <1>0, <1>3, <1>4, <1>5 DEF keep_correspondent_in_dialogue, change_to_dialogue_mode, Users
  <2>3. answered[reciever].correspondent_login = users[d].login
    <3>1. CASE reciever = d
      BY <1>3, <1>4, <3>1 DEF change_to_dialogue_mode, Users
    <3>2. CASE reciever # d
      BY <1>4, <2>1, <3>2
    <3> QED
      BY <3>1, <3>2
  <2> QED
    BY <1>5, <2>1, <2>2, <2>3 DEF AwaitsAnswerOf
<1>6. CASE fd # reciever /\ fd = d
  <2>1. partner = users[reciever].login
    BY <1>0, <1>3, <1>4, <1>6 DEF change_to_dialogue_mode, Users
  <2>2. SaidYesTo(fd, users[reciever].login)
    BY <1>3, <1>6 DEF SaidYesTo, From
  <2> QED
    BY <2>1, <2>2
<1>7. CASE fd # reciever /\ fd # d
  BY <1>0, <1>3, <1>7
<1> QED
  BY <1>5, <1>6, <1>7

(* What DialogueByConsent says of one step. *)
Consent ==
  \A fd \in DOMAIN users \cap DOMAIN users' :
    users[fd].status # "in_dialogue" /\ users'[fd].status = "in_dialogue" =>
      LET partner == users'[fd].correspondent_login IN
        AwaitsAnswerOf(fd, partner) \/ SaidYesTo(fd, partner)

LEMMA StepConsent == TypeOK /\ Step => Consent
BY OnlyAnswers, AnswerNeedsConsent DEF Consent

(* Whatever clients send and however workers interleave, nobody is put     *)
(* into a dialogue who does not wait for that partner or has not just said *)
(* yes to him (communication_response_processing re-checks the status of   *)
(* the waiting user under the lock).                                       *)
THEOREM DialogueNeedsConsent == Spec => DialogueByConsent
<1>1. TypeOK /\ [Next]_vars => [Consent]_vars
  BY StepConsent, NextIsStep
<1> QED
  BY <1>1, Invariance, PTL DEF Spec, DialogueByConsent, Consent
================================================================================
