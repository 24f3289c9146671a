------------------------- MODULE UserWork_table_proofs -------------------------
(***************************************************************************)
(* The table of logins and the records, for any number of connections,     *)
(* workers, logins and queued commands.  Nothing is asked of clients, of   *)
(* the kernel or of the database.                                          *)
(***************************************************************************)
EXTENDS UserWork_proofs

(* An idle worker has no command, and past the authorization it has a      *)
(* user's command: internal commands are over in one step.                 *)
WorkersAgree ==
  \A w \in Workers :
    /\ pc[w] = "idle" => cmd[w] = NoCommand
    /\ pc[w] \notin {"idle", "popped"} => cmd[w].action \in UserMoves
--------------------------------------------------------------------------------
(* Frames: what a worker's step leaves alone. *)

(* The locals after a step that ends a handler or moves it on. *)
LocalFrame(w) ==
  /\ pc[w] # "idle"
  /\ \A v \in Workers \ {w} : pc'[v] = pc[v] /\ cmd'[v] = cmd[v] /\ out'[v] = out[v]
  /\ pc'[w] = "idle" => cmd'[w] = NoCommand
  /\ pc'[w] # "idle" => /\ cmd'[w] = cmd[w] /\ cmd[w].action \in UserMoves
                        /\ pc'[w] # "popped"

LEMMA Ending ==
  ASSUME LocalsOK, NEW w \in Workers, pc[w] # "idle",
         \/ Finish(w, <<>>)
         \/ cmd[w].action \in UserMoves /\ \E messages : Finish(w, messages)
         \/ /\ cmd[w].action \in UserMoves
            /\ \E point \in {"handle", "checked", "reject", "close"} : Goto(w, point)
  PROVE LocalFrame(w)
<1>1. /\ pc \in [Workers -> {"idle", "popped", "handle", "checked", "reject", "close", "send"}]
      /\ cmd \in [Workers -> Commands \cup {NoCommand}] /\ out \in [Workers -> Seq(Messages)]
  BY DEF LocalsOK
<1>2. CASE Finish(w, <<>>)
  BY <1>1, <1>2 DEF LocalFrame, Finish
<1>3. ASSUME cmd[w].action \in UserMoves, NEW messages, Finish(w, messages) PROVE LocalFrame(w)
  BY <1>1, <1>3 DEF LocalFrame, Finish
<1>4. ASSUME cmd[w].action \in UserMoves,
             NEW point \in {"handle", "checked", "reject", "close"}, Goto(w, point)
      PROVE LocalFrame(w)
  BY <1>1, <1>4 DEF LocalFrame, Goto
<1> QED
  BY <1>2, <1>3, <1>4

LEMMA NotToClose ==
  ASSUME LocalsOK, NEW w \in Workers,
         \/ \E messages : Finish(w, messages)
         \/ \E point \in {"handle", "checked", "reject"} : Goto(w, point)
  PROVE pc'[w] # "close"
BY DEF LocalsOK, Finish, Goto

(* Only a rejection touches the queue or closes a descriptor. *)
LEMMA HandleFrame ==
  ASSUME TypeOK, WorkersAgree, NEW w \in Workers, Serves(w)
  PROVE /\ LocalFrame(w) /\ UNCHANGED pending
        /\ \/ UNCHANGED commands /\ pc'[w] # "close"
           \/ /\ pc[w] = "reject" /\ pc'[w] = "close"
              /\ commands' = Append(commands, Command("delete_user", From(w), NoLogin))
        /\ \/ UNCHANGED sockets
           \/ pc[w] = "close" /\ sockets' = sockets \ {From(w)} /\ pc'[w] = "idle"
<1>0. LocalsOK /\ (pc[w] \notin {"idle", "popped"} => cmd[w].action \in UserMoves)
  BY DEF TypeOK, WorkersAgree
<1>1. CASE make_new_user(w) \/ erase_user(w)
  <2>1. pc[w] = "popped" /\ Finish(w, <<>>) /\ UNCHANGED <<commands, pending, sockets>>
    BY <1>1 DEF make_new_user, erase_user, At, world
  <2> QED
    BY <1>0, <2>1, Ending, NotToClose
<1>2. CASE authorization(w)
  <2>1. /\ pc[w] = "popped" /\ cmd[w].action \in UserMoves /\ UNCHANGED world
        /\ \E point \in {"handle", "checked", "reject"} : Goto(w, point)
    BY <1>2 DEF authorization
  <2> QED
    BY <1>0, <2>1, Ending, NotToClose DEF world
<1>3. CASE reject_push(w)
  <2>1. /\ pc[w] = "reject" /\ Goto(w, "close") /\ UNCHANGED <<pending, sockets>>
        /\ commands' = Append(commands, Command("delete_user", From(w), NoLogin))
    BY <1>3 DEF reject_push
  <2>2. pc'[w] = "close"
    BY <1>0, <2>1 DEF Goto, LocalsOK
  <2> QED
    BY <1>0, <2>1, <2>2, Ending
<1>4. CASE reject_close(w)
  <2>1. /\ pc[w] = "close" /\ Finish(w, <<>>) /\ UNCHANGED <<commands, pending>>
        /\ sockets' = sockets \ {From(w)}
    BY <1>4 DEF reject_close
  <2>2. pc'[w] = "idle"
    BY <1>0, <2>1 DEF Finish, LocalsOK
  <2> QED
    BY <1>0, <2>1, <2>2, Ending
<1>5. ASSUME pc[w] \notin {"idle", "popped"}, UNCHANGED <<commands, pending, sockets>>,
             (\E messages : Finish(w, messages)) \/ Goto(w, "checked")
      PROVE LocalFrame(w) /\ pc'[w] # "close"
  BY <1>0, <1>5, Ending, NotToClose
<1>6. CASE \/ no_case(w) \/ authentication_lookup(w) \/ authentication_finish(w)
           \/ registration(w) \/ leave_from_account(w)
  BY <1>5, <1>6 DEF no_case, authentication_lookup, authentication_finish, registration,
                    leave_from_account, At, world
<1>7. CASE \/ get_friends_list(w) \/ get_friends_requests(w) \/ accept_friendship(w)
           \/ discard_friendship(w) \/ make_friend_request(w)
  BY <1>5, <1>7 DEF get_friends_list, get_friends_requests, accept_friendship,
                    discard_friendship, make_friend_request, list_command, database_command, world
<1>8. CASE request_start(w) \/ request_denied(w) \/ request_forward(w)
  BY <1>5, <1>8 DEF request_start, request_denied, request_forward, At, world
<1>9. CASE communication_response(w) \/ send_message(w) \/ exit_dialog(w)
  BY <1>5, <1>9 DEF communication_response, send_message, exit_dialog, At, world
<1>10. CASE SendsOut(w)
  BY <1>5, <1>10 DEF SendsOut
<1> QED
  BY <1>1, <1>2, <1>3, <1>4, <1>6, <1>7, <1>8, <1>9, <1>10 DEF Serves, Work

(* Internal commands are no user's commands. *)
LEMMA Internal ==
  /\ {"make_new_user", "delete_user", "none"} \cap UserMoves = {}
  /\ NoCommand.action = "none" /\ NoCommand.from = NoFd
BY DEF UserMoves, Answers, FriendMoves, ListMoves, NoCommand, Command

(* The command a worker takes and the queue it leaves. *)
LEMMA PopFrame ==
  ASSUME TypeOK, WorkersAgree, NEW w \in Workers, Pop(w)
  PROVE /\ cmd[w] = NoCommand /\ commands # <<>>
        /\ cmd'[w] = commands[1] /\ pc'[w] = "popped"
        /\ \A v \in Workers \ {w} : cmd'[v] = cmd[v] /\ pc'[v] = pc[v]
        /\ UNCHANGED <<users, login_to_socket, pending, sockets, win, out>>
        /\ 1 \in DOMAIN commands
        /\ \A i \in DOMAIN commands' : /\ i \in Nat /\ i + 1 \in DOMAIN commands /\ i + 1 # 1
                                       /\ commands'[i] = commands[i + 1]
        /\ \A i \in DOMAIN commands : i # 1 => i \in Nat /\ i - 1 \in DOMAIN commands'
<1>1. commands \in Seq(Commands) /\ commands # <<>> /\ commands' = Tail(commands)
  BY DEF TypeOK, WorldOK, Pop
<1>2. /\ 1 \in DOMAIN commands
      /\ \A i \in DOMAIN commands' : /\ i \in Nat /\ i + 1 \in DOMAIN commands /\ i + 1 # 1
                                     /\ commands'[i] = commands[i + 1]
      /\ \A i \in DOMAIN commands : i # 1 => i \in Nat /\ i - 1 \in DOMAIN commands'
  BY <1>1
<1>3. /\ cmd[w] = NoCommand /\ cmd'[w] = commands[1] /\ pc'[w] = "popped"
      /\ \A v \in Workers \ {w} : cmd'[v] = cmd[v] /\ pc'[v] = pc[v]
      /\ UNCHANGED <<users, login_to_socket, pending, sockets, win, out>>
  BY <1>1 DEF TypeOK, LocalsOK, WorkersAgree, Pop
<1> QED
  BY <1>1, <1>2, <1>3

(* A command behind the others. *)
LEMMA AppendFrame ==
  ASSUME commands \in Seq(Commands), NEW c, commands' = Append(commands, c)
  PROVE /\ Len(commands) + 1 \in DOMAIN commands' /\ commands'[Len(commands) + 1] = c
        /\ \A i \in DOMAIN commands : i \in DOMAIN commands' /\ commands'[i] = commands[i]
        /\ \A i \in DOMAIN commands' : i # Len(commands) + 1 =>
             i \in DOMAIN commands /\ commands'[i] = commands[i]
OBVIOUS

(* A worker is somewhere else after every step but a send(). *)
LEMMA ServingActs ==
  ASSUME TypeOK, NEW w \in Workers, Serves(w), ~SendsOut(w)
  PROVE Acts(w)
<1>0. pc \in [Workers -> {"idle", "popped", "handle", "checked", "reject", "close", "send"}]
  BY DEF TypeOK, LocalsOK
<1>1. ASSUME NEW messages, Finish(w, messages), pc[w] \notin {"idle", "send"} PROVE Acts(w)
  BY <1>0, <1>1 DEF Finish, Acts
<1>2. ASSUME NEW point, Goto(w, point), pc[w] # point PROVE Acts(w)
  BY <1>0, <1>2 DEF Goto, Acts
<1>3. CASE make_new_user(w) \/ erase_user(w) \/ reject_close(w) \/ no_case(w)
  BY <1>1, <1>3 DEF make_new_user, erase_user, reject_close, no_case, At
<1>4. CASE authorization(w) \/ reject_push(w)
  BY <1>2, <1>4 DEF authorization, reject_push
<1>5. CASE authentication_lookup(w) \/ authentication_finish(w) \/ registration(w) \/ leave_from_account(w)
  BY <1>1, <1>2, <1>5 DEF authentication_lookup, authentication_finish, registration, leave_from_account, At
<1>6. CASE \/ get_friends_list(w) \/ get_friends_requests(w) \/ accept_friendship(w)
           \/ discard_friendship(w) \/ make_friend_request(w)
  BY <1>1, <1>2, <1>6 DEF get_friends_list, get_friends_requests, accept_friendship,
                          discard_friendship, make_friend_request, list_command, database_command
<1>7. CASE request_start(w) \/ request_denied(w) \/ request_forward(w)
  BY <1>1, <1>2, <1>7 DEF request_start, request_denied, request_forward, At
<1>8. CASE communication_response(w) \/ send_message(w) \/ exit_dialog(w)
  BY <1>1, <1>8 DEF communication_response, send_message, exit_dialog, At
<1> QED
  BY <1>3, <1>4, <1>5, <1>6, <1>7, <1>8 DEF Serves, Work

(* The maps change in a step of a worker. *)
LEMMA MapsChange ==
  ASSUME TypeOK, Step, ~(UNCHANGED maps)
  PROVE \E w \in Workers : Serves(w) /\ Acts(w)
<1>1. PICK w \in Workers : Serves(w)
  BY DEF Step, server, Pop, Environment, Accept, Disconnect, PushPending, ClientSend,
         set_make_request_mode, maps
<1>2. ~SendsOut(w)
  BY DEF SendsOut, maps
<1> QED
  BY <1>1, <1>2, ServingActs

(* Workers agree with their commands after every step.                     *)
LEMMA WorkersStep ==
  ASSUME TypeOK, WorkersAgree, Step
  PROVE WorkersAgree'
<1>1. ASSUME UNCHANGED locals PROVE WorkersAgree'
  BY <1>1 DEF WorkersAgree, locals
<1>2. ASSUME NEW w \in Workers, Pop(w) PROVE WorkersAgree'
  BY <1>2, PopFrame DEF WorkersAgree
<1>3. ASSUME NEW w \in Workers, Serves(w) PROVE WorkersAgree'
  <2>1. LocalFrame(w)
    BY <1>3, HandleFrame
  <2> QED
    BY <2>1 DEF WorkersAgree, LocalFrame
<1>4. Environment => UNCHANGED locals
  BY DEF Environment, Accept, Disconnect, PushPending, ClientSend, set_make_request_mode
<1> QED
  BY <1>1, <1>2, <1>3, <1>4 DEF Step, server, locals
--------------------------------------------------------------------------------
(* Who changes a login or the table. *)

LogsIn(w) ==
  /\ At(w, "checked", "authentication") /\ From(w) \in DOMAIN users
  /\ users' = [users EXCEPT ![From(w)] = set_db_data(@, cmd[w].login)]
  /\ login_to_socket' = Emplace(login_to_socket, cmd[w].login, From(w))

LogsOut(w) ==
  /\ From(w) \in DOMAIN users
  /\ login_to_socket' = Erase(login_to_socket, users[From(w)].login)
  /\ users' = [users EXCEPT ![From(w)] = log_off(@)]

Deletes(w) ==
  /\ From(w) \in DOMAIN users
  /\ login_to_socket' = TableWithout(From(w))
  /\ DOMAIN users' = DOMAIN users \ {From(w)}
  /\ \A g \in DOMAIN users' : users'[g].login = users[g].login

(* Records come, without a login, and change, but keep their logins. *)
KeepsLogins ==
  /\ UNCHANGED login_to_socket
  /\ \A g \in DOMAIN users : g \in DOMAIN users' /\ users'[g].login = users[g].login
  /\ \A g \in DOMAIN users' \ DOMAIN users : users'[g].login = NoLogin

(* Four ways of changing the logins of the records and the table.          *)
LEMMA LoginFrame ==
  ASSUME TypeOK, NEW w \in Workers, Serves(w)
  PROVE KeepsLogins \/ LogsIn(w) \/ LogsOut(w) \/ Deletes(w)
<1>0. users \in [DOMAIN users -> Users]
  BY DEF TypeOK, MapsOK
<1>1. \A u \in Users : /\ change_to_menu_mode(u).login = u.login
                       /\ keep_correspondent_in_dialogue(u).login = u.login
                       /\ \A login : /\ change_to_response_waiting_mode(u, login).login = u.login
                                     /\ change_to_dialogue_mode(u, login).login = u.login
  BY DEF Users, change_to_menu_mode, keep_correspondent_in_dialogue, change_to_response_waiting_mode,
         change_to_dialogue_mode
<1>2. UNCHANGED maps => KeepsLogins
  BY DEF maps, KeepsLogins
<1>3. CASE make_new_user(w)
  BY <1>3 DEF make_new_user, Emplace, New_user, KeepsLogins
<1>4. CASE erase_user(w)
  <2>1. CASE From(w) \notin DOMAIN users
    BY <1>2, <1>4, <2>1 DEF erase_user
  <2>2. CASE From(w) \in DOMAIN users
    <3>1. /\ login_to_socket' = TableWithout(From(w))
          /\ users' = [g \in DOMAIN users \ {From(w)} |->
                         IF g = Deserted(From(w)) THEN change_to_menu_mode(users[g]) ELSE users[g]]
      BY <1>4, <2>2 DEF erase_user
    <3> QED
      BY <1>0, <1>1, <2>2, <3>1 DEF Deletes
  <2> QED
    BY <2>1, <2>2
<1>5. CASE \/ authorization(w) \/ reject_push(w) \/ reject_close(w) \/ no_case(w) \/ SendsOut(w)
           \/ authentication_lookup(w) \/ registration(w) \/ send_message(w)
  BY <1>2, <1>5 DEF authorization, reject_push, reject_close, no_case, SendsOut, authentication_lookup,
                    registration, send_message
<1>6. CASE \/ get_friends_list(w) \/ get_friends_requests(w) \/ accept_friendship(w)
           \/ discard_friendship(w) \/ make_friend_request(w)
  BY <1>2, <1>6 DEF get_friends_list, get_friends_requests, accept_friendship, discard_friendship,
                    make_friend_request, list_command, database_command
<1>7. CASE authentication_finish(w)
  BY <1>2, <1>7 DEF authentication_finish, LogsIn
<1>8. CASE leave_from_account(w)
  BY <1>2, <1>8 DEF leave_from_account, LogsOut
<1>9. ASSUME UNCHANGED login_to_socket, DOMAIN users' = DOMAIN users,
             \A g \in DOMAIN users : users'[g].login = users[g].login
      PROVE KeepsLogins
  BY <1>9 DEF KeepsLogins
<1>10. CASE request_start(w)
  <2>1. CASE UNCHANGED maps
    BY <1>2, <2>1
  <2>2. CASE /\ From(w) \in DOMAIN users /\ UNCHANGED login_to_socket
             /\ users' = [users EXCEPT ![From(w)] = change_to_response_waiting_mode(@, cmd[w].login)]
    BY <1>0, <1>1, <1>9, <2>2
  <2> QED
    BY <1>10, <2>1, <2>2 DEF request_start
<1>11. CASE request_denied(w)
  BY <1>0, <1>1, <1>9, <1>11 DEF request_denied
<1>12. CASE request_forward(w)
  BY <1>0, <1>1, <1>9, <1>12 DEF request_forward
<1>13. CASE communication_response(w)
  <2> DEFINE fd == From(w)
             reciever == Find(cmd[w].login)
             answered == [users EXCEPT ![fd] = change_to_dialogue_mode(@, users[reciever].login)]
  <2>1. UNCHANGED login_to_socket
    BY <1>13 DEF communication_response
  <2>2. CASE UNCHANGED users
    BY <1>9, <2>1, <2>2
  <2>3. CASE users' = [answered EXCEPT ![reciever] = keep_correspondent_in_dialogue(@)]
    <3>1. /\ DOMAIN answered = DOMAIN users
          /\ \A g \in DOMAIN users : answered[g].login = users[g].login
      BY <1>0, <1>1
    <3>2. \A g \in DOMAIN users : keep_correspondent_in_dialogue(answered[g]).login = answered[g].login
      <4>1. \A u \in Users : \A login : keep_correspondent_in_dialogue(change_to_dialogue_mode(u, login)).login = u.login
        BY DEF Users, keep_correspondent_in_dialogue, change_to_dialogue_mode
      <4> QED
        BY <1>0, <1>1, <4>1
    <3> QED
      BY <1>9, <2>1, <2>3, <3>1, <3>2
  <2>4. CASE users' = [users EXCEPT ![reciever] = change_to_menu_mode(@)]
    BY <1>0, <1>1, <1>9, <2>1, <2>4
  <2> QED
    BY <1>13, <2>2, <2>3, <2>4 DEF communication_response
<1>14. CASE exit_dialog(w)
  BY <1>0, <1>1, <1>9, <1>14 DEF exit_dialog
<1> QED
  BY <1>3, <1>4, <1>5, <1>6, <1>7, <1>8, <1>10, <1>11, <1>12, <1>13, <1>14 DEF Serves, Work
--------------------------------------------------------------------------------
(* EntriesStayTrue and StaysFound, for one step of a worker.               *)

LEMMA LogInType ==
  ASSUME TypeOK, NEW w \in Workers, LogsIn(w)
  PROVE cmd[w].login \in Logins /\ users[From(w)] \in Users /\ users \in [DOMAIN users -> Users]
BY DEF LogsIn, At, TypeOK, MapsOK, LocalsOK, Commands

LEMMA EntryStays ==
  ASSUME TypeOK, NEW w \in Workers, Serves(w), NEW login \in Logins, EntryTrue(login), ~EntryTrue(login)'
  PROVE LogsInAgain(w) /\ login_to_socket[login] = From(w) /\ cmd[w].login # login
<1>0. login # NoLogin /\ users \in [DOMAIN users -> Users]
  BY UserAssumption DEF TypeOK, MapsOK
<1>1. PICK fd, a : fd = From(w) /\ a = cmd[w].login
  OBVIOUS
<1>2. ~KeepsLogins
  BY DEF KeepsLogins, EntryTrue
<1>3. ~LogsOut(w)
  BY <1>0 DEF LogsOut, Erase, EntryTrue, log_off, New_user
<1>4. ~Deletes(w)
  <2> SUFFICES ASSUME Deletes(w) PROVE FALSE
    OBVIOUS
  <2>1. login \in DOMAIN login_to_socket /\ login_to_socket'[login] = login_to_socket[login]
    BY DEF Deletes, TableWithout, Erase, EntryTrue
  <2>2. login_to_socket[login] # From(w)
    BY <1>0, <2>1 DEF Deletes, TableWithout, Erase, EntryTrue, Authenticated
  <2> QED
    BY <2>1, <2>2 DEF Deletes, EntryTrue
<1>5. LogsIn(w)
  BY <1>2, <1>3, <1>4, LoginFrame
<1>6. /\ fd \in DOMAIN users /\ users[fd] \in Users
      /\ users' = [users EXCEPT ![fd] = set_db_data(@, a)]
      /\ login_to_socket' = Emplace(login_to_socket, a, fd)
  BY <1>1, <1>5, LogInType DEF LogsIn
<1>7. users'[fd].login = a /\ \A g \in DOMAIN users \ {fd} : users'[g] = users[g]
  BY <1>0, <1>6 DEF set_db_data, Users
<1>8. DOMAIN users' = DOMAIN users
  BY <1>6
<1>9. login \in DOMAIN login_to_socket /\ login_to_socket'[login] = login_to_socket[login]
  BY <1>6, <1>7, <1>8 DEF Emplace, EntryTrue
<1>10. login_to_socket[login] = fd /\ a # login /\ users[fd].login = login
  BY <1>7, <1>8, <1>9 DEF EntryTrue
<1> QED
  BY <1>0, <1>1, <1>5, <1>10 DEF LogsIn, LogsInAgain, Authenticated

LEMMA FoundStays ==
  ASSUME TypeOK, TypeOK', NEW w \in Workers, Serves(w), NEW fd \in Fds, NEW login \in Logins, LoggedInAs(fd, login)',
         LoggedInAs(fd, login) => Find(login) = fd, ~Twice(login), ~Twice(login)', EntryTrue(login)
  PROVE Find(login)' = fd
<1>0. /\ login # NoLogin /\ users \in [DOMAIN users -> Users]
      /\ DOMAIN users \subseteq Fds /\ DOMAIN users' \subseteq Fds /\ NoFd \notin Fds
  BY UserAssumption, WorkAssumption DEF TypeOK, MapsOK
<1>1. fd \in DOMAIN users' /\ users'[fd].login = login
  BY DEF LoggedInAs
<1>2. LoggedInAs(fd, login) => login \in DOMAIN login_to_socket /\ login_to_socket[login] = fd
  BY <1>0 DEF Find, upload_user_iter
<1>3. SUFFICES login \in DOMAIN login_to_socket' /\ login_to_socket'[login] = fd
  BY <1>1 DEF Find, upload_user_iter
<1>4. CASE KeepsLogins
  BY <1>0, <1>1, <1>2, <1>4 DEF KeepsLogins, LoggedInAs
<1>5. ASSUME LoggedInAs(fd, login), fd # From(w), LogsOut(w) \/ Deletes(w)
      PROVE login \in DOMAIN login_to_socket' /\ login_to_socket'[login] = fd
  <2>1. From(w) \in DOMAIN users /\ users[From(w)].login # login
    BY <1>0, <1>5 DEF Twice, LoggedInAs, LogsOut, Deletes
  <2> QED
    BY <1>2, <1>5, <2>1 DEF LogsOut, Deletes, TableWithout, Erase
<1>6. CASE LogsOut(w)
  <2>1. fd # From(w) /\ LoggedInAs(fd, login)
    BY <1>0, <1>1, <1>6 DEF LogsOut, log_off, New_user, LoggedInAs
  <2> QED
    BY <1>5, <1>6, <2>1
<1>7. CASE Deletes(w)
  <2>1. fd # From(w) /\ LoggedInAs(fd, login)
    BY <1>0, <1>1, <1>7 DEF Deletes, LoggedInAs
  <2> QED
    BY <1>5, <1>7, <2>1
<1>8. CASE LogsIn(w)
  <2>1. PICK d, a : d = From(w) /\ a = cmd[w].login
    OBVIOUS
  <2>2. /\ d \in DOMAIN users /\ users[d] \in Users
        /\ users' = [users EXCEPT ![d] = set_db_data(@, a)]
        /\ login_to_socket' = Emplace(login_to_socket, a, d)
    BY <1>8, <2>1, LogInType DEF LogsIn
  <2>3. DOMAIN users' = DOMAIN users /\ users'[d].login = a /\ \A g \in DOMAIN users \ {d} : users'[g] = users[g]
    BY <1>0, <2>2 DEF set_db_data, Users
  <2>4. CASE fd # d
    BY <1>1, <1>2, <2>2, <2>3, <2>4 DEF Emplace, LoggedInAs
  <2>5. CASE fd = d /\ login \notin DOMAIN login_to_socket
    BY <1>1, <2>2, <2>3, <2>5 DEF Emplace
  <2>6. CASE fd = d /\ login \in DOMAIN login_to_socket
    <3>1. login_to_socket[login] \in DOMAIN users /\ users[login_to_socket[login]].login = login
      BY <2>6 DEF EntryTrue
    <3>2. login_to_socket[login] = fd
      BY <1>0, <1>1, <2>3, <2>6, <3>1 DEF Twice, LoggedInAs
    <3> QED
      BY <2>2, <2>6, <3>2 DEF Emplace
  <2> QED
    BY <2>4, <2>5, <2>6
<1> QED
  BY <1>4, <1>6, <1>7, <1>8, LoginFrame

(* What the two properties say of one step.                                *)
EntriesStep ==
  \A login \in Logins : EntryTrue(login) /\ ~EntryTrue(login)' =>
    \E w \in Workers :
      Acts(w) /\ LogsInAgain(w) /\ login_to_socket[login] = From(w) /\ cmd[w].login # login

FoundStep ==
  \A fd \in Fds, login \in Logins :
    LoggedInAs(fd, login)' /\ Find(login)' # fd =>
      \/ LoggedInAs(fd, login) /\ Find(login) # fd
      \/ Twice(login) \/ Twice(login)' \/ ~EntryTrue(login)

LEMMA StepEntries == TypeOK /\ Step => EntriesStep
<1> SUFFICES ASSUME TypeOK, Step, NEW login \in Logins, EntryTrue(login), ~EntryTrue(login)'
             PROVE \E w \in Workers :
                     Acts(w) /\ LogsInAgain(w) /\ login_to_socket[login] = From(w) /\ cmd[w].login # login
  BY DEF EntriesStep
<1>1. ~(UNCHANGED maps)
  BY DEF maps, EntryTrue
<1> QED
  BY <1>1, MapsChange, EntryStays

LEMMA StepFound == TypeOK /\ TypeOK' /\ Step => FoundStep
<1> SUFFICES ASSUME TypeOK, TypeOK', Step, NEW fd \in Fds, NEW login \in Logins, LoggedInAs(fd, login)',
                    LoggedInAs(fd, login) => Find(login) = fd, ~Twice(login), ~Twice(login)', EntryTrue(login)
             PROVE Find(login)' = fd
  BY DEF FoundStep
<1>1. CASE UNCHANGED maps
  BY <1>1 DEF maps, LoggedInAs, Find, upload_user_iter
<1> QED
  BY <1>1, MapsChange, FoundStays

(* Commands to a login reach the connection that is logged in under it, as *)
(* long as no connection logs in twice: authentication_processing, whose   *)
(* emplace (user_work.cpp:94-96) leaves an entry of another login behind,  *)
(* is the only step that makes an entry of login_to_socket wrong.          *)
THEOREM OnlySecondLogInsSpoilEntries == Spec => EntriesStayTrue
<1>1. TypeOK /\ [Next]_vars => [EntriesStep]_vars
  BY StepEntries, NextIsStep
<1> QED
  BY <1>1, Invariance, PTL DEF Spec, EntriesStayTrue, EntriesStep

(* A connection that is logged in can be called and logged off by its      *)
(* login, unless somebody else is on line under the same login or the      *)
(* login's entry is wrong already (the finding about user_work.cpp:76).    *)
THEOREM OnlyDoubleLogInsGetLost == Spec => StaysFound
<1>1. TypeOK /\ [Next]_vars => [FoundStep]_vars
  BY StepFound, NextIsStep, NextType
<1> QED
  BY <1>1, Invariance, PTL DEF Spec, StaysFound, FoundStep
================================================================================
