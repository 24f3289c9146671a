------------------------ MODULE UserWork_dialogue_proofs ------------------------
(***************************************************************************)
(* Calls and dialogues, for any number of connections, workers, logins and *)
(* commands under way: which steps can make users wait in a circle, leave  *)
(* a partner behind in a dialogue, or break a promise of Sessions.         *)
(***************************************************************************)
EXTENDS UserWork_table_proofs
--------------------------------------------------------------------------------
(* What a step of a worker does to the records and the table. *)

Creates(w) ==
  /\ At(w, "popped", "make_new_user") /\ UNCHANGED login_to_socket
  /\ users' = Emplace(users, From(w), New_user)

Removes(w) ==
  /\ At(w, "popped", "delete_user") /\ From(w) \in DOMAIN users
  /\ login_to_socket' = TableWithout(From(w))
  /\ users' = [g \in DOMAIN users \ {From(w)} |->
                 IF g = Deserted(From(w)) THEN change_to_menu_mode(users[g]) ELSE users[g]]

Leaves(w) == At(w, "handle", "leave_from_account") /\ LogsOut(w)

Asks(w) ==
  /\ At(w, "handle", "communication_request") /\ UNCHANGED login_to_socket
  /\ From(w) \in DOMAIN users /\ Free(Find(cmd[w].login))
  /\ users' = [users EXCEPT ![From(w)] = change_to_response_waiting_mode(@, cmd[w].login)]

(* The user of an answering connection is the one the asker waits for. *)
IsAwaited(w) ==
  /\ From(w) \in DOMAIN users /\ Find(cmd[w].login) # NoFd
  /\ AwaitsAnswerOf(Find(cmd[w].login), users[From(w)].login)

Talks(w) ==
  /\ At(w, "handle", "response_yes") /\ IsAwaited(w) /\ UNCHANGED login_to_socket
  /\ users' = [[users EXCEPT ![From(w)] = change_to_dialogue_mode(@, users[Find(cmd[w].login)].login)]
                 EXCEPT ![Find(cmd[w].login)] = keep_correspondent_in_dialogue(@)]

(* The ways back to the menu, and whose they are.                          *)
IsDenied(w, S) ==
  At(w, "checked", "communication_request") /\ (DbFails \/ ~Check_friends(w)) /\ S = {held[w].node}
TurnsBack(w, S) ==
  /\ At(w, "checked", "communication_request")
  /\ Find(held[w].peer) = NoFd /\ S = {Find(held[w].login)}
Refuses(w, S) == At(w, "handle", "response_no") /\ IsAwaited(w) /\ S = {Find(cmd[w].login)}
GivesUp(w, S) ==
  /\ At(w, "handle", "exit_dialog") /\ From(w) \in DOMAIN users
  /\ users[From(w)].status = "in_wait" /\ S = {From(w)}
HangsUp(w, S) ==
  /\ At(w, "handle", "exit_dialog") /\ From(w) \in DOMAIN users
  /\ users[From(w)].status = "in_dialogue" /\ S = {From(w), Find(users[From(w)].correspondent_login)}

Releases(w, S) ==
  /\ IsDenied(w, S) \/ TurnsBack(w, S) \/ Refuses(w, S) \/ GivesUp(w, S) \/ HangsUp(w, S)
  /\ UNCHANGED login_to_socket
  /\ users' = [g \in DOMAIN users |-> IF g \in S THEN change_to_menu_mode(users[g]) ELSE users[g]]

LEMMA RecordFrame ==
  ASSUME TypeOK, NEW w \in Workers, Serves(w)
  PROVE \/ UNCHANGED maps
        \/ Creates(w) \/ Removes(w) \/ LogsIn(w) \/ Leaves(w) \/ Asks(w) \/ Talks(w)
        \/ \E S : Releases(w, S)
<1>0. users \in [DOMAIN users -> Users]
  BY DEF TypeOK, MapsOK
<1>1. CASE make_new_user(w)
  BY <1>1 DEF make_new_user, Creates
<1>2. CASE erase_user(w)
  BY <1>2 DEF erase_user, Removes
<1>3. CASE \/ authorization(w) \/ reject_push(w) \/ reject_close(w) \/ no_case(w) \/ SendsOut(w)
           \/ authentication_lookup(w) \/ registration(w) \/ send_message(w)
  BY <1>3 DEF authorization, reject_push, reject_close, no_case, SendsOut, authentication_lookup,
              registration, send_message
<1>4. CASE \/ get_friends_list(w) \/ get_friends_requests(w) \/ accept_friendship(w)
           \/ discard_friendship(w) \/ make_friend_request(w)
  BY <1>4 DEF get_friends_list, get_friends_requests, accept_friendship, discard_friendship,
              make_friend_request, list_command, database_command
<1>5. CASE authentication_finish(w)
  BY <1>5 DEF authentication_finish, LogsIn
<1>6. CASE leave_from_account(w)
  BY <1>6 DEF leave_from_account, Leaves, LogsOut
<1>7. CASE request_start(w)
  BY <1>7 DEF request_start, Asks, maps
<1>8. CASE request_denied(w)
  <2>1. Releases(w, {held[w].node})
    BY <1>8 DEF request_denied, Releases, IsDenied
  <2> QED
    BY <2>1
<1>9. ASSUME NEW fd \in DOMAIN users, users' = [users EXCEPT ![fd] = change_to_menu_mode(@)]
      PROVE users' = [g \in DOMAIN users |-> IF g \in {fd} THEN change_to_menu_mode(users[g]) ELSE users[g]]
  BY <1>0, <1>9
<1>10. \A login : Find(login) # NoFd => Find(login) \in DOMAIN users
  BY FindType DEF Find
<1>11. CASE request_forward(w)
  <2> DEFINE sender == Find(held[w].login)
  <2>1. At(w, "checked", "communication_request") /\ UNCHANGED login_to_socket
    BY <1>11 DEF request_forward
  <2>2. CASE sender # NoFd /\ Find(held[w].peer) = NoFd /\ users' = [users EXCEPT ![sender] = change_to_menu_mode(@)]
    <3>1. Releases(w, {sender})
      BY <1>9, <1>10, <2>1, <2>2 DEF Releases, TurnsBack
    <3> QED
      BY <3>1
  <2> QED
    BY <1>11, <2>1, <2>2 DEF request_forward, maps
<1>12. CASE communication_response(w)
  <2> DEFINE asker == Find(cmd[w].login)
  <2>1. pc[w] = "handle" /\ UNCHANGED login_to_socket
    BY <1>12 DEF communication_response
  <2>2. CASE /\ cmd[w].action = "response_no" /\ IsAwaited(w)
             /\ users' = [users EXCEPT ![asker] = change_to_menu_mode(@)]
    <3>1. Releases(w, {asker})
      BY <1>9, <1>10, <2>1, <2>2 DEF Releases, Refuses, At, IsAwaited
    <3> QED
      BY <3>1
  <2>3. CASE UNCHANGED users
    BY <2>1, <2>3 DEF maps
  <2> QED
    BY <1>12, <2>1, <2>2, <2>3 DEF communication_response, Talks, IsAwaited, At
<1>13. CASE exit_dialog(w)
  <2> DEFINE fd == From(w)
             corr == Find(users[fd].correspondent_login)
  <2>1. At(w, "handle", "exit_dialog") /\ UNCHANGED login_to_socket
    BY <1>13 DEF exit_dialog
  <2>2. CASE /\ fd \in DOMAIN users /\ users[fd].status = "in_wait"
             /\ users' = [users EXCEPT ![fd] = change_to_menu_mode(@)]
    <3>1. Releases(w, {fd})
      BY <1>9, <2>1, <2>2 DEF Releases, GivesUp
    <3> QED
      BY <3>1
  <2>3. CASE /\ fd \in DOMAIN users /\ users[fd].status = "in_dialogue"
             /\ users' = [g \in DOMAIN users |-> IF g \in {fd, corr} THEN change_to_menu_mode(users[g]) ELSE users[g]]
    <3>1. Releases(w, {fd, corr})
      BY <2>1, <2>3 DEF Releases, HangsUp
    <3> QED
      BY <3>1
  <2> QED
    BY <1>13, <2>1, <2>2, <2>3 DEF exit_dialog, maps
<1> QED
  BY <1>1, <1>2, <1>3, <1>4, <1>5, <1>6, <1>7, <1>8, <1>11, <1>12, <1>13 DEF Serves, Work

(* The fields of a record, and what the mutators make of them. *)
Reads(u, login, status, correspondent) ==
  u.login = login /\ u.status = status /\ u.correspondent_login = correspondent

LEMMA Mutators ==
  ASSUME NEW u \in Users, NEW login
  PROVE /\ Reads(change_to_menu_mode(u), u.login, "in_menu", NoLogin)
        /\ Reads(set_db_data(u, login), login, u.status, u.correspondent_login)
        /\ Reads(change_to_response_waiting_mode(u, login), u.login, "in_wait", login)
        /\ Reads(change_to_dialogue_mode(u, login), u.login, "in_dialogue", login)
        /\ Reads(keep_correspondent_in_dialogue(u), u.login, "in_dialogue", u.correspondent_login)
        /\ Reads(log_off(u), NoLogin, "in_menu", NoLogin)
BY DEF Users, Reads, change_to_menu_mode, set_db_data, change_to_response_waiting_mode,
   change_to_dialogue_mode, keep_correspondent_in_dialogue, log_off, New_user

(* The table leads to the user of a login. *)
LEMMA FindSound ==
  ASSUME TypeOK, LoginTableSound, NEW login, Find(login) # NoFd
  PROVE /\ login \in Logins /\ login \in DOMAIN login_to_socket /\ Find(login) = login_to_socket[login]
        /\ Find(login) \in DOMAIN users /\ users[Find(login)].login = login
BY DEF TypeOK, MapsOK, LoginTableSound, Find, upload_user_iter

(* An acceptance puts its two ends into the dialogue. *)
LEMMA TalksRecords ==
  ASSUME TypeOK, NEW w \in Workers, Talks(w),
         NEW fd, fd = From(w), NEW asker, asker = Find(cmd[w].login)
  PROVE /\ fd \in DOMAIN users /\ asker \in DOMAIN users /\ DOMAIN users' = DOMAIN users
        /\ users'[fd].status = "in_dialogue" /\ users'[asker].status = "in_dialogue"
        /\ \A g \in DOMAIN users \ {fd, asker} : users'[g] = users[g]
<1>1. fd \in DOMAIN users /\ asker \in DOMAIN users
  BY FindType DEF Talks, IsAwaited, Find
<1> DEFINE answered == [users EXCEPT ![fd] = change_to_dialogue_mode(@, users[asker].login)]
<1>2. users' = [answered EXCEPT ![asker] = keep_correspondent_in_dialogue(@)]
  BY DEF Talks
<1>3. users \in [DOMAIN users -> Users] /\ users[fd] \in Users /\ users[asker] \in Users
  BY <1>1 DEF TypeOK, MapsOK
<1>4. users[asker].login \in LoginOrNone
  BY <1>3 DEF Users
<1>5. /\ answered \in [DOMAIN users -> Users] /\ answered[fd].status = "in_dialogue"
      /\ \A g \in DOMAIN users \ {fd} : answered[g] = users[g]
  BY <1>1, <1>3, <1>4, UserType, Mutators DEF Reads
<1> HIDE DEF answered
<1>6. answered[asker] \in Users /\ keep_correspondent_in_dialogue(answered[asker]).status = "in_dialogue"
  BY <1>1, <1>5, Mutators DEF Reads
<1> QED
  BY <1>1, <1>2, <1>5, <1>6

(* An acceptance makes its two ends partners. *)
LEMMA TalksEffect ==
  ASSUME TypeOK, LoginTableSound, NEW w \in Workers, Talks(w),
         NEW fd, fd = From(w), NEW asker, asker = Find(cmd[w].login)
  PROVE /\ fd \in DOMAIN users /\ asker \in DOMAIN users /\ users[asker].login = cmd[w].login
        /\ users[asker].status = "in_wait" /\ users[asker].correspondent_login = users[fd].login
        /\ DOMAIN users' = DOMAIN users
        /\ Reads(users'[fd], users[fd].login, "in_dialogue", cmd[w].login)
        /\ Reads(users'[asker], users[asker].login, "in_dialogue", users[fd].login)
        /\ \A g \in DOMAIN users \ {fd, asker} : users'[g] = users[g]
<1>1. /\ fd \in DOMAIN users /\ asker \in DOMAIN users /\ users[asker].login = cmd[w].login
      /\ users[asker].status = "in_wait" /\ users[asker].correspondent_login = users[fd].login
  BY FindSound DEF Talks, IsAwaited, AwaitsAnswerOf
<1> DEFINE answered == [users EXCEPT ![fd] = change_to_dialogue_mode(@, cmd[w].login)]
<1>2. users' = [answered EXCEPT ![asker] = keep_correspondent_in_dialogue(@)]
  BY <1>1 DEF Talks
<1>3. \A g \in DOMAIN users : users[g] \in Users
  BY DEF TypeOK, MapsOK
<1>4. users \in [DOMAIN users -> Users]
  BY DEF TypeOK, MapsOK
<1>5. /\ DOMAIN answered = DOMAIN users
      /\ Reads(answered[fd], users[fd].login, "in_dialogue", cmd[w].login)
      /\ \A g \in DOMAIN users \ {fd} : answered[g] = users[g]
  BY <1>1, <1>3, <1>4, Mutators
<1>6. answered[asker] \in Users /\ answered[asker].login = users[asker].login
      /\ answered[asker].correspondent_login = users[fd].login
  <2>1. CASE asker = fd
    <3>1. cmd[w].login \in LoginOrNone /\ answered[fd] = change_to_dialogue_mode(users[fd], cmd[w].login)
      BY <1>1, <1>3, <1>4 DEF Users
    <3> QED
      BY <1>1, <1>3, <1>5, <2>1, <3>1, UserType DEF Reads
  <2>2. CASE asker # fd
    BY <1>1, <1>3, <1>5, <2>2
  <2> QED
    BY <2>1, <2>2
<1>7. Reads(keep_correspondent_in_dialogue(answered[asker]), users[asker].login, "in_dialogue", users[fd].login)
  BY <1>6, Mutators DEF Reads
<1> HIDE DEF answered
<1>8. /\ DOMAIN users' = DOMAIN users
      /\ users'[asker] = keep_correspondent_in_dialogue(answered[asker])
      /\ \A g \in DOMAIN users \ {asker} : users'[g] = answered[g]
  BY <1>1, <1>2, <1>5
<1>9. Reads(users'[fd], users[fd].login, "in_dialogue", cmd[w].login)
  <2>1. CASE asker = fd
    BY <1>1, <1>7, <1>8, <2>1
  <2>2. CASE asker # fd
    BY <1>1, <1>5, <1>8, <2>2
  <2> QED
    BY <2>1, <2>2
<1> QED
  BY <1>1, <1>5, <1>7, <1>8, <1>9

--------------------------------------------------------------------------------
(* Waiting in a circle *)

(* What happens to a record that waits after a step of another caller.     *)
LEMMA WaitingRecord ==
  ASSUME TypeOK, NEW w \in Workers, Serves(w), ~LogsInWaiting(w), NEW g \in DOMAIN users',
         users'[g].status = "in_wait", Asks(w) => g # From(w)
  PROVE g \in DOMAIN users /\ users'[g] = users[g] /\ ~(LogsIn(w) /\ g = From(w))
<1>0. users \in [DOMAIN users -> Users] /\ \A u \in DOMAIN users : users[u] \in Users
  BY DEF TypeOK, MapsOK
<1>1. CASE UNCHANGED maps
  <2>1. ~LogsIn(w) \/ g # From(w)
    BY <1>1 DEF LogsIn, LogsInWaiting, maps
  <2> QED
    BY <1>1, <2>1 DEF maps
<1>2. CASE Creates(w)
  BY <1>2 DEF Creates, LogsIn, At, Emplace, New_user
<1>3. CASE Removes(w)
  BY <1>0, <1>3, Mutators DEF Removes, LogsIn, At, Reads
<1>4. CASE LogsIn(w)
  <2>1. users[From(w)].status # "in_wait"
    BY <1>4 DEF LogsIn, LogsInWaiting
  <2>2. g # From(w)
    BY <1>0, <1>4, <2>1, Mutators DEF LogsIn, Reads
  <2> QED
    BY <1>0, <1>4, <2>2 DEF LogsIn
<1>5. CASE Leaves(w)
  BY <1>0, <1>5, Mutators DEF Leaves, LogsOut, LogsIn, At, Reads
<1>6. CASE Asks(w)
  BY <1>0, <1>6 DEF Asks, LogsIn, At
<1>7. CASE Talks(w)
  <2>1. PICK fd, asker : fd = From(w) /\ asker = Find(cmd[w].login)
    OBVIOUS
  <2>2. g \in DOMAIN users /\ users'[g] = users[g]
    BY <1>7, <2>1, TalksRecords
  <2> QED
    BY <1>7, <2>2 DEF Talks, LogsIn, At
<1>8. ASSUME NEW S, Releases(w, S) PROVE g \in DOMAIN users /\ users'[g] = users[g] /\ ~LogsIn(w)
  <2>1. ~LogsIn(w)
    BY <1>8 DEF Releases, IsDenied, TurnsBack, Refuses, GivesUp, HangsUp, LogsIn, At
  <2> QED
    BY <1>0, <1>8, <2>1, Mutators DEF Releases, Reads
<1> QED
  BY <1>1, <1>2, <1>3, <1>4, <1>5, <1>6, <1>7, <1>8, RecordFrame

LEMMA CirclesHandle ==
  ASSUME TypeOK, TypeOK', NEW w \in Workers, Serves(w), NoCircularWait, ~CallsHimself(w), ~LogsInWaiting(w)
  PROVE NoCircularWait'
<1> DEFINE Target(login) == IF login \in DOMAIN login_to_socket' /\ login_to_socket'[login] \in DOMAIN users'
                            THEN login_to_socket'[login] ELSE NoFd
<1> SUFFICES ASSUME NEW C \in SUBSET DOMAIN users', C # {},
                    \A g \in C : /\ users'[g].status = "in_wait"
                                 /\ Target(users'[g].correspondent_login) \in C
             PROVE FALSE
  BY DEF NoCircularWait, Find, upload_user_iter
<1>0. /\ DOMAIN users \subseteq Fds /\ NoFd \notin Fds /\ DOMAIN users' \subseteq Fds
      /\ users \in [DOMAIN users -> Users]
  BY WorkAssumption DEF TypeOK, MapsOK
<1>1. ASSUME NEW g \in C, NEW login, login = users'[g].correspondent_login
      PROVE login \in DOMAIN login_to_socket' /\ login_to_socket'[login] \in C
  BY <1>0, <1>1
<1>2. ASSUME Asks(w), From(w) \in C PROVE FALSE
  <2>1. PICK fd, callee : fd = From(w) /\ callee = Find(cmd[w].login)
    OBVIOUS
  <2>2. /\ fd \in DOMAIN users /\ UNCHANGED login_to_socket /\ users[fd] \in Users
        /\ users' = [users EXCEPT ![fd] = change_to_response_waiting_mode(@, cmd[w].login)]
        /\ callee # fd /\ callee # NoFd /\ users[callee].status = "in_menu"
    BY <1>0, <1>2, <2>1 DEF Asks, Free, CallsHimself
  <2>3. callee \in DOMAIN users /\ cmd[w].login \in DOMAIN login_to_socket /\ callee = login_to_socket[cmd[w].login]
    BY <2>1, <2>2 DEF Find, upload_user_iter
  <2>4. users'[fd].correspondent_login = cmd[w].login /\ users'[callee] = users[callee]
    BY <1>0, <2>2, <2>3, Mutators DEF Reads
  <2>5. callee \in C
    BY <1>1, <1>2, <2>1, <2>2, <2>3, <2>4
  <2> QED
    BY <2>2, <2>4, <2>5
<1>3. ASSUME NEW g \in C
      PROVE /\ g \in DOMAIN users /\ users[g].status = "in_wait"
            /\ Find(users[g].correspondent_login) \in C
  <2>1. PICK login, h : /\ login = users'[g].correspondent_login
                        /\ h \in C /\ login \in DOMAIN login_to_socket' /\ login_to_socket'[login] = h
    BY <1>1
  <2>2. \A f \in {g, h} : f \in DOMAIN users /\ users'[f] = users[f] /\ ~(LogsIn(w) /\ f = From(w))
    BY <1>2, <2>1, WaitingRecord
  <2>3. login \in DOMAIN login_to_socket /\ login_to_socket[login] = h
    <3>1. CASE KeepsLogins
      BY <2>1, <3>1 DEF KeepsLogins
    <3>2. CASE LogsIn(w)
      BY <2>1, <2>2, <3>2 DEF LogsIn, Emplace
    <3>3. CASE LogsOut(w)
      BY <2>1, <3>3 DEF LogsOut, Erase
    <3>4. CASE Deletes(w)
      BY <2>1, <3>4 DEF Deletes, TableWithout, Erase
    <3> QED
      BY <3>1, <3>2, <3>3, <3>4, LoginFrame
  <2> QED
    BY <2>1, <2>2, <2>3 DEF Find, upload_user_iter
<1> QED
  BY <1>3 DEF NoCircularWait

CircleStep ==
  NoCircularWait /\ ~NoCircularWait' =>
    \E w \in Workers : Acts(w) /\ (CallsHimself(w) \/ LogsInWaiting(w))

LEMMA StepCircle == TypeOK /\ TypeOK' /\ Step => CircleStep
<1> SUFFICES ASSUME TypeOK, TypeOK', Step, NoCircularWait, ~NoCircularWait'
             PROVE \E w \in Workers : Acts(w) /\ (CallsHimself(w) \/ LogsInWaiting(w))
  BY DEF CircleStep
<1>1. ~(UNCHANGED maps)
  BY DEF maps, NoCircularWait, Find, upload_user_iter
<1> QED
  BY <1>1, MapsChange, CirclesHandle

(* Users come to wait for each other in a circle only through one who      *)
(* calls himself or whose log-in is completed while he waits: in every     *)
(* other step the receiver's status is tested when the caller starts to    *)
(* wait (user_work.cpp:227), in the same critical section.                 *)
THEOREM OnlyTwoStepsCloseCircles == Spec => NoNewCircle
<1>1. TypeOK /\ [Next]_vars => [CircleStep]_vars
  BY StepCircle, NextIsStep, NextType
<1> QED
  BY <1>1, Invariance, PTL DEF Spec, NoNewCircle, CircleStep
--------------------------------------------------------------------------------
(* Dialogues become one-sided *)

(* The records and the table before a step that is on time. *)
Mutual == TypeOK /\ LoginTableExact /\ DialogueSymmetric

OnTime(w) == ~OutOfTurn(w) /\ ~TalksMeanwhile(w)

LEMMA MutualFacts ==
  ASSUME Mutual
  PROVE /\ TypeOK /\ LoginTableSound /\ LoginTableExact
        /\ users \in [DOMAIN users -> Users] /\ \A g \in DOMAIN users : users[g] \in Users
        /\ DOMAIN users \subseteq Fds /\ NoFd \notin Fds /\ NoLogin \notin Logins
        /\ DOMAIN login_to_socket \subseteq Logins
BY WorkAssumption, UserAssumption DEF Mutual, LoginTableExact, TypeOK, MapsOK

(* A record with a login is the one the login finds, and no other login does.*)
LEMMA Owner ==
  ASSUME Mutual, NEW fd \in DOMAIN users, Authenticated(users[fd]), NEW a, a = users[fd].login
  PROVE /\ a \in Logins /\ a \in DOMAIN login_to_socket /\ login_to_socket[a] = fd /\ Find(a) = fd
        /\ \A l \in DOMAIN login_to_socket \ {a} : login_to_socket[l] # fd
<1>1. a \in Logins /\ Find(a) = fd
  BY MutualFacts DEF Users, LoginOrNone, Authenticated, LoginTableExact
<1>2. a \in DOMAIN login_to_socket /\ login_to_socket[a] = fd
  BY <1>1, MutualFacts DEF Find, upload_user_iter
<1> QED
  BY <1>1, <1>2, MutualFacts DEF LoginTableSound

(* Both ends of a dialogue. *)
LEMMA Partners ==
  ASSUME Mutual, NEW fd \in DOMAIN users, users[fd].status = "in_dialogue",
         NEW a, a = users[fd].login, NEW b, b = users[fd].correspondent_login
  PROVE /\ a \in Logins /\ Authenticated(users[fd]) /\ Find(a) = fd /\ a # b
        /\ b \in DOMAIN login_to_socket /\ Find(b) = login_to_socket[b] /\ Find(b) # fd
        /\ Find(b) \in DOMAIN users /\ users[Find(b)].login = b /\ Authenticated(users[Find(b)])
        /\ users[Find(b)].status = "in_dialogue" /\ users[Find(b)].correspondent_login = a
<1>1. PICK h : h = Find(b)
  OBVIOUS
<1>2. h # NoFd /\ h # fd /\ users[h].status = "in_dialogue" /\ users[h].correspondent_login = a
  BY <1>1 DEF Mutual, DialogueSymmetric
<1>3. h \in DOMAIN users /\ users[h].login = b /\ b \in DOMAIN login_to_socket /\ h = login_to_socket[b]
      /\ b \in Logins
  BY <1>1, <1>2, FindSound, MutualFacts
<1>4. Find(a) # NoFd
  BY <1>2, <1>3 DEF Mutual, DialogueSymmetric
<1>5. a \in Logins /\ Authenticated(users[fd]) /\ Authenticated(users[h])
  BY <1>3, <1>4, FindSound, MutualFacts DEF Authenticated
<1>6. Find(a) = fd
  BY <1>5, Owner
<1> QED
  BY <1>1, <1>2, <1>3, <1>5, <1>6

(* Dialogues are mutual if both ends of each one were in it before.        *)
LEMMA MutualKept ==
  ASSUME Mutual, TypeOK',
         \A g \in DOMAIN users' : users'[g].status = "in_dialogue" =>
           /\ g \in DOMAIN users /\ users[g].status = "in_dialogue"
           /\ users'[g].login = users[g].login
           /\ users'[g].correspondent_login = users[g].correspondent_login,
         \A g \in DOMAIN users' : users'[g].status = "in_dialogue" =>
           \A h \in DOMAIN users : h = Find(users[g].correspondent_login) =>
             h \in DOMAIN users' /\ users'[h].status = "in_dialogue",
         \A g \in DOMAIN users' : users'[g].status = "in_dialogue" =>
           \A b \in DOMAIN login_to_socket : b = users[g].correspondent_login =>
             b \in DOMAIN login_to_socket' /\ login_to_socket'[b] = login_to_socket[b]
  PROVE DialogueSymmetric'
<1> SUFFICES ASSUME NEW g \in DOMAIN users', users'[g].status = "in_dialogue",
                    NEW b, b = users'[g].correspondent_login
             PROVE /\ Find(b)' \notin {NoFd, g} /\ users'[Find(b)'].status = "in_dialogue"
                   /\ users'[Find(b)'].correspondent_login = users'[g].login
  BY DEF DialogueSymmetric
<1>1. /\ g \in DOMAIN users /\ users[g].status = "in_dialogue" /\ users'[g].login = users[g].login
      /\ b = users[g].correspondent_login
  OBVIOUS
<1>2. PICK h : h = Find(b)
  OBVIOUS
<1>3. /\ b \in DOMAIN login_to_socket /\ h = login_to_socket[b] /\ h # g /\ h \in DOMAIN users
      /\ users[h].correspondent_login = users[g].login
  BY <1>1, <1>2, Partners
<1>4. /\ h \in DOMAIN users' /\ users'[h].status = "in_dialogue"
      /\ b \in DOMAIN login_to_socket' /\ login_to_socket'[b] = h
  BY <1>1, <1>2, <1>3
<1>5. Find(b)' = h
  BY <1>4 DEF Find, upload_user_iter
<1>6. h # NoFd
  BY <1>3, MutualFacts
<1> QED
  BY <1>1, <1>3, <1>4, <1>5, <1>6

(* Who acts on time is free in the menu, unless he gives up or hangs up.   *)
LEMMA InTurn ==
  ASSUME NEW w \in Workers, ~OutOfTurn(w), From(w) \in DOMAIN users, users[From(w)] \in Users
  PROVE /\ /\ pc[w] = "handle"
           /\ cmd[w].action \in {"leave_from_account", "communication_request", "response_yes", "response_no"}
           => Authenticated(users[From(w)]) /\ users[From(w)].status = "in_menu"
        /\ At(w, "checked", "authentication") => users[From(w)].status = "in_menu"
BY DEF OutOfTurn, Authorized, Users, At

(* A deleted connection leaves with its partner's dialogue ended.          *)
LEMMA RemovesMutual ==
  ASSUME Mutual, TypeOK', NEW w \in Workers, Removes(w)
  PROVE DialogueSymmetric'
<1>1. PICK fd \in DOMAIN users : fd = From(w)
  BY DEF Removes
<1>2. /\ login_to_socket' = TableWithout(fd)
      /\ users' = [g \in DOMAIN users \ {fd} |->
                     IF g = Deserted(fd) THEN change_to_menu_mode(users[g]) ELSE users[g]]
  BY <1>1 DEF Removes
<1>3. ASSUME NEW g \in DOMAIN users', users'[g].status = "in_dialogue"
      PROVE g \in DOMAIN users \ {fd} /\ users'[g] = users[g] /\ g # Deserted(fd)
  BY <1>2, <1>3, MutualFacts, Mutators DEF Reads
<1>4. ASSUME NEW g \in DOMAIN users \ {fd}, users[g].status = "in_dialogue", g # Deserted(fd),
             NEW b, b = users[g].correspondent_login, NEW h, h = Find(b)
      PROVE /\ h # fd /\ h # Deserted(fd)
            /\ b \in DOMAIN login_to_socket' /\ login_to_socket'[b] = login_to_socket[b]
  <2>1. /\ h \in DOMAIN users /\ users[h].status = "in_dialogue" /\ users[h].login = b
        /\ users[h].correspondent_login = users[g].login /\ h = login_to_socket[b]
        /\ b \in DOMAIN login_to_socket /\ Find(users[g].login) = g /\ users[g].login # b
    BY <1>4, Partners
  <2>2. PICK x, y : x = users[fd].login /\ y = users[fd].correspondent_login
    OBVIOUS
  <2>3. Deserted(fd) # NoFd =>
          /\ users[fd].status = "in_dialogue" /\ Deserted(fd) = Find(y) /\ Find(y) # fd
          /\ users[Find(y)].correspondent_login = x /\ Find(x) = fd
    <3>1. Deserted(fd) # NoFd => users[fd].status = "in_dialogue"
      BY DEF Deserted
    <3>2. users[fd].status = "in_dialogue" =>
            /\ y \in DOMAIN login_to_socket /\ Find(y) \in DOMAIN users /\ Find(y) # fd /\ Find(y) = login_to_socket[y]
            /\ users[Find(y)].correspondent_login = x /\ Find(x) = fd /\ x # y
      BY <2>2, Partners
    <3>3. users[fd].status = "in_dialogue" => Deserted(fd) = Find(y)
      BY <2>2, <3>2 DEF Deserted, TableWithout, Erase, upload_user_iter
    <3> QED
      BY <3>1, <3>2, <3>3
  <2>4. h # fd
    <3> SUFFICES ASSUME h = fd PROVE FALSE
      OBVIOUS
    <3>1. users[fd].status = "in_dialogue" /\ y = users[g].login
      BY <2>1, <2>2
    <3>2. TableWithout(fd) = login_to_socket \/ TableWithout(fd) = Erase(login_to_socket, x)
      BY <2>2 DEF TableWithout
    <3>3. Find(y) = g /\ x # y
      BY <2>1, <2>2, <3>1
    <3>4. y \in DOMAIN login_to_socket /\ login_to_socket[y] = g
      BY <3>1, <3>3, <1>4, Partners, MutualFacts DEF Find, upload_user_iter
    <3>5. Deserted(fd) = g
      BY <2>2, <3>1, <3>2, <3>3, <3>4 DEF Deserted, Erase, upload_user_iter
    <3> QED
      BY <1>4, <3>5
  <2>5. h # Deserted(fd)
    BY <1>4, <2>1, <2>3, MutualFacts
  <2>6. b \in DOMAIN login_to_socket' /\ login_to_socket'[b] = login_to_socket[b]
    <3>1. Authenticated(users[fd]) => users[fd].login # b
      BY <2>1, <2>4, Owner
    <3> QED
      BY <1>2, <2>1, <3>1 DEF TableWithout, Erase
  <2> QED
    BY <2>4, <2>5, <2>6
<1>5. ASSUME NEW g \in DOMAIN users', users'[g].status = "in_dialogue",
             NEW h \in DOMAIN users, h = Find(users[g].correspondent_login)
      PROVE h \in DOMAIN users' /\ users'[h].status = "in_dialogue"
  <2>1. h # fd /\ h # Deserted(fd)
    BY <1>3, <1>4, <1>5
  <2>2. users[h].status = "in_dialogue"
    BY <1>3, <1>5, Partners
  <2> QED
    BY <1>2, <2>1, <2>2
<1>6. ASSUME NEW g \in DOMAIN users', users'[g].status = "in_dialogue",
             NEW b \in DOMAIN login_to_socket, b = users[g].correspondent_login
      PROVE b \in DOMAIN login_to_socket' /\ login_to_socket'[b] = login_to_socket[b]
  BY <1>3, <1>4, <1>6
<1> QED
  BY <1>3, <1>5, <1>6, MutualKept

(* A user logs in, on or off in the menu, or starts to wait there.         *)
LEMMA MenuMutual ==
  ASSUME Mutual, TypeOK', NEW fd \in DOMAIN users, users[fd].status # "in_dialogue",
         DOMAIN users' = DOMAIN users, users'[fd].status # "in_dialogue",
         \A g \in DOMAIN users \ {fd} : users'[g] = users[g],
         \A b \in DOMAIN login_to_socket : login_to_socket[b] # fd =>
           b \in DOMAIN login_to_socket' /\ login_to_socket'[b] = login_to_socket[b]
  PROVE DialogueSymmetric'
<1>1. ASSUME NEW g \in DOMAIN users', users'[g].status = "in_dialogue"
      PROVE g \in DOMAIN users /\ g # fd /\ users'[g] = users[g]
  BY <1>1
<1>2. ASSUME NEW g \in DOMAIN users', users'[g].status = "in_dialogue",
             NEW h \in DOMAIN users, h = Find(users[g].correspondent_login)
      PROVE h \in DOMAIN users' /\ users'[h].status = "in_dialogue"
  <2>1. users[h].status = "in_dialogue"
    BY <1>1, <1>2, Partners
  <2> QED
    BY <2>1
<1>3. ASSUME NEW g \in DOMAIN users', users'[g].status = "in_dialogue",
             NEW b \in DOMAIN login_to_socket, b = users[g].correspondent_login
      PROVE b \in DOMAIN login_to_socket' /\ login_to_socket'[b] = login_to_socket[b]
  <2>1. users[login_to_socket[b]].status = "in_dialogue"
    BY <1>1, <1>3, Partners
  <2> QED
    BY <2>1
<1> QED
  BY <1>1, <1>2, <1>3, MutualKept

(* A set of users goes back to the menu, each with his partner, if he has one.*)
LEMMA ReleaseMutual ==
  ASSUME Mutual, TypeOK', UNCHANGED login_to_socket, NEW S,
         users' = [g \in DOMAIN users |-> IF g \in S THEN change_to_menu_mode(users[g]) ELSE users[g]],
         \A g \in DOMAIN users \ S : users[g].status = "in_dialogue" =>
           Find(users[g].correspondent_login) \notin S
  PROVE DialogueSymmetric'
<1>1. ASSUME NEW g \in DOMAIN users', users'[g].status = "in_dialogue"
      PROVE g \in DOMAIN users \ S /\ users'[g] = users[g]
  BY <1>1, MutualFacts, Mutators DEF Reads
<1>2. ASSUME NEW g \in DOMAIN users', users'[g].status = "in_dialogue",
             NEW h \in DOMAIN users, h = Find(users[g].correspondent_login)
      PROVE h \in DOMAIN users' /\ users'[h].status = "in_dialogue"
  <2>1. users[h].status = "in_dialogue" /\ h \notin S
    BY <1>1, <1>2, Partners
  <2> QED
    BY <2>1
<1> QED
  BY <1>1, <1>2, MutualKept

(* An acceptance on time is between two users who were not talking. *)
LEMMA TalksMutual ==
  ASSUME Mutual, TypeOK', NEW w \in Workers, Talks(w), OnTime(w)
  PROVE DialogueSymmetric'
<1>1. PICK fd, asker, a, b : /\ fd = From(w) /\ asker = Find(cmd[w].login)
                             /\ a = cmd[w].login /\ b = users[fd].login
  OBVIOUS
<1>2. /\ fd \in DOMAIN users /\ asker \in DOMAIN users /\ users[asker].login = a
      /\ users[asker].status = "in_wait" /\ users[asker].correspondent_login = b
      /\ DOMAIN users' = DOMAIN users
      /\ Reads(users'[fd], b, "in_dialogue", a) /\ Reads(users'[asker], a, "in_dialogue", b)
      /\ \A g \in DOMAIN users \ {fd, asker} : users'[g] = users[g]
  BY <1>1, MutualFacts, TalksEffect
<1>3. Authenticated(users[fd]) /\ users[fd].status = "in_menu"
  BY <1>1, <1>2, MutualFacts, InTurn DEF Talks, At, OnTime
<1>4. UNCHANGED login_to_socket /\ asker # NoFd
  BY <1>1, <1>2, MutualFacts DEF Talks
<1>5. \A l : Find(l)' = Find(l)
  BY <1>2, <1>4 DEF Find, upload_user_iter
<1>6. Find(a) = asker /\ Find(b) = fd /\ fd # asker
  BY <1>1, <1>2, <1>3, Owner
<1> SUFFICES ASSUME NEW g \in DOMAIN users', users'[g].status = "in_dialogue",
                    NEW l, l = users'[g].correspondent_login
             PROVE /\ Find(l)' \notin {NoFd, g} /\ users'[Find(l)'].status = "in_dialogue"
                   /\ users'[Find(l)'].correspondent_login = users'[g].login
  BY DEF DialogueSymmetric
<1>7. CASE g = fd
  BY <1>2, <1>4, <1>5, <1>6, <1>7 DEF Reads
<1>8. CASE g = asker
  BY <1>2, <1>5, <1>6, <1>8, MutualFacts DEF Reads
<1>9. CASE g \notin {fd, asker}
  <2>1. PICK h : h = Find(l)
    OBVIOUS
  <2>2. /\ h \in DOMAIN users /\ h # g /\ users[h].status = "in_dialogue"
        /\ users[h].correspondent_login = users[g].login
    BY <1>2, <1>9, <2>1, Partners
  <2>3. users'[h] = users[h] /\ users'[g] = users[g] /\ h # NoFd
    BY <1>2, <1>3, <1>9, <2>2, MutualFacts
  <2> QED
    BY <1>5, <2>1, <2>2, <2>3
<1> QED
  BY <1>7, <1>8, <1>9

LEMMA MutualHandle ==
  ASSUME Mutual, TypeOK', NEW w \in Workers, Serves(w), OnTime(w)
  PROVE DialogueSymmetric'
<1>0. /\ users \in [DOMAIN users -> Users] /\ \A g \in DOMAIN users : users[g] \in Users
      /\ TypeOK /\ LoginTableSound /\ NoFd \notin DOMAIN users
  BY MutualFacts
<1>1. CASE UNCHANGED maps
  BY <1>1 DEF maps, Mutual, DialogueSymmetric, Find, upload_user_iter
<1>2. CASE Creates(w)
  <2>1. \A g \in DOMAIN users' : users'[g].status = "in_dialogue" => g \in DOMAIN users
    BY <1>2 DEF Creates, Emplace, New_user
  <2>2. DOMAIN users \subseteq DOMAIN users' /\ \A g \in DOMAIN users : users'[g] = users[g]
    BY <1>2 DEF Creates, Emplace
  <2>3. UNCHANGED login_to_socket
    BY <1>2 DEF Creates
  <2>4. ASSUME NEW g \in DOMAIN users, users[g].status = "in_dialogue",
               NEW h \in DOMAIN users, h = Find(users[g].correspondent_login)
        PROVE users[h].status = "in_dialogue"
    BY <2>4, Partners
  <2> QED
    BY <2>1, <2>2, <2>3, <2>4, MutualKept
<1>3. CASE Removes(w)
  BY <1>3, RemovesMutual
<1>4. CASE LogsIn(w)
  <2>1. PICK fd, a : fd = From(w) /\ a = cmd[w].login
    OBVIOUS
  <2>2. /\ fd \in DOMAIN users /\ users[fd].status = "in_menu"
        /\ users' = [users EXCEPT ![fd] = set_db_data(@, a)]
        /\ login_to_socket' = Emplace(login_to_socket, a, fd)
    BY <1>0, <1>4, <2>1, InTurn DEF LogsIn, OnTime
  <2>3. /\ DOMAIN users' = DOMAIN users /\ users'[fd].status = "in_menu"
        /\ \A g \in DOMAIN users \ {fd} : users'[g] = users[g]
    BY <1>0, <2>2, Mutators DEF Reads
  <2>4. \A b \in DOMAIN login_to_socket : b \in DOMAIN login_to_socket' /\ login_to_socket'[b] = login_to_socket[b]
    BY <2>2 DEF Emplace
  <2> QED
    BY <2>2, <2>3, <2>4, MenuMutual
<1>5. CASE Leaves(w)
  <2>1. PICK fd, a : fd = From(w) /\ a = users[fd].login
    OBVIOUS
  <2>2. /\ fd \in DOMAIN users /\ users[fd].status = "in_menu" /\ Authenticated(users[fd])
        /\ users' = [users EXCEPT ![fd] = log_off(@)]
        /\ login_to_socket' = Erase(login_to_socket, a)
    BY <1>0, <1>5, <2>1, InTurn DEF Leaves, LogsOut, OnTime, At
  <2>3. /\ DOMAIN users' = DOMAIN users /\ users'[fd].status = "in_menu"
        /\ \A g \in DOMAIN users \ {fd} : users'[g] = users[g]
    BY <1>0, <2>2, Mutators DEF Reads
  <2>4. login_to_socket[a] = fd
    BY <2>1, <2>2, Owner
  <2>5. \A b \in DOMAIN login_to_socket : login_to_socket[b] # fd =>
          b \in DOMAIN login_to_socket' /\ login_to_socket'[b] = login_to_socket[b]
    BY <2>2, <2>4 DEF Erase
  <2> QED
    BY <2>2, <2>3, <2>5, MenuMutual
<1>6. CASE Asks(w)
  <2>1. PICK fd : fd = From(w)
    OBVIOUS
  <2>2. /\ fd \in DOMAIN users /\ users[fd].status = "in_menu" /\ UNCHANGED login_to_socket
        /\ users' = [users EXCEPT ![fd] = change_to_response_waiting_mode(@, cmd[w].login)]
    BY <1>0, <1>6, <2>1, InTurn DEF Asks, OnTime, At
  <2>3. /\ DOMAIN users' = DOMAIN users /\ users'[fd].status = "in_wait"
        /\ \A g \in DOMAIN users \ {fd} : users'[g] = users[g]
    BY <1>0, <2>2, Mutators DEF Reads
  <2> QED
    BY <2>2, <2>3, MenuMutual
<1>7. CASE Talks(w)
  BY <1>7, TalksMutual
<1>8. ASSUME NEW S, Releases(w, S) PROVE DialogueSymmetric'
  <2>1. /\ UNCHANGED login_to_socket
        /\ users' = [g \in DOMAIN users |-> IF g \in S THEN change_to_menu_mode(users[g]) ELSE users[g]]
    BY <1>8 DEF Releases
  <2>2. CASE \A g \in S \cap DOMAIN users : users[g].status # "in_dialogue"
    <3>1. ASSUME NEW g \in DOMAIN users \ S, users[g].status = "in_dialogue"
          PROVE Find(users[g].correspondent_login) \notin S
      BY <2>2, <3>1, Partners
    <3> QED
      BY <2>1, <3>1, ReleaseMutual
  <2>3. CASE HangsUp(w, S)
    <3>1. PICK fd, corr : fd = From(w) /\ corr = Find(users[fd].correspondent_login)
      OBVIOUS
    <3>2. fd \in DOMAIN users /\ users[fd].status = "in_dialogue" /\ S = {fd, corr}
      BY <2>3, <3>1 DEF HangsUp
    <3>3. users[corr].correspondent_login = users[fd].login /\ Find(users[fd].login) = fd
      BY <3>1, <3>2, Partners
    <3>4. ASSUME NEW g \in DOMAIN users \ S, users[g].status = "in_dialogue"
          PROVE Find(users[g].correspondent_login) \notin S
      <4>1. PICK h : h = Find(users[g].correspondent_login)
        OBVIOUS
      <4>2. users[h].correspondent_login = users[g].login /\ Find(users[g].login) = g
        BY <3>4, <4>1, Partners
      <4> QED
        BY <3>1, <3>2, <3>3, <3>4, <4>1, <4>2
    <3> QED
      BY <2>1, <3>4, ReleaseMutual
  <2>4. IsDenied(w, S) \/ TurnsBack(w, S) => \A g \in S \cap DOMAIN users : users[g].status # "in_dialogue"
    BY DEF OnTime, TalksMeanwhile, IsDenied, TurnsBack
  <2>5. Refuses(w, S) \/ GivesUp(w, S) => \A g \in S \cap DOMAIN users : users[g].status # "in_dialogue"
    BY DEF Refuses, IsAwaited, AwaitsAnswerOf, GivesUp
  <2> QED
    BY <1>8, <2>2, <2>3, <2>4, <2>5 DEF Releases
<1> QED
  BY <1>0, <1>1, <1>2, <1>3, <1>4, <1>5, <1>6, <1>7, <1>8, RecordFrame

MutualStep ==
  LoginTableExact /\ DialogueSymmetric /\ ~DialogueSymmetric' =>
    \E w \in Workers : Acts(w) /\ (OutOfTurn(w) \/ TalksMeanwhile(w))

LEMMA StepMutual == TypeOK /\ TypeOK' /\ Step => MutualStep
<1> SUFFICES ASSUME TypeOK, TypeOK', Step, LoginTableExact, DialogueSymmetric, ~DialogueSymmetric'
             PROVE \E w \in Workers : Acts(w) /\ (OutOfTurn(w) \/ TalksMeanwhile(w))
  BY DEF MutualStep
<1>1. ~(UNCHANGED maps)
  BY DEF maps, DialogueSymmetric, Find, upload_user_iter
<1>2. PICK w \in Workers : Serves(w) /\ Acts(w)
  BY <1>1, MapsChange
<1> QED
  BY <1>2, MutualHandle DEF Mutual, OnTime

(* A partner stays behind in a dialogue only when a command is executed    *)
(* that would not be authorized any more, or when the query of an older    *)
(* call ends after its caller got into a dialogue (user_work.cpp:236-243,  *)
(* 256-260).  Answers, exits, hang-ups and lost connections of any number  *)
(* of users at once change both records.                                   *)
THEOREM OnlyLateStepsLeavePartners == Spec => DialoguesStayMutual
<1>1. TypeOK /\ [Next]_vars => [MutualStep]_vars
  BY StepMutual, NextIsStep, NextType
<1> QED
  BY <1>1, Invariance, PTL DEF Spec, DialoguesStayMutual, MutualStep
--------------------------------------------------------------------------------
(* Promises *)

(* Whoever is in the menu has no correspondent. *)
MenuAlone == \A fd \in DOMAIN users : users[fd].status = "in_menu" => users[fd].correspondent_login = NoLogin

LEMMA AloneInit == Init => MenuAlone
BY DEF Init, MenuAlone

LEMMA AloneHandle ==
  ASSUME TypeOK, MenuAlone, NEW w \in Workers, Serves(w)
  PROVE MenuAlone'
<1> SUFFICES ASSUME NEW g \in DOMAIN users', users'[g].status = "in_menu"
             PROVE users'[g].correspondent_login = NoLogin
  BY DEF MenuAlone
<1>0. users \in [DOMAIN users -> Users] /\ \A u \in DOMAIN users : users[u] \in Users
  BY DEF TypeOK, MapsOK
<1>1. CASE UNCHANGED maps
  BY <1>1 DEF maps, MenuAlone
<1>2. CASE Creates(w)
  BY <1>2 DEF Creates, Emplace, New_user, MenuAlone
<1>3. CASE Removes(w)
  BY <1>0, <1>3, Mutators DEF Removes, Reads, MenuAlone
<1>4. CASE LogsIn(w)
  BY <1>0, <1>4, Mutators DEF LogsIn, Reads, MenuAlone
<1>5. CASE Leaves(w)
  BY <1>0, <1>5, Mutators DEF Leaves, LogsOut, Reads, MenuAlone
<1>6. CASE Asks(w)
  BY <1>0, <1>6, Mutators DEF Asks, Reads, MenuAlone
<1>7. CASE Talks(w)
  <2>1. PICK fd, asker : fd = From(w) /\ asker = Find(cmd[w].login)
    OBVIOUS
  <2>2. g \in DOMAIN users /\ users'[g] = users[g]
    BY <1>7, <2>1, TalksRecords
  <2> QED
    BY <2>2 DEF MenuAlone
<1>8. ASSUME NEW S, Releases(w, S) PROVE users'[g].correspondent_login = NoLogin
  BY <1>0, <1>8, Mutators DEF Releases, Reads, MenuAlone
<1> QED
  BY <1>1, <1>2, <1>3, <1>4, <1>5, <1>6, <1>7, <1>8, RecordFrame

LEMMA AloneStep == TypeOK /\ MenuAlone /\ Step => MenuAlone'
<1>1. TypeOK /\ MenuAlone /\ UNCHANGED maps => MenuAlone'
  BY DEF maps, MenuAlone
<1> QED
  BY <1>1, MapsChange, AloneHandle

(* The state before a step that keeps the promises, and the one after it.  *)
Orderly == Mutual /\ MenuAlone
Found == TypeOK /\ LoginTableSound

(* What a record shows of its user. *)
Shown(u) == [mode |-> u.status, with |-> u.correspondent_login]

(* The table finds the record a session shows, before ... *)
LEMMA SessionIs ==
  ASSUME Found, NEW l
  PROVE Session(l) = IF l \in DOMAIN login_to_socket THEN Shown(users[login_to_socket[l]]) ELSE Promise!Offline
<1>1. DOMAIN users \subseteq Fds /\ NoFd \notin Fds
  BY WorkAssumption DEF Found, TypeOK, MapsOK
<1> QED
  BY <1>1 DEF Found, Session, Find, upload_user_iter, LoginTableSound, Shown, Promise!Offline

(* ... and after a step. *)
LEMMA SessionBecomes ==
  ASSUME Found', NEW l
  PROVE Session(l)' = IF l \in DOMAIN login_to_socket' THEN Shown(users'[login_to_socket'[l]]) ELSE Promise!Offline
<1>1. DOMAIN users' \subseteq Fds /\ NoFd \notin Fds
  BY WorkAssumption DEF Found, TypeOK, MapsOK
<1> QED
  BY <1>1 DEF Found, Session, Find, upload_user_iter, LoginTableSound, Shown, Promise!Offline

(* A session stays as it is if the record it shows does. *)
LEMMA SessionStays ==
  ASSUME Found, Found', NEW l,
         l \in DOMAIN login_to_socket' <=> l \in DOMAIN login_to_socket,
         l \in DOMAIN login_to_socket =>
           /\ login_to_socket'[l] = login_to_socket[l]
           /\ users'[login_to_socket[l]].status = users[login_to_socket[l]].status
           /\ users'[login_to_socket[l]].correspondent_login = users[login_to_socket[l]].correspondent_login
  PROVE Session(l)' = Session(l)
BY SessionIs, SessionBecomes DEF Shown

(* What the users see when no, one or two sessions change. *)
LEMMA ViewStays ==
  ASSUME \A l \in Logins : Session(l)' = Session(l)
  PROVE UNCHANGED View
BY DEF View

LEMMA OneSession ==
  ASSUME NEW a \in Logins, NEW x, Session(a)' = x, \A l \in Logins \ {a} : Session(l)' = Session(l)
  PROVE View' = [View EXCEPT ![a] = x]
BY DEF View

LEMMA TwoSessions ==
  ASSUME NEW a \in Logins, NEW b \in Logins, NEW x, NEW y, a # b, Session(a)' = x, Session(b)' = y,
         \A l \in Logins \ {a, b} : Session(l)' = Session(l)
  PROVE View' = [View EXCEPT ![a] = x, ![b] = y]
BY DEF View

LEMMA OrderlyFacts ==
  ASSUME Orderly
  PROVE Mutual /\ MenuAlone /\ Found
BY MutualFacts DEF Orderly, Found

(* What the login of a record shows. *)
LEMMA OwnerSees ==
  ASSUME Orderly, NEW fd \in DOMAIN users, Authenticated(users[fd]), NEW a, a = users[fd].login
  PROVE View[a] = Shown(users[fd])
<1>1. a \in Logins /\ a \in DOMAIN login_to_socket /\ login_to_socket[a] = fd
  BY OrderlyFacts, Owner
<1> QED
  BY <1>1, OrderlyFacts, SessionIs DEF View

(* The record of one user changes: so does one session. *)
LEMMA OneRecord ==
  ASSUME Orderly, Found', UNCHANGED login_to_socket,
         NEW fd \in DOMAIN users, Authenticated(users[fd]), NEW a, a = users[fd].login,
         \A g \in DOMAIN users \ {fd} : users'[g] = users[g]
  PROVE View' = [View EXCEPT ![a] = Shown(users'[fd])]
<1>1. /\ a \in Logins /\ a \in DOMAIN login_to_socket /\ login_to_socket[a] = fd /\ LoginTableSound
      /\ \A l \in DOMAIN login_to_socket \ {a} : login_to_socket[l] # fd
  BY OrderlyFacts, MutualFacts, Owner
<1>2. Session(a)' = Shown(users'[fd])
  BY <1>1, SessionBecomes
<1>3. ASSUME NEW l \in Logins \ {a} PROVE Session(l)' = Session(l)
  BY <1>1, <1>3, OrderlyFacts, SessionStays DEF LoginTableSound
<1> QED
  BY <1>1, <1>2, <1>3, OneSession

(* Two records change: so do two sessions. *)
LEMMA TwoRecords ==
  ASSUME Orderly, Found', UNCHANGED login_to_socket,
         NEW f \in DOMAIN users, Authenticated(users[f]), NEW a, a = users[f].login,
         NEW g \in DOMAIN users, Authenticated(users[g]), NEW b, b = users[g].login, a # b,
         \A h \in DOMAIN users \ {f, g} : users'[h] = users[h]
  PROVE View' = [View EXCEPT ![a] = Shown(users'[f]), ![b] = Shown(users'[g])]
<1>1. /\ a \in Logins /\ a \in DOMAIN login_to_socket /\ login_to_socket[a] = f /\ LoginTableSound
      /\ \A l \in DOMAIN login_to_socket \ {a} : login_to_socket[l] # f
  BY OrderlyFacts, MutualFacts, Owner
<1>2. /\ b \in Logins /\ b \in DOMAIN login_to_socket /\ login_to_socket[b] = g
      /\ \A l \in DOMAIN login_to_socket \ {b} : login_to_socket[l] # g
  BY OrderlyFacts, Owner
<1>3. Session(a)' = Shown(users'[f]) /\ Session(b)' = Shown(users'[g])
  BY <1>1, <1>2, SessionBecomes
<1>4. ASSUME NEW l \in Logins \ {a, b} PROVE Session(l)' = Session(l)
  BY <1>1, <1>2, <1>4, OrderlyFacts, SessionStays DEF LoginTableSound
<1> QED
  BY <1>1, <1>2, <1>3, <1>4, TwoSessions

(* Whoever has no login is not seen. *)
LEMMA StrangerKept ==
  ASSUME Orderly, Found', NEW fd \in DOMAIN users, ~Authenticated(users[fd]),
         DOMAIN login_to_socket' = DOMAIN login_to_socket,
         \A l \in DOMAIN login_to_socket : login_to_socket'[l] = login_to_socket[l],
         \A g \in DOMAIN users \ {fd} : users'[g] = users[g]
  PROVE UNCHANGED View
<1>1. ASSUME NEW l \in DOMAIN login_to_socket
      PROVE login_to_socket[l] \in DOMAIN users /\ login_to_socket[l] # fd
  BY <1>1, OrderlyFacts, MutualFacts DEF LoginTableSound, Authenticated
<1>2. ASSUME NEW l \in Logins PROVE Session(l)' = Session(l)
  BY <1>1, OrderlyFacts, SessionStays
<1> QED
  BY <1>2, ViewStays

(* A log-in is of a login that was off line, or shows nothing: the record  *)
(* keeps its mode, also where it had a login already.                      *)
LEMMA LogsInKept ==
  ASSUME Orderly, TypeOK', NEW w \in Workers, LogsIn(w), ~OutOfTurn(w)
  PROVE UNCHANGED View \/ \E a \in Logins : Promise!LogIn(a)
<1>1. PICK fd, a : fd = From(w) /\ a = cmd[w].login
  OBVIOUS
<1>2. /\ fd \in DOMAIN users /\ a \in Logins
      /\ users' = [users EXCEPT ![fd] = set_db_data(@, a)]
      /\ login_to_socket' = Emplace(login_to_socket, a, fd)
      /\ users[fd].status = "in_menu"
  BY <1>1, OrderlyFacts, MutualFacts, LogInType, InTurn DEF LogsIn
<1>3. users[fd].correspondent_login = NoLogin
  BY <1>2 DEF Orderly, MenuAlone
<1>4. /\ DOMAIN users' = DOMAIN users
      /\ \A g \in DOMAIN users : Shown(users'[g]) = Shown(users[g])
      /\ Shown(users'[fd]) = Promise!Menu
  BY <1>2, <1>3, OrderlyFacts, MutualFacts, Mutators DEF Reads, Shown, Promise!Menu
<1>5. /\ DOMAIN login_to_socket' = DOMAIN login_to_socket \cup {a}
      /\ \A l \in DOMAIN login_to_socket : login_to_socket'[l] = login_to_socket[l]
      /\ a \notin DOMAIN login_to_socket => login_to_socket'[a] = fd
  BY <1>2 DEF Emplace
<1>6. /\ \A l \in DOMAIN login_to_socket : login_to_socket[l] \in DOMAIN users
      /\ DOMAIN users \subseteq Fds /\ NoFd \notin Fds
  BY OrderlyFacts, MutualFacts, WorkAssumption DEF LoginTableSound, TypeOK, MapsOK
<1>7. ASSUME NEW l \in Logins, l \in DOMAIN login_to_socket \/ l # a
      PROVE Session(l)' = Session(l)
  BY <1>4, <1>5, <1>6, <1>7 DEF Session, Find, upload_user_iter, Shown
<1>8. CASE a \in DOMAIN login_to_socket
  BY <1>7, <1>8, ViewStays
<1>9. CASE a \notin DOMAIN login_to_socket
  <2>1. Session(a) = Promise!Offline
    BY <1>9, OrderlyFacts, SessionIs
  <2>2. Session(a)' = Promise!Menu
    BY <1>2, <1>4, <1>5, <1>6, <1>9 DEF Session, Find, upload_user_iter, Shown
  <2>3. View' = [View EXCEPT ![a] = Promise!Menu]
    BY <1>2, <1>7, <2>2, OneSession
  <2> QED
    BY <1>2, <2>1, <2>3 DEF Promise!LogIn, View
<1> QED
  BY <1>8, <1>9

(* The session of a user who goes, and the ones of all others.             *)
LEMMA GoneKept ==
  ASSUME Orderly, Found', NEW fd \in DOMAIN users,
         Authenticated(users[fd]), NEW a, a = users[fd].login,
         login_to_socket' = Erase(login_to_socket, a),
         \A g \in DOMAIN users \ {fd} :
           users'[g] = IF g = Deserted(fd) THEN change_to_menu_mode(users[g]) ELSE users[g]
  PROVE a \in Logins /\ Promise!LogOut(a)
<1>1. /\ a \in Logins /\ a \in DOMAIN login_to_socket /\ login_to_socket[a] = fd
      /\ View[a] = Shown(users[fd])
      /\ \A l \in DOMAIN login_to_socket \ {a} : login_to_socket[l] # fd
  BY OrderlyFacts, Owner, OwnerSees
<1>2. View[a] # Promise!Offline
  BY <1>1, OrderlyFacts, MutualFacts DEF Shown, Promise!Offline, Users
<1>3. /\ DOMAIN login_to_socket' = DOMAIN login_to_socket \ {a}
      /\ \A l \in DOMAIN login_to_socket \ {a} : login_to_socket'[l] = login_to_socket[l]
  BY DEF Erase
<1>4. Session(a)' = Promise!Offline
  BY <1>3, SessionBecomes
<1>5. View[a] = Promise!Talking(users[fd].correspondent_login) <=> users[fd].status = "in_dialogue"
  BY <1>1 DEF Shown, Promise!Talking
<1>6. ASSUME NEW l \in Logins \ {a}
      PROVE Session(l)' = IF View[a] = Promise!Talking(l) THEN Promise!Menu ELSE View[l]
  <2>0. View[l] = Session(l)
    BY DEF View
  <2>1. CASE l \notin DOMAIN login_to_socket
    <3>1. Session(l)' = Promise!Offline /\ View[l] = Promise!Offline
      BY <1>3, <2>0, <2>1, OrderlyFacts, SessionIs, SessionBecomes
    <3>2. View[a] # Promise!Talking(l)
      <4> SUFFICES ASSUME View[a] = Promise!Talking(l) PROVE FALSE
        OBVIOUS
      <4>1. users[fd].status = "in_dialogue" /\ users[fd].correspondent_login = l
        BY <1>1 DEF Shown, Promise!Talking
      <4> QED
        BY <2>1, <4>1, OrderlyFacts, Partners
    <3> QED
      BY <3>1, <3>2
  <2>2. CASE l \in DOMAIN login_to_socket
    <3>1. PICK h : h = login_to_socket[l]
      OBVIOUS
    <3>2. h \in DOMAIN users /\ users[h].login = l /\ h # fd /\ h # NoFd
      BY <1>1, <2>2, <3>1, OrderlyFacts, MutualFacts DEF LoginTableSound
    <3>3. Session(l)' = Shown(users'[h]) /\ View[l] = Shown(users[h])
      BY <1>3, <2>0, <2>2, <3>1, OrderlyFacts, SessionIs, SessionBecomes
    <3>4. TableWithout(fd) = Erase(login_to_socket, a)
      BY DEF TableWithout
    <3>5. CASE View[a] = Promise!Talking(l)
      <4>1. users[fd].status = "in_dialogue" /\ users[fd].correspondent_login = l
        BY <1>1, <3>5 DEF Shown, Promise!Talking
      <4>2. Deserted(fd) = h
        BY <1>3, <2>2, <3>1, <3>2, <3>4, <4>1 DEF Deserted, upload_user_iter
      <4> QED
        BY <3>2, <3>3, <3>5, <4>2, OrderlyFacts, MutualFacts, Mutators DEF Shown, Reads, Promise!Menu
    <3>6. CASE View[a] # Promise!Talking(l)
      <4>1. ~(users[fd].status = "in_dialogue" /\ users[fd].correspondent_login = l)
        BY <1>1, <3>6 DEF Shown, Promise!Talking
      <4>2. ASSUME NEW m \in DOMAIN login_to_socket', m # l PROVE login_to_socket'[m] # h
        BY <1>3, <3>2, <4>2, OrderlyFacts, MutualFacts DEF LoginTableSound
      <4>3. Deserted(fd) # h
        BY <3>2, <3>4, <4>1, <4>2 DEF Deserted, upload_user_iter
      <4> QED
        BY <3>2, <3>3, <3>6, <4>3
    <3> QED
      BY <3>5, <3>6
  <2> QED
    BY <2>1, <2>2
<1>7. View' = [b \in Logins |-> IF b = a THEN Promise!Offline
                              ELSE IF View[a] = Promise!Talking(b) THEN Promise!Menu ELSE View[b]]
  BY <1>4, <1>6 DEF View
<1> QED
  BY <1>1, <1>2, <1>7 DEF Promise!LogOut, View

(* A deleted connection, with or without a login.                          *)
LEMMA RemovesKept ==
  ASSUME Orderly, Found', NEW w \in Workers, Removes(w)
  PROVE UNCHANGED View \/ \E a \in Logins : Promise!LogOut(a)
<1>1. PICK fd \in DOMAIN users : fd = From(w)
  BY DEF Removes
<1>2. /\ login_to_socket' = TableWithout(fd)
      /\ \A g \in DOMAIN users \ {fd} :
           users'[g] = IF g = Deserted(fd) THEN change_to_menu_mode(users[g]) ELSE users[g]
  BY <1>1 DEF Removes
<1>3. CASE Authenticated(users[fd])
  <2>1. login_to_socket' = Erase(login_to_socket, users[fd].login)
    BY <1>2, <1>3 DEF TableWithout
  <2> QED
    BY <1>2, <1>3, <2>1, GoneKept
<1>4. CASE ~Authenticated(users[fd])
  <2>1. users[fd].status # "in_dialogue"
    BY <1>4, OrderlyFacts, Partners
  <2>2. Deserted(fd) = NoFd /\ UNCHANGED login_to_socket
    BY <1>2, <1>4, <2>1 DEF Deserted, TableWithout
  <2> QED
    BY <1>2, <1>4, <2>2, OrderlyFacts, MutualFacts, StrangerKept
<1> QED
  BY <1>3, <1>4

(* A user who logs off on time. *)
LEMMA LeavesKept ==
  ASSUME Orderly, Found', NEW w \in Workers, Leaves(w), ~OutOfTurn(w)
  PROVE \E a \in Logins : Promise!LogOut(a)
<1>1. PICK fd \in DOMAIN users : fd = From(w)
  BY DEF Leaves, LogsOut
<1>2. /\ login_to_socket' = Erase(login_to_socket, users[fd].login)
      /\ \A g \in DOMAIN users \ {fd} : users'[g] = users[g]
  BY <1>1 DEF Leaves, LogsOut
<1>3. Authenticated(users[fd]) /\ users[fd].status = "in_menu"
  BY <1>1, OrderlyFacts, MutualFacts, InTurn DEF Leaves, At
<1>4. Deserted(fd) = NoFd
  BY <1>3 DEF Deserted
<1> QED
  BY <1>2, <1>3, <1>4, OrderlyFacts, MutualFacts, GoneKept

(* A caller and another user whom he found in the menu. *)
LEMMA AsksKept ==
  ASSUME Orderly, Found', NEW w \in Workers, Asks(w), ~OutOfTurn(w), ~CallsHimself(w)
  PROVE \E a, b \in Logins : Promise!Ask(a, b)
<1>1. PICK fd, callee : fd = From(w) /\ callee = Find(cmd[w].login)
  OBVIOUS
<1>2. PICK a, b : a = users[fd].login /\ b = cmd[w].login
  OBVIOUS
<1>3. /\ fd \in DOMAIN users /\ Authenticated(users[fd]) /\ users[fd].status = "in_menu"
      /\ callee # fd /\ callee # NoFd /\ users[callee].status = "in_menu"
  BY <1>1, OrderlyFacts, MutualFacts, InTurn DEF Asks, Free, CallsHimself, At
<1>4. /\ callee \in DOMAIN users /\ users[callee].login = b /\ b \in Logins
      /\ Authenticated(users[callee])
  BY <1>1, <1>2, <1>3, OrderlyFacts, MutualFacts, FindSound DEF Authenticated
<1>5. /\ a \in Logins /\ a # b /\ View[a] = Promise!Menu /\ View[b] = Promise!Menu
  <2>1. a \in Logins /\ Find(a) = fd /\ View[a] = Shown(users[fd]) /\ View[b] = Shown(users[callee])
    BY <1>2, <1>3, <1>4, OrderlyFacts, Owner, OwnerSees
  <2>2. users[fd].correspondent_login = NoLogin /\ users[callee].correspondent_login = NoLogin
    BY <1>3, <1>4 DEF Orderly, MenuAlone
  <2> QED
    BY <1>1, <1>2, <1>3, <2>1, <2>2 DEF Shown, Promise!Menu
<1>6. View' = [View EXCEPT ![a] = Promise!Waiting(b)]
  <2>1. /\ UNCHANGED login_to_socket
        /\ users' = [users EXCEPT ![fd] = change_to_response_waiting_mode(@, b)]
    BY <1>1, <1>2 DEF Asks
  <2>2. /\ Shown(users'[fd]) = Promise!Waiting(b) /\ \A g \in DOMAIN users \ {fd} : users'[g] = users[g]
    BY <1>3, <2>1, OrderlyFacts, MutualFacts, Mutators DEF Reads, Shown, Promise!Waiting
  <2> QED
    BY <1>2, <1>3, <2>1, <2>2, OneRecord
<1> QED
  BY <1>4, <1>5, <1>6 DEF Promise!Ask, View

(* An acceptance on time finds the callee in the menu and the caller waiting. *)
LEMMA TalksKept ==
  ASSUME Orderly, Found', NEW w \in Workers, Talks(w), ~OutOfTurn(w)
  PROVE \E a, b \in Logins : Promise!Accept(b, a)
<1>1. PICK fd, asker, a, b : /\ fd = From(w) /\ asker = Find(cmd[w].login)
                             /\ a = cmd[w].login /\ b = users[fd].login
  OBVIOUS
<1>2. /\ fd \in DOMAIN users /\ asker \in DOMAIN users /\ users[asker].login = a /\ a \in Logins
      /\ users[asker].status = "in_wait" /\ users[asker].correspondent_login = b
      /\ Reads(users'[fd], b, "in_dialogue", a) /\ Reads(users'[asker], a, "in_dialogue", b)
      /\ \A g \in DOMAIN users \ {fd, asker} : users'[g] = users[g]
  <2>1. a \in Logins
    BY <1>1, OrderlyFacts, MutualFacts, FindSound DEF Talks, IsAwaited
  <2> QED
    BY <1>1, <2>1, OrderlyFacts, MutualFacts, TalksEffect
<1>3. /\ Authenticated(users[asker]) /\ Authenticated(users[fd])
      /\ users[fd].status = "in_menu" /\ users[fd].correspondent_login = NoLogin
  <2>1. Authenticated(users[fd]) /\ users[fd].status = "in_menu"
    BY <1>1, <1>2, OrderlyFacts, MutualFacts, InTurn DEF Talks, At
  <2> QED
    BY <1>2, <2>1, OrderlyFacts, MutualFacts DEF Authenticated, MenuAlone
<1>4. /\ b \in Logins /\ View[a] = Shown(users[asker]) /\ View[b] = Shown(users[fd])
  BY <1>1, <1>2, <1>3, OrderlyFacts, Owner, OwnerSees
<1>5. View[a] = Promise!Waiting(b) /\ View[b] = Promise!Menu /\ a # b
  BY <1>2, <1>3, <1>4 DEF Shown, Promise!Waiting, Promise!Menu
<1>6. UNCHANGED login_to_socket
  BY DEF Talks
<1>7. View' = [View EXCEPT ![a] = Shown(users'[asker]), ![b] = Shown(users'[fd])]
  BY <1>1, <1>2, <1>3, <1>5, <1>6, TwoRecords
<1>8. View' = [View EXCEPT ![a] = Promise!Talking(b), ![b] = Promise!Talking(a)]
  BY <1>2, <1>7 DEF Reads, Shown, Promise!Talking
<1> QED
  BY <1>2, <1>4, <1>5, <1>8 DEF Promise!Accept, View

(* A user who is not talking goes back to the menu. *)
LEMMA WithdrawKept ==
  ASSUME Orderly, Found', UNCHANGED login_to_socket, NEW fd, fd \in DOMAIN users => users[fd].status # "in_dialogue",
         users' = [g \in DOMAIN users |-> IF g \in {fd} THEN change_to_menu_mode(users[g]) ELSE users[g]]
  PROVE UNCHANGED View \/ \E a \in Logins : Promise!Withdraw(a)
<1>0. users \in [DOMAIN users -> Users] /\ \A g \in DOMAIN users : users[g] \in Users
  BY OrderlyFacts, MutualFacts
<1>1. CASE fd \notin DOMAIN users
  <2>1. users' = users
    BY <1>0, <1>1
  <2> QED
    BY <2>1 DEF View, Session, Find, upload_user_iter
<1>2. CASE fd \in DOMAIN users /\ ~Authenticated(users[fd])
  BY <1>2, StrangerKept
<1>3. CASE fd \in DOMAIN users /\ Authenticated(users[fd])
  <2>1. PICK a : a = users[fd].login
    OBVIOUS
  <2>2. a \in Logins /\ View[a] = Shown(users[fd])
    BY <1>3, <2>1, OrderlyFacts, Owner, OwnerSees
  <2>3. Shown(users'[fd]) = Promise!Menu /\ \A g \in DOMAIN users \ {fd} : users'[g] = users[g]
    BY <1>0, <1>3, Mutators DEF Reads, Shown, Promise!Menu
  <2>4. View' = [View EXCEPT ![a] = Promise!Menu]
    BY <1>3, <2>1, <2>3, OneRecord
  <2>5. CASE users[fd].status = "in_menu"
    <3>1. View[a] = Promise!Menu
      BY <1>3, <2>2, <2>5 DEF Orderly, MenuAlone, Shown, Promise!Menu
    <3>2. View' = View
      BY <2>4, <3>1 DEF View
    <3> QED
      BY <3>2
  <2>6. CASE users[fd].status = "in_wait"
    <3>1. View[a].mode = "in_wait"
      BY <2>2, <2>6 DEF Shown
    <3> QED
      BY <2>2, <2>4, <3>1 DEF Promise!Withdraw, View
  <2> QED
    BY <1>0, <1>3, <2>5, <2>6 DEF Users
<1> QED
  BY <1>1, <1>2, <1>3

(* Whoever hangs up takes the partner along. *)
LEMMA HangsUpKept ==
  ASSUME Orderly, Found', NEW w \in Workers, NEW S, HangsUp(w, S), Releases(w, S)
  PROVE \E a \in Logins : Promise!Close(a)
<1>1. PICK fd \in DOMAIN users : fd = From(w) /\ users[fd].status = "in_dialogue"
  BY DEF HangsUp
<1>2. PICK a, b : a = users[fd].login /\ b = users[fd].correspondent_login
  OBVIOUS
<1>3. PICK corr : corr = Find(b)
  OBVIOUS
<1>4. /\ a \in Logins /\ Authenticated(users[fd]) /\ a # b
      /\ corr # fd /\ corr \in DOMAIN users /\ users[corr].login = b /\ Authenticated(users[corr])
  BY <1>1, <1>2, <1>3, OrderlyFacts, Partners
<1>5. View[a] = Promise!Talking(b)
  BY <1>1, <1>2, <1>4, OwnerSees DEF Shown, Promise!Talking
<1>6. /\ UNCHANGED login_to_socket
      /\ users' = [g \in DOMAIN users |-> IF g \in {fd, corr} THEN change_to_menu_mode(users[g]) ELSE users[g]]
  BY <1>1, <1>2, <1>3 DEF HangsUp, Releases
<1>7. /\ Shown(users'[fd]) = Promise!Menu /\ Shown(users'[corr]) = Promise!Menu
      /\ \A g \in DOMAIN users \ {fd, corr} : users'[g] = users[g]
  BY <1>4, <1>6, OrderlyFacts, MutualFacts, Mutators DEF Reads, Shown, Promise!Menu
<1>8. View' = [View EXCEPT ![a] = Promise!Menu, ![b] = Promise!Menu]
  BY <1>2, <1>4, <1>6, <1>7, TwoRecords
<1>9. View[a].mode = "in_dialogue" /\ View[a].with = b
  BY <1>5 DEF Promise!Talking
<1> QED
  BY <1>4, <1>8, <1>9 DEF Promise!Close, View

LEMMA ReleasesKept ==
  ASSUME Orderly, Found', NEW w \in Workers, OnTime(w), NEW S, Releases(w, S)
  PROVE \/ UNCHANGED View
        \/ \E a \in Logins : Promise!Withdraw(a) \/ Promise!Close(a)
<1>1. CASE HangsUp(w, S)
  BY <1>1, HangsUpKept
<1>2. CASE ~HangsUp(w, S)
  <2>1. PICK fd : S = {fd}
    BY <1>2 DEF Releases, IsDenied, TurnsBack, Refuses, GivesUp
  <2>2. fd \in DOMAIN users => users[fd].status # "in_dialogue"
    BY <1>2, <2>1 DEF Releases, OnTime, TalksMeanwhile, IsDenied, TurnsBack, Refuses, IsAwaited, AwaitsAnswerOf, GivesUp
  <2>3. /\ UNCHANGED login_to_socket
        /\ users' = [g \in DOMAIN users |-> IF g \in {fd} THEN change_to_menu_mode(users[g]) ELSE users[g]]
    BY <2>1 DEF Releases
  <2> QED
    BY <2>2, <2>3, WithdrawKept
<1> QED
  BY <1>1, <1>2

(* A step of a worker; a second log-in may leave the table unsound.        *)
LEMMA ViewHandle ==
  ASSUME Orderly, TypeOK', NEW w \in Workers, Serves(w), OnTime(w), ~CallsHimself(w),
         ~LogsInAgain(w) => LoginTableSound'
  PROVE [Promise!Next]_View
<1>1. UNCHANGED maps => UNCHANGED View
  BY DEF maps, View, Session, Find, upload_user_iter
<1>2. LogsIn(w) => UNCHANGED View \/ \E a \in Logins : Promise!LogIn(a)
  BY LogsInKept DEF OnTime
<1>3. Creates(w) \/ Removes(w) \/ Leaves(w) \/ Asks(w) \/ Talks(w) \/ (\E S : Releases(w, S)) => Found'
  BY DEF Creates, Removes, Leaves, Asks, Talks, Releases, IsDenied, TurnsBack, Refuses, GivesUp, HangsUp,
     LogsInAgain, At, Found
<1>4. Creates(w) => UNCHANGED View
  <2> SUFFICES ASSUME Creates(w) PROVE UNCHANGED View
    OBVIOUS
  <2>1. ASSUME NEW l \in DOMAIN login_to_socket
        PROVE users'[login_to_socket[l]] = users[login_to_socket[l]]
    BY <2>1, OrderlyFacts, MutualFacts DEF Creates, Emplace, LoginTableSound
  <2>2. ASSUME NEW l \in Logins PROVE Session(l)' = Session(l)
    BY <1>3, <2>1, OrderlyFacts, SessionStays DEF Creates
  <2> QED
    BY <2>2, ViewStays
<1>5. Removes(w) \/ Leaves(w) => UNCHANGED View \/ \E a \in Logins : Promise!LogOut(a)
  BY <1>3, RemovesKept, LeavesKept DEF OnTime
<1>6. Asks(w) => \E a, b \in Logins : Promise!Ask(a, b)
  BY <1>3, AsksKept DEF OnTime
<1>7. Talks(w) => \E a, b \in Logins : Promise!Accept(b, a)
  BY <1>3, TalksKept DEF OnTime
<1>8. ASSUME NEW S, Releases(w, S)
      PROVE UNCHANGED View \/ \E a \in Logins : Promise!Withdraw(a) \/ Promise!Close(a)
  BY <1>3, <1>8, ReleasesKept
<1>9. \/ UNCHANGED maps
      \/ Creates(w) \/ Removes(w) \/ LogsIn(w) \/ Leaves(w) \/ Asks(w) \/ Talks(w)
      \/ \E S : Releases(w, S)
  BY OrderlyFacts, MutualFacts, RecordFrame
<1> QED
  BY <1>1, <1>2, <1>4, <1>5, <1>6, <1>7, <1>8, <1>9 DEF Promise!Next

PromiseStep ==
  LoginTableExact /\ DialogueSymmetric =>
    \/ [Promise!Next]_View
    \/ \E w \in Workers : Acts(w) /\ (OutOfTurn(w) \/ TalksMeanwhile(w) \/ CallsHimself(w))

LEMMA StepPromise == TypeOK /\ TypeOK' /\ MenuAlone /\ Step => PromiseStep
<1> SUFFICES ASSUME TypeOK, TypeOK', MenuAlone, Step, LoginTableExact, DialogueSymmetric,
                    ~ \E w \in Workers : Acts(w) /\ (OutOfTurn(w) \/ TalksMeanwhile(w) \/ CallsHimself(w))
             PROVE [Promise!Next]_View
  BY DEF PromiseStep
<1>1. CASE UNCHANGED maps
  BY <1>1 DEF maps, View, Session, Find, upload_user_iter
<1>2. CASE ~(UNCHANGED maps)
  <2>1. PICK w \in Workers : Serves(w) /\ Acts(w)
    BY <1>2, MapsChange
  <2>2. ~LogsInAgain(w) => LoginTableSound'
    <3> SUFFICES ASSUME ~LogsInAgain(w), NEW login \in DOMAIN login_to_socket' PROVE EntryTrue(login)'
      BY DEF LoginTableSound, EntryTrue
    <3>1. login \in Logins /\ EntryTrue(login)
      BY DEF TypeOK, MapsOK, LoginTableExact, LoginTableSound, EntryTrue
    <3> QED
      BY <2>1, <3>1, EntryStays
  <2> QED
    BY <2>1, <2>2, ViewHandle DEF Orderly, Mutual, OnTime
<1> QED
  BY <1>1, <1>2

(* With the login table and the dialogues in order, every step of every    *)
(* worker is a promised one or shows nothing, except the late steps: a     *)
(* command that would not be authorized any more, the query of an older    *)
(* call that ends in a dialogue, and a call to oneself.                    *)
(* In particular an acceptance starts the dialogue of a free user with the *)
(* one who waits for him (user_work.cpp:328), and a log-off, an exit or a  *)
(* lost connection releases the partner.                                   *)
THEOREM OnlyLateStepsBreakPromises == Spec => PromisesBrokenLate
<1>1. Init => TypeOK /\ MenuAlone
  BY InitType, AloneInit
<1>2. TypeOK /\ MenuAlone /\ [Next]_vars => (TypeOK /\ MenuAlone)'
  BY NextType, AloneStep, NextIsStep
<1>3. TypeOK /\ MenuAlone /\ [Next]_vars => [PromiseStep]_vars
  BY StepPromise, NextIsStep, NextType
<1> QED
  BY <1>1, <1>2, <1>3, PTL DEF Spec, PromisesBrokenLate, PromiseStep
--------------------------------------------------------------------------------
(* What a request carries: where it starts, what is kept of it, where it   *)
(* is sent and where it is shown.                                          *)

(* The first half of a request that found its receiver free. *)
CopiesOf(w) ==
  [login |-> users[From(w)].login, peer |-> users[Find(cmd[w].login)].login,
   socket |-> Find(cmd[w].login), node |-> From(w)]

StartsCall(w) == Asks(w) /\ held' = [held EXCEPT ![w] = CopiesOf(w)]

(* A worker goes on after the authorization, after a first critical        *)
(* section, or to push and close.                                          *)
LEMMA Advances ==
  ASSUME TypeOK, NEW w \in Workers, Serves(w), pc'[w] \in {"handle", "checked"}
  PROVE /\ cmd'[w] = cmd[w]
        /\ \/ /\ pc[w] = "popped" /\ pc'[w] = "handle" /\ UNCHANGED <<maps, held>>
              /\ From(w) \in DOMAIN users /\ Authorized(users[From(w)], cmd[w].action)
           \/ /\ pc[w] = "handle" /\ pc'[w] = "checked" /\ UNCHANGED <<maps, held>>
              /\ cmd[w].action # "communication_request"
           \/ pc[w] = "handle" /\ pc'[w] = "checked" /\ StartsCall(w)
<1>0. pc \in [Workers -> {"idle", "popped", "handle", "checked", "reject", "close", "send"}]
  BY DEF TypeOK, LocalsOK
<1>1. ASSUME NEW messages, Finish(w, messages) PROVE FALSE
  BY <1>0, <1>1 DEF Finish
<1>2. ASSUME NEW point, Goto(w, point) PROVE pc'[w] = point /\ cmd'[w] = cmd[w]
  BY <1>0, <1>2 DEF Goto
<1>3. ~make_new_user(w) /\ ~erase_user(w) /\ ~reject_close(w) /\ ~no_case(w) /\ ~SendsOut(w)
  BY <1>1 DEF make_new_user, erase_user, reject_close, no_case, SendsOut
<1>4. ~authentication_finish(w) /\ ~leave_from_account(w) /\ ~request_denied(w) /\ ~request_forward(w)
      /\ ~communication_response(w) /\ ~send_message(w) /\ ~exit_dialog(w) /\ ~reject_push(w)
  BY <1>1, <1>2 DEF authentication_finish, leave_from_account, request_denied, request_forward,
     communication_response, send_message, exit_dialog, reject_push
<1>5. CASE authorization(w)
  BY <1>2, <1>5 DEF authorization
<1>6. CASE authentication_lookup(w) \/ registration(w)
  BY <1>1, <1>2, <1>6 DEF authentication_lookup, registration, At
<1>7. CASE \/ get_friends_list(w) \/ get_friends_requests(w) \/ accept_friendship(w)
           \/ discard_friendship(w) \/ make_friend_request(w)
  BY <1>1, <1>2, <1>7 DEF get_friends_list, get_friends_requests, accept_friendship,
     discard_friendship, make_friend_request, list_command, database_command
<1>8. CASE request_start(w)
  BY <1>1, <1>2, <1>8 DEF request_start, StartsCall, CopiesOf, Asks, At
<1> QED
  BY <1>3, <1>4, <1>5, <1>6, <1>7, <1>8 DEF Serves, Work

(* The copies of another worker keep all but their iterator.               *)
LEMMA HeldFrame ==
  ASSUME TypeOK, NEW w \in Workers, Serves(w), NEW v \in Workers, v # w
  PROVE /\ held'[v].login = held[v].login /\ held'[v].peer = held[v].peer
        /\ held'[v].socket = held[v].socket
<1>0. held \in [Workers -> Copies] /\ held[v] \in Copies
  BY DEF TypeOK, LocalsOK
<1>1. CASE UNCHANGED held
  BY <1>1
<1>2. CASE make_new_user(w)
  BY <1>0, <1>2 DEF make_new_user, Copies
<1>3. CASE erase_user(w)
  BY <1>0, <1>3 DEF erase_user, Copies
<1>4. CASE request_start(w) \/ request_denied(w) \/ request_forward(w)
  BY <1>0, <1>4 DEF request_start, request_denied, request_forward, Drop
<1>5. CASE \/ authorization(w) \/ reject_push(w) \/ reject_close(w) \/ no_case(w) \/ SendsOut(w)
           \/ authentication_lookup(w) \/ authentication_finish(w) \/ registration(w)
           \/ leave_from_account(w) \/ communication_response(w) \/ send_message(w) \/ exit_dialog(w)
           \/ get_friends_list(w) \/ get_friends_requests(w) \/ accept_friendship(w)
           \/ discard_friendship(w) \/ make_friend_request(w)
  BY <1>1, <1>5 DEF authorization, reject_push, reject_close, no_case, SendsOut, authentication_lookup,
     authentication_finish, registration, leave_from_account, communication_response, send_message,
     exit_dialog, get_friends_list, get_friends_requests, accept_friendship, discard_friendship,
     make_friend_request, list_command, database_command
<1> QED
  BY <1>2, <1>3, <1>4, <1>5 DEF Serves, Work

(* A request is sent after the database approved it.                       *)
LEMMA RequestFrame ==
  ASSUME TypeOK, NEW w \in Workers, Serves(w), NEW i \in DOMAIN out'[w],
         out'[w][i].response = "communication_request_from_server"
  PROVE \/ \E j \in DOMAIN out[w] : out'[w][i] = out[w][j]
        \/ /\ At(w, "checked", "communication_request") /\ Check_friends(w)
           /\ out'[w][i].to = held[w].socket /\ out'[w][i].login = held[w].login
<1>0. out \in [Workers -> Seq(Messages)]
  BY DEF TypeOK, LocalsOK
<1>1. ASSUME NEW messages, Finish(w, messages) PROVE out'[w] = messages
  BY <1>0, <1>1 DEF Finish
<1>2. ASSUME NEW point, Goto(w, point) PROVE out'[w] = out[w]
  BY <1>2 DEF Goto
<1>3. CASE out'[w] = out[w]
  BY <1>3
<1>4. ASSUME Finish(w, <<>>) PROVE FALSE
  BY <1>1, <1>4
<1>5. \A to, response, login : /\ Message(to, response, login).response = response
                               /\ Message(to, response, login).to = to
                               /\ Message(to, response, login).login = login
                               /\ DOMAIN <<Message(to, response, login)>> = {1}
  BY DEF Message
<1>6. ASSUME NEW to, NEW response, NEW login, response # "communication_request_from_server",
             Finish(w, <<Message(to, response, login)>>)
      PROVE FALSE
  BY <1>1, <1>5, <1>6
<1>7. ASSUME NEW response, response # "communication_request_from_server", Finish(w, Reply(w, response))
      PROVE FALSE
  BY <1>6, <1>7 DEF Reply
<1>8. ASSUME NEW response, response # "communication_request_from_server", NEW a, NEW b, NEW login,
             NEW one, one = Message(a, response, login), NEW other, other = Message(b, response, login),
             Finish(w, <<one, other>>)
      PROVE FALSE
  <2>1. out'[w] = <<one, other>> /\ one.response = response /\ other.response = response
    BY <1>1, <1>5, <1>8
  <2> QED
    BY <1>8, <2>1
<1>9. CASE SendsOut(w)
  <2>1. out'[w] = Tail(out[w]) /\ out[w] \in Seq(Messages) /\ out[w] # <<>>
    BY <1>0, <1>1, <1>9 DEF SendsOut, TypeOK, LocalsOK
  <2>2. i + 1 \in DOMAIN out[w] /\ out'[w][i] = out[w][i + 1]
    BY <2>1
  <2> QED
    BY <2>2
<1>10. CASE \/ make_new_user(w) \/ erase_user(w) \/ reject_close(w) \/ no_case(w) \/ leave_from_account(w)
            \/ authorization(w) \/ reject_push(w)
  BY <1>2, <1>3, <1>4, <1>10 DEF make_new_user, erase_user, reject_close, no_case,
     leave_from_account, authorization, reject_push
<1>11. CASE authentication_lookup(w) \/ authentication_finish(w) \/ registration(w)
  BY <1>2, <1>3, <1>4, <1>7, <1>11 DEF authentication_lookup, authentication_finish, registration
<1>12. CASE \/ get_friends_list(w) \/ get_friends_requests(w) \/ accept_friendship(w)
            \/ discard_friendship(w) \/ make_friend_request(w)
  BY <1>2, <1>3, <1>4, <1>7, <1>12 DEF get_friends_list, get_friends_requests, accept_friendship,
     discard_friendship, make_friend_request, list_command, database_command
<1>13. CASE request_start(w) \/ request_denied(w)
  BY <1>2, <1>3, <1>4, <1>7, <1>13 DEF request_start, request_denied
<1>14. CASE request_forward(w)
  <2>1. CASE Finish(w, <<Message(held[w].socket, "communication_request_from_server", held[w].login)>>)
    BY <1>1, <1>5, <1>14, <2>1 DEF request_forward
  <2> QED
    BY <1>4, <1>7, <1>14, <2>1 DEF request_forward
<1>15. CASE communication_response(w)
  BY <1>4, <1>6, <1>7, <1>8, <1>15 DEF communication_response
<1>16. CASE send_message(w)
  BY <1>4, <1>7, <1>8, <1>16 DEF send_message
<1>17. CASE exit_dialog(w)
  BY <1>4, <1>6, <1>17 DEF exit_dialog
<1> QED
  BY <1>9, <1>10, <1>11, <1>12, <1>13, <1>14, <1>15, <1>16, <1>17 DEF Serves, Work
(* A prompt appears because a request is sent.                             *)
LEMMA PromptFrame ==
  ASSUME TypeOK, NEW w \in Workers, Handle(w), NEW fd \in Fds
  PROVE \/ win'[fd].caller \in {NoLogin, win[fd].caller}
        \/ /\ pc[w] = "send" /\ Head(out[w]).to = fd /\ win'[fd].caller = Head(out[w]).login
           /\ Head(out[w]).response = "communication_request_from_server"
<1>0. win \in [Fds -> Windows]
  BY DEF TypeOK, WorldOK
<1>1. \A v \in Windows : \A response, login :
        \/ AfterReceiving(v, response, login).caller \in {NoLogin, v.caller}
        \/ /\ response = "communication_request_from_server"
           /\ AfterReceiving(v, response, login).caller = login
  BY DEF Windows, AfterReceiving, Show
<1>2. CASE UNCHANGED win
  BY <1>2
<1>3. CASE delete_user(w)
  <2>1. win' = Received(win, Deserted(From(w)), "dialog_closed", NoLogin)
    BY <1>3 DEF delete_user, send_command
  <2> QED
    BY <1>0, <1>1, <2>1 DEF Received
<1>4. CASE reject_close(w)
  BY <1>0, <1>4 DEF reject_close, FreshWindows
<1>5. CASE Send(w)
  <2> DEFINE m == Head(out[w])
  <2>1. pc[w] = "send" /\ win' = Received(win, m.to, m.response, m.login)
    BY <1>5 DEF Send, send_command
  <2>2. CASE m.to = fd /\ fd \in sockets
    <3>1. win'[fd] = AfterReceiving(win[fd], m.response, m.login)
      BY <1>0, <2>1, <2>2 DEF Received
    <3> QED
      BY <1>0, <1>1, <2>1, <2>2, <3>1
  <2>3. CASE ~(m.to = fd /\ fd \in sockets)
    BY <1>0, <2>1, <2>3 DEF Received
  <2> QED
    BY <2>2, <2>3
<1>6. CASE Work(w)
  BY <1>2, <1>6 DEF Work, make_new_user, authorization, reject_push, no_case, authentication_lookup,
     authentication_finish, registration, leave_from_account, get_friends_list, get_friends_requests,
     accept_friendship, discard_friendship, make_friend_request, list_command, database_command, request_start,
     request_denied, request_forward, communication_response, send_message, exit_dialog, world
<1> QED
  BY <1>3, <1>4, <1>5, <1>6 DEF Handle

--------------------------------------------------------------------------------
(* Answers go to friends: Acquainted and CallersFit are inductive.         *)

(* A friend of one of the logins that the client at fd uses. *)
FriendOf(login, fd) == \E own \in Account[fd] : <<login, own>> \in Friends

LoginFits(fd, login) == login \in Account[fd] \cup {NoLogin}

(* A client logs in under a login it uses, and answers friends. *)
CommandFits(c) ==
  /\ c.action = "authentication" => c.login \in Account[c.from]
  /\ c.action = "response_yes" => FriendOf(c.login, c.from)

RecordsFit == \A fd \in DOMAIN users : LoginFits(fd, users[fd].login)
CommandsFit ==
  /\ \A i \in DOMAIN commands : CommandFits(commands[i])
  /\ \A w \in Workers : CommandFits(cmd[w])
  /\ \A c \in pending : c.action \notin UserMoves

(* The query is about a login of the connection that will be asked, ... *)
CopiesFit ==
  \A w \in Workers : At(w, "checked", "communication_request") => LoginFits(held[w].socket, held[w].peer)

(* ... which is asked only if the answer was yes, ... *)
RequestFits(m) == m.response = "communication_request_from_server" => FriendOf(m.login, m.to)
RequestsFit == \A w \in Workers : \A i \in DOMAIN out[w] : RequestFits(out[w][i])

(* ... and shows the caller. *)
CallersFit == \A fd \in Fds : win[fd].caller # NoLogin => FriendOf(win[fd].caller, fd)

Acquainted == RecordsFit /\ CommandsFit /\ CopiesFit /\ RequestsFit

LEMMA OwnLogins == \A fd \in Fds : Account[fd] \subseteq Logins /\ NoLogin \notin Account[fd]
BY WorkAssumption, UserAssumption

LEMMA AcquaintedInit == Init => Acquainted /\ CallersFit
<1> SUFFICES ASSUME Init PROVE Acquainted /\ CallersFit
  OBVIOUS
<1>1. CommandFits(NoCommand)
  BY Internal DEF CommandFits
<1>2. CommandsFit
  BY <1>1 DEF Init, CommandsFit
<1>3. RecordsFit /\ RequestsFit
  BY DEF Init, RecordsFit, RequestsFit
<1>4. CopiesFit /\ CallersFit
  BY Internal DEF Init, CopiesFit, CallersFit, At, FreshWindows
<1> QED
  BY <1>2, <1>3, <1>4 DEF Acquainted

(* A record gets the login of its command. *)
LEMMA RecordsFitHandle ==
  ASSUME TypeOK, Acquainted, NEW w \in Workers, Serves(w)
  PROVE RecordsFit'
<1>0. users \in [DOMAIN users -> Users] /\ DOMAIN users \subseteq Fds
  BY DEF TypeOK, MapsOK
<1>1. \A fd \in DOMAIN users : LoginFits(fd, users[fd].login)
  BY DEF Acquainted, RecordsFit
<1>2. CASE KeepsLogins
  BY <1>1, <1>2 DEF KeepsLogins, RecordsFit, LoginFits
<1>3. CASE LogsIn(w)
  <2>1. cmd[w].login \in Account[From(w)]
    BY <1>3 DEF Acquainted, CommandsFit, CommandFits, LogsIn, At, From
  <2>2. \A u : set_db_data(users[From(w)], cmd[w].login).login = cmd[w].login
    BY <1>0, <1>3 DEF LogsIn, set_db_data, Users
  <2> QED
    BY <1>0, <1>1, <1>3, <2>1, <2>2 DEF LogsIn, RecordsFit, LoginFits
<1>4. CASE LogsOut(w)
  <2>1. \A u \in Users : log_off(u).login = NoLogin
    BY Mutators DEF Reads
  <2> QED
    BY <1>0, <1>1, <1>4, <2>1 DEF LogsOut, RecordsFit, LoginFits
<1>5. CASE Deletes(w)
  BY <1>1, <1>5 DEF Deletes, RecordsFit, LoginFits
<1> QED
  BY <1>2, <1>3, <1>4, <1>5, LoginFrame

LEMMA CommandsFitHandle ==
  ASSUME TypeOK, WorkersAgree, Acquainted, NEW w \in Workers, Serves(w)
  PROVE CommandsFit'
<1>1. /\ \A i \in DOMAIN commands : CommandFits(commands[i])
      /\ \A v \in Workers : CommandFits(cmd[v])
      /\ \A c \in pending : c.action \notin UserMoves
  BY DEF Acquainted, CommandsFit
<1>2. LocalFrame(w) /\ UNCHANGED pending /\ commands \in Seq(Commands)
  BY HandleFrame DEF TypeOK, WorldOK
<1>3. CommandFits(NoCommand)
  BY Internal DEF CommandFits
<1>4. \A v \in Workers : cmd'[v] \in {cmd[v], NoCommand}
  BY <1>2 DEF LocalFrame
<1>5. \A v \in Workers : CommandFits(cmd'[v])
  BY <1>1, <1>3, <1>4
<1>6. \A i \in DOMAIN commands' : CommandFits(commands'[i])
  <2>1. CASE UNCHANGED commands
    BY <1>1, <2>1
  <2>2. CASE commands' = Append(commands, Command("delete_user", From(w), NoLogin))
    <3>1. PICK d : d = Command("delete_user", From(w), NoLogin)
      OBVIOUS
    <3>2. CommandFits(d)
      BY <3>1 DEF CommandFits, Command
    <3> QED
      BY <1>1, <1>2, <2>2, <3>1, <3>2, AppendFrame
  <2> QED
    BY <2>1, <2>2, HandleFrame
<1>7. (\A v \in Workers : CommandFits(cmd[v]))'
  BY <1>5 DEF CommandFits, FriendOf
<1>8. (\A i \in DOMAIN commands : CommandFits(commands[i]))'
  BY <1>6 DEF CommandFits, FriendOf
<1> QED
  BY <1>1, <1>2, <1>7, <1>8 DEF CommandsFit

LEMMA CopiesFitHandle ==
  ASSUME TypeOK, WorkersAgree, Acquainted, NEW w \in Workers, Serves(w)
  PROVE CopiesFit'
<1> SUFFICES ASSUME NEW v \in Workers, At(v, "checked", "communication_request")'
             PROVE LoginFits(held[v].socket, held[v].peer)'
  BY DEF CopiesFit
<1>1. LocalFrame(w) /\ held \in [Workers -> Copies]
  BY HandleFrame DEF TypeOK, LocalsOK
<1>2. CASE v # w
  <2>1. At(v, "checked", "communication_request")
    BY <1>1, <1>2 DEF LocalFrame, At
  <2>2. LoginFits(held[v].socket, held[v].peer)
    BY <2>1 DEF Acquainted, CopiesFit
  <2>3. held'[v].socket = held[v].socket /\ held'[v].peer = held[v].peer
    BY <1>2, HeldFrame
  <2> QED
    BY <2>2, <2>3 DEF LoginFits
<1>3. CASE v = w
  <2>1. pc'[w] = "checked" /\ cmd'[w].action = "communication_request"
    BY <1>3 DEF At
  <2>2. StartsCall(w)
    BY <2>1, Advances
  <2>3. /\ held'[w] = CopiesOf(w) /\ Find(cmd[w].login) \in DOMAIN users
    BY <1>1, <2>2, FindType DEF StartsCall, Asks, Free, Find
  <2>4. LoginFits(Find(cmd[w].login), users[Find(cmd[w].login)].login)
    BY <2>3 DEF Acquainted, RecordsFit
  <2>5. held'[w].socket = Find(cmd[w].login) /\ held'[w].peer = users[Find(cmd[w].login)].login
    BY <2>3 DEF CopiesOf
  <2> QED
    BY <1>3, <2>4, <2>5 DEF LoginFits
<1> QED
  BY <1>2, <1>3

LEMMA RequestsFitHandle ==
  ASSUME TypeOK, WorkersAgree, Acquainted, NEW w \in Workers, Serves(w)
  PROVE RequestsFit'
<1> SUFFICES ASSUME NEW v \in Workers, NEW i \in DOMAIN out'[v],
                    out'[v][i].response = "communication_request_from_server"
             PROVE FriendOf(out'[v][i].login, out'[v][i].to)
  BY DEF RequestsFit, RequestFits, FriendOf
<1>1. \A u \in Workers : \A j \in DOMAIN out[u] : RequestFits(out[u][j])
  BY DEF Acquainted, RequestsFit
<1>2. CASE v # w
  <2>1. out'[v] = out[v]
    BY <1>2, HandleFrame DEF LocalFrame
  <2> QED
    BY <1>1, <2>1 DEF RequestFits
<1>3. CASE v = w /\ \E j \in DOMAIN out[w] : out'[w][i] = out[w][j]
  BY <1>1, <1>3 DEF RequestFits
<1>4. CASE /\ v = w /\ At(w, "checked", "communication_request") /\ Check_friends(w)
           /\ out'[w][i].to = held[w].socket /\ out'[w][i].login = held[w].login
  <2>1. LoginFits(held[w].socket, held[w].peer)
    BY <1>4 DEF Acquainted, CopiesFit
  <2>2. <<held[w].login, held[w].peer>> \in Friends /\ held[w].peer # NoLogin
    BY <1>4, WorkAssumption, UserAssumption DEF Check_friends
  <2> QED
    BY <1>4, <2>1, <2>2 DEF LoginFits, FriendOf
<1> QED
  BY <1>2, <1>3, <1>4, RequestFrame

LEMMA AcquaintedPop ==
  ASSUME TypeOK, WorkersAgree, Acquainted, NEW w \in Workers, Pop(w)
  PROVE Acquainted'
<1>1. /\ cmd'[w] = commands[1] /\ 1 \in DOMAIN commands /\ pc'[w] = "popped"
      /\ \A v \in Workers \ {w} : cmd'[v] = cmd[v] /\ pc'[v] = pc[v]
      /\ UNCHANGED <<users, pending, out>>
      /\ \A i \in DOMAIN commands' : i + 1 \in DOMAIN commands /\ commands'[i] = commands[i + 1]
  BY PopFrame
<1>2. UNCHANGED held
  BY DEF Pop
<1>3. RecordsFit' /\ RequestsFit'
  BY <1>1 DEF Acquainted, RecordsFit, LoginFits, RequestsFit, RequestFits, FriendOf
<1>4. CopiesFit'
  BY <1>1, <1>2 DEF Acquainted, CopiesFit, At, LoginFits
<1>5. CommandsFit'
  <2>1. \A v \in Workers : CommandFits(cmd'[v])
    BY <1>1 DEF Acquainted, CommandsFit
  <2>2. \A i \in DOMAIN commands' : CommandFits(commands'[i])
    BY <1>1 DEF Acquainted, CommandsFit
  <2>3. (\A v \in Workers : CommandFits(cmd[v]))' /\ (\A i \in DOMAIN commands : CommandFits(commands[i]))'
    BY <2>1, <2>2 DEF CommandFits, FriendOf
  <2> QED
    BY <1>1, <2>3 DEF Acquainted, CommandsFit
<1> QED
  BY <1>3, <1>4, <1>5 DEF Acquainted

(* A client that keeps to its windows answers the prompt it shows. *)
LEMMA AcquaintedEnvironment ==
  ASSUME Polite, TypeOK, Acquainted, CallersFit, Environment
  PROVE Acquainted'
<1>0. commands \in Seq(Commands)
  BY DEF TypeOK, WorldOK
<1>1. UNCHANGED <<users, pc, cmd, held, out>>
  BY DEF Environment, Accept, Disconnect, PushPending, ClientSend, set_make_request_mode, maps, locals
<1>2. RecordsFit' /\ RequestsFit' /\ CopiesFit'
  BY <1>1 DEF Acquainted, RecordsFit, LoginFits, RequestsFit, RequestFits, FriendOf, CopiesFit, At
<1>3. /\ \A i \in DOMAIN commands : CommandFits(commands[i])
      /\ \A v \in Workers : CommandFits(cmd[v])
      /\ \A c \in pending : c.action \notin UserMoves
  BY DEF Acquainted, CommandsFit
<1>4. ASSUME UNCHANGED commands \/ \E c : CommandFits(c) /\ commands' = Append(commands, c),
             \A c \in pending' : c.action \notin UserMoves
      PROVE CommandsFit'
  <2>1. \A i \in DOMAIN commands' : CommandFits(commands'[i])
    BY <1>0, <1>3, <1>4, AppendFrame
  <2>2. (\A i \in DOMAIN commands : CommandFits(commands[i]))' /\ (\A v \in Workers : CommandFits(cmd[v]))'
    BY <1>1, <1>3, <2>1 DEF CommandFits, FriendOf
  <2> QED
    BY <1>4, <2>2 DEF CommandsFit
<1>5. ASSUME NEW fd \in Fds, Accept(fd) \/ Disconnect(fd) \/ set_make_request_mode(fd) PROVE CommandsFit'
  <2>1. UNCHANGED commands
    BY <1>5 DEF Accept, Disconnect, set_make_request_mode
  <2>2. \A c \in pending' : c.action \notin UserMoves
    BY <1>3, <1>5, Internal DEF Accept, Disconnect, set_make_request_mode, Command
  <2> QED
    BY <1>4, <2>1, <2>2
<1>6. ASSUME NEW c \in pending, PushPending(c) PROVE CommandsFit'
  <2>1. CommandFits(c)
    <3>1. {"authentication", "response_yes"} \subseteq UserMoves
      BY DEF UserMoves, Answers, FriendMoves, ListMoves
    <3> QED
      BY <1>3, <3>1 DEF CommandFits
  <2>2. commands' = Append(commands, c) /\ \A d \in pending' : d.action \notin UserMoves
    BY <1>3, <1>6 DEF PushPending
  <2> QED
    BY <1>4, <2>1, <2>2
<1>7. ASSUME NEW fd \in Fds, NEW action \in Moves, NEW login \in LoginOrNone, ClientSend(fd, action, login)
      PROVE CommandsFit'
  <2>1. PICK c : c = Command(action, fd, login)
    OBVIOUS
  <2>2. c.action = action /\ c.from = fd /\ c.login = login
    BY <2>1 DEF Command
  <2>3. ASSUME action = "authentication" PROVE login \in Account[fd]
    <3>1. MayName(fd, action, login)
      BY <1>7 DEF ClientSend
    <3>2. MayName(fd, "authentication", login) => login \in Account[fd]
      BY DEF MayName, Answers
    <3> QED
      BY <2>3, <3>1, <3>2
  <2>4. ASSUME action = "response_yes" PROVE FriendOf(login, fd)
    <3>1. win[fd].caller = login
      BY <1>7, <2>4 DEF ClientSend, Offers, Answers, ListMoves
    <3>2. login \in Logins
      BY <1>7, <2>4 DEF ClientSend, MayName, Answers
    <3> QED
      BY <3>1, <3>2, UserAssumption DEF CallersFit
  <2>5. CommandFits(c)
    BY <2>2, <2>3, <2>4 DEF CommandFits
  <2>6. commands' = Append(commands, c) /\ UNCHANGED pending
    BY <1>7, <2>1 DEF ClientSend
  <2> QED
    BY <1>3, <1>4, <2>5, <2>6
<1> QED
  BY <1>2, <1>5, <1>6, <1>7 DEF Acquainted, Environment

LEMMA AcquaintedStep ==
  ASSUME Polite, TypeOK, WorkersAgree, Acquainted, CallersFit, Step
  PROVE Acquainted'
<1>1. CASE UNCHANGED server
  BY <1>1 DEF server, Acquainted, RecordsFit, LoginFits, CommandsFit, CommandFits, FriendOf, CopiesFit, At,
     RequestsFit, RequestFits
<1>2. ASSUME NEW w \in Workers, Serves(w) PROVE Acquainted'
  BY <1>2, RecordsFitHandle, CommandsFitHandle, CopiesFitHandle, RequestsFitHandle DEF Acquainted
<1> QED
  BY <1>1, <1>2, AcquaintedPop, AcquaintedEnvironment DEF Step

(* The windows show approved callers.                                      *)
LEMMA CallersHandle ==
  ASSUME TypeOK, RequestsFit, CallersFit, NEW w \in Workers, Handle(w)
  PROVE CallersFit'
<1> SUFFICES ASSUME NEW fd \in Fds, win'[fd].caller # NoLogin PROVE FriendOf(win'[fd].caller, fd)
  BY DEF CallersFit, FriendOf
<1>1. pc[w] = "send" => 1 \in DOMAIN out[w] /\ Head(out[w]) = out[w][1]
  BY DEF TypeOK, LocalsOK
<1> QED
  BY <1>1, PromptFrame DEF CallersFit, RequestsFit, RequestFits

(* No other step shows one; neither does a client. *)
LEMMA CallersElsewhere ==
  ASSUME TypeOK, CallersFit, (\E w \in Workers : Pop(w)) \/ Environment
  PROVE CallersFit'
<1>0. win \in [Fds -> Windows]
  BY DEF TypeOK, WorldOK
<1>1. ASSUME NEW fd \in Fds PROVE win'[fd].caller \in {NoLogin, win[fd].caller}
  <2>1. \A v \in Windows : /\ \A action : AfterSending(v, action).caller \in {NoLogin, v.caller}
                           /\ Show(v, "request_form").caller = NoLogin
    BY DEF Windows, AfterSending, Show
  <2> QED
    BY <1>0, <2>1 DEF Pop, Environment, Accept, Disconnect, PushPending, ClientSend, set_make_request_mode,
       FreshWindows
<1> QED
  BY <1>1 DEF CallersFit, FriendOf

(* What the property says of one step, which is said of every state by     *)
(* Acquainted: who is about to be answered is a friend.                    *)
AnswersFriends ==
  \A w \in Workers : Acts(w) /\ At(w, "handle", "response_yes") /\ users' # users =>
    \E login \in Account[From(w)] : <<cmd[w].login, login>> \in Friends

LEMMA AcquaintedAsked == Acquainted => AnswersFriends
BY DEF Acquainted, CommandsFit, CommandFits, FriendOf, AnswersFriends, At, From

(* A client that keeps to its windows never starts a dialogue with anyone  *)
(* but a friend, although the server does not ask the database again when  *)
(* it executes the answer (user_work.cpp:335): the query of line 237       *)
(* approved the caller for a login of this client, and the approval        *)
(* survives the copies, the send, the prompt and whatever the client and   *)
(* the others do meanwhile.                                                *)
THEOREM OnlyFriendsAreAnswered == ASSUME Polite PROVE Spec => AskedByFriend
<1>1. Init => TypeOK /\ WorkersAgree /\ Acquainted /\ CallersFit
  BY InitType, AcquaintedInit DEF Init, WorkersAgree
<1>2. TypeOK /\ WorkersAgree /\ Acquainted /\ CallersFit /\ [Next]_vars
      => (TypeOK /\ WorkersAgree /\ Acquainted /\ CallersFit)'
  <2> SUFFICES ASSUME TypeOK, WorkersAgree, Acquainted, CallersFit, [Next]_vars
               PROVE (TypeOK /\ WorkersAgree /\ Acquainted /\ CallersFit)'
    OBVIOUS
  <2>1. TypeOK' /\ WorkersAgree' /\ Acquainted'
    BY NextType, WorkersStep, AcquaintedStep, NextIsStep
  <2>2. CallersFit'
    <3>1. CASE UNCHANGED vars
      BY <3>1 DEF vars, CallersFit, FriendOf
    <3> QED
      BY <3>1, CallersHandle, CallersElsewhere DEF Next, Acquainted
  <2> QED
    BY <2>1, <2>2
<1>3. Acquainted => [AnswersFriends]_vars
  BY AcquaintedAsked
<1> QED
  BY <1>1, <1>2, <1>3, PTL DEF Spec, AskedByFriend, AnswersFriends
================================================================================
