-------------------------------- MODULE DarkChat --------------------------------
(***************************************************************************)
(* The workers of UserWork and their clients with a channel in between:    *)
(* what a worker sends is on its way, arrives together with whatever was   *)
(* sent before and after it, and waits in the client's QTcpSocket until    *)
(* Connect::server_listener reads it.  That slot runs once per readyRead   *)
(* and reads one command, however many have arrived.                       *)
(*                                                                         *)
(* The windows now show the past: between what the server knows of a user  *)
(* and what the user sees there are commands on their way in both          *)
(* directions.  (In the other direction UserWork's queue is the channel.)  *)
(***************************************************************************)
EXTENDS UserWorkProperties, SequencesExt

CONSTANT MaxUnread  \* bound: unread commands to clients when one acts

ASSUME UnreadAssumption == MaxUnread \in Nat

VARIABLES transit,  \* per descriptor: sent by the server, not arrived
          buffer,   \* per descriptor: arrived, not read by the client
          crossed,  \* history: descriptors whose commands crossed something
          overtaken \* history: descriptors whose creation was overtaken

channels == <<transit, buffer>>
allVars == <<users, login_to_socket, commands, pending, sockets, win, pc, cmd, held, out,
             transit, buffer, crossed, overtaken>>

Told == [response : Responses, login : LoginOrNone]

NoneUnderWay == transit = [fd \in Fds |-> <<>>] /\ buffer = [fd \in Fds |-> <<>>]
---------------------------------------------------------------------------------
(* User_work::send_command: the kernel takes the command over. *)
transmit(fd, response, login) ==
  /\ transit' = IF fd \notin sockets THEN transit
                ELSE [transit EXCEPT ![fd] = Append(@, [response |-> response, login |-> login])]
  /\ UNCHANGED <<win, buffer>>

delete_user_transmit(w) ==
  erase_user(w) /\ transmit(Deserted(From(w)), "dialog_closed", NoLogin)

SendTransmit(w) ==
  LET m == Head(out[w]) IN
  /\ pc[w] = "send" /\ transmit(m.to, m.response, m.login) /\ Finish(w, Tail(out[w]))
  /\ UNCHANGED <<maps, commands, pending, sockets, held>>

(* A closed connection has nothing left in its channel. *)
Clear(fd) == transit' = [transit EXCEPT ![fd] = <<>>] /\ buffer' = [buffer EXCEPT ![fd] = <<>>]

(* Mistake DropTheRest: one command is handled, all are taken. *)
DropTheRest(fd, n) ==
  LET first == Head(buffer[fd] \o transit[fd]) IN
  /\ n \in 1 .. Len(transit[fd])
  /\ win' = [win EXCEPT ![fd] = AfterReceiving(@, first.response, first.login)]
  /\ buffer' = [buffer EXCEPT ![fd] = <<>>]
  /\ transit' = [transit EXCEPT ![fd] = SubSeq(@, n + 1, Len(@))]
  /\ UNCHANGED <<maps, commands, pending, sockets, locals>>

(* readyRead after n more commands have arrived; the slot reads the first. *)
server_listener(fd, n) ==
  LET arrived == buffer[fd] \o SubSeq(transit[fd], 1, n)
      first == Head(arrived)
  IN
  /\ n \in 1 .. Len(transit[fd])
  /\ win' = [win EXCEPT ![fd] = AfterReceiving(@, first.response, first.login)]
  /\ buffer' = [buffer EXCEPT ![fd] = Tail(arrived)]
  /\ transit' = [transit EXCEPT ![fd] = SubSeq(@, n + 1, Len(@))]
  /\ UNCHANGED <<maps, commands, pending, sockets, locals>>

readyRead(fd) == \E n \in 1 .. Len(transit[fd]) : server_listener(fd, n)
---------------------------------------------------------------------------------
(* Is a command of the client, or one to it, still without effect? *)
Asked(fd) ==
  Cardinality({i \in DOMAIN commands : commands[i].from = fd})
  + Cardinality({w \in Workers : From(w) = fd /\ pc[w] # "send"})

Tellers(fd) == {w \in Workers : \/ \E i \in DOMAIN out[w] : out[w][i].to = fd
                                \/ At(w, "popped", "delete_user") /\ Deserted(From(w)) = fd}
IsTold(fd) == transit[fd] # <<>> \/ buffer[fd] # <<>> \/ Tellers(fd) # {}

Quiet(fd) == Asked(fd) = 0 /\ ~IsTold(fd)

Mode(status) == CASE status = "in_menu" -> "menu" [] status = "in_wait" -> "wait" [] OTHER -> "dialogue"
Agree(w, fd) == fd \in DOMAIN users /\ w.screen = "chat" => w.mode = Mode(users[fd].status)

(* The client gave a command before the last one, or something it was      *)
(* told, had its effect; or two workers tell it something at once, in      *)
(* either order.                                                           *)
Crossing(fd) ==
  Asked(fd) > 1 \/ (Asked(fd) = 1 /\ IsTold(fd)) \/ Cardinality(Tellers(fd)) > 1

(* The menu, shown or not, has the mode it should have.  A mode that is     *)
(* wrong when the user logs off is still wrong after the next log-in: the  *)
(* Menu window is only shown again, its mode is not set.                   *)
Recovered(fd) == Quiet(fd) /\ (fd \in DOMAIN users => win[fd].mode = Mode(users[fd].status))

(* Until the window has recovered. *)
Cross == crossed' = {fd \in Fds : (fd \in crossed \/ Crossing(fd)') /\ ~Recovered(fd)'}

(* Somebody has the command, or is about to push it. *)
UnderWay(command) ==
  \/ command \in pending
  \/ \E i \in DOMAIN commands : commands[i] = command
  \/ \E w \in Workers : cmd[w] = command

BeingMade(fd) == UnderWay(Command("make_new_user", fd, NoLogin))
BeingDeleted(fd) == UnderWay(Command("delete_user", fd, NoLogin))

(* The record of fd is deleted before the creation on its way, or the      *)
(* number is given out again before the worker that rejected its last user *)
(* has closed it.                                                          *)
Overtaking(fd) ==
  /\ BeingMade(fd)'
  /\ \/ BeingMade(fd) /\ \E w \in Workers : pc[w] # pc'[w] /\ At(w, "popped", "delete_user") /\ From(w) = fd
     \/ fd \in sockets' \ sockets /\ \E w \in Workers : pc[w] = "close" /\ From(w) = fd

(* Until there is no such record and none to come. *)
Overtake ==
  overtaken' = {fd \in Fds : (fd \in overtaken \/ Overtaking(fd)) /\ (fd \in DOMAIN users \/ BeingMade(fd))'}

Observe == Cross /\ Overtake
---------------------------------------------------------------------------------
HandleTransmit(w) ==
  \/ Work(w) /\ UNCHANGED channels
  \/ delete_user_transmit(w) \/ SendTransmit(w)
  \/ reject_close(w) /\ Clear(From(w))

Unread == MapThenSumSet(LAMBDA fd : Len(transit[fd]) + Len(buffer[fd]), Fds)

EnvironmentTransmit ==
  \/ \E fd \in Fds : Accept(fd) /\ UNCHANGED channels
  \/ \E fd \in Fds : set_make_request_mode(fd) /\ UNCHANGED channels
  \/ \E fd \in Fds : Disconnect(fd) /\ Clear(fd)
  \/ \E c \in pending : PushPending(c) /\ UNCHANGED channels
  \/ \E fd \in Fds, action \in Moves, login \in LoginOrNone :
       /\ Unread <= MaxUnread
       /\ ClientSend(fd, action, login) /\ UNCHANGED channels
  \/ \E fd \in Fds : readyRead(fd)

NextTransmit ==
  /\ \/ \E w \in Workers : (Pop(w) /\ UNCHANGED channels) \/ HandleTransmit(w)
     \/ EnvironmentTransmit
  /\ Observe

InitTransmit == Init /\ NoneUnderWay /\ crossed = {} /\ overtaken = {}

SpecTransmit == InitTransmit /\ [][NextTransmit]_allVars

(* Fairness as in UserWork, and the network delivers; no client has to do  *)
(* anything but react to readyRead.                                        *)
FairnessTransmit ==
  /\ WF_vars(\E w \in Workers : Pop(w) /\ UNCHANGED channels)
  /\ \A w \in Workers : WF_vars(HandleTransmit(w))
  /\ \A fd \in Fds : WF_vars(\E c \in pending : c.from = fd /\ PushPending(c) /\ UNCHANGED channels)
  /\ \A fd \in Fds : WF_transit(readyRead(fd))

FairSpecTransmit == SpecTransmit /\ FairnessTransmit
---------------------------------------------------------------------------------
(* The windows of fd once its client has read what it was told.            *)
Caught_up(fd) ==
  FoldLeft(LAMBDA w, m : AfterReceiving(w, m.response, m.login), win[fd], buffer[fd] \o transit[fd])

(* When the server is done with a user, the user's window shows what the   *)
(* server has the user down for, or will when what is under way has been   *)
(* read, unless the user's commands crossed something.                     *)
WindowsAgree ==
  \A fd \in sockets \ crossed : Asked(fd) = 0 /\ Tellers(fd) = {} => Agree(Caught_up(fd), fd)

(* A client that keeps to its windows is thrown out only over what a       *)
(* dialog sent that was opened in another mode and left open (the prompt,  *)
(* a list or a form), or after its commands crossed something.             *)
RejectedForCause == [][
  \A w \in Workers : pc[w] = "popped" /\ pc'[w] = "reject" =>
    cmd[w].action \in DialogMoves \/ From(w) \in crossed ]_allVars

(* The record of a closed connection is always about to be deleted, unless *)
(* its creation was overtaken; clients do what they like, and numbers are  *)
(* given out again at once.                                                *)
DeletedUnlessOvertaken ==
  \A fd \in DOMAIN users \ (sockets \cup overtaken) : BeingDeleted(fd)

Forms == {"authentication", "registration"}

(* A form of fd was sent and is queued or executed. *)
FormUnderWay(fd) ==
  \/ \E i \in DOMAIN commands : commands[i].from = fd /\ commands[i].action \in Forms
  \/ \E w \in Workers : From(w) = fd /\ cmd[w].action \in Forms

(* Its answer has arrived behind something else, which was read.           *)
AnswerUnread(fd) ==
  \E i \in DOMAIN buffer[fd] :
    buffer[fd][i].response \in {"authentication_successful", "authentication_error", "registration_reply"}

(* registration is about to return without an answer. *)
RegistrationIgnored(fd) ==
  \E w \in Workers :
    /\ At(w, "handle", "registration") /\ From(w) = fd
    /\ fd \in DOMAIN users => Authenticated(users[fd])

(* A log-in or registration form that was sent is enabled again, by its    *)
(* answer or because the connection is closed, unless the answer stays     *)
(* unread in the socket or there is none: the form has no other way out    *)
(* (connect.cpp:530).                                                      *)
FormIsAnswered ==
  \A fd \in Fds : win[fd].screen = "submitted" /\ FormUnderWay(fd) ~>
    win[fd].screen # "submitted" \/ AnswerUnread(fd) \/ RegistrationIgnored(fd)
=================================================================================
