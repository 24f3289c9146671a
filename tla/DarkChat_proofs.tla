----------------------------- MODULE DarkChat_proofs -----------------------------
(***************************************************************************)
(* What the server promises when its clients hear of everything late: the  *)
(* theorems of UserWork for DarkChat, where the windows show the past, and *)
(* what becomes of the record of a closed connection.                      *)
(*                                                                         *)
(* The lemmas of UserWork_proofs and of the two modules that extend it say *)
(* what a step does to the server and nothing of the windows: every step   *)
(* of DarkChat is a Step of theirs.                                        *)
(***************************************************************************)
EXTENDS DarkChat, UserWork_dialogue_proofs, SequenceTheorems

(* What is under way are commands to clients, and only to those that are   *)
(* connected.                                                              *)
ChannelsOK ==
  /\ transit \in [Fds -> Seq(Told)] /\ buffer \in [Fds -> Seq(Told)]
  /\ \A fd \in Fds \ sockets : transit[fd] = <<>> /\ buffer[fd] = <<>>

(* Sent to the client, arrived or not, and not read. *)
Unseen(fd) == buffer[fd] \o transit[fd]
--------------------------------------------------------------------------------
(* Every step of DarkChat is one of the server's. *)

LEMMA TransmitServes == ASSUME NEW w, HandleTransmit(w) PROVE Serves(w)
BY DEF HandleTransmit, Serves, delete_user_transmit, SendTransmit, SendsOut

LEMMA TransmitEnvironment ==
  ASSUME EnvironmentTransmit
  PROVE \/ Environment
        \/ UNCHANGED server /\ \E fd \in Fds : \E n \in 1 .. Len(transit[fd]) : server_listener(fd, n)
BY DEF EnvironmentTransmit, Environment, readyRead, server_listener, server, maps, locals

LEMMA TransmitIsStep == [NextTransmit]_allVars => Step
BY TransmitServes, TransmitEnvironment DEF NextTransmit, Step, allVars, server
--------------------------------------------------------------------------------
(* Sequences. *)

(* To read the first of what has arrived is to read the first of all. *)
LEMMA FirstOfAll ==
  ASSUME NEW S, NEW s \in Seq(S), NEW t \in Seq(S), NEW n \in 1 .. Len(t)
  PROVE /\ s \o SubSeq(t, 1, n) \in Seq(S) /\ s \o SubSeq(t, 1, n) # <<>>
        /\ s \o t # <<>>
        /\ Head(s \o SubSeq(t, 1, n)) = Head(s \o t)
        /\ Tail(s \o SubSeq(t, 1, n)) \in Seq(S) /\ SubSeq(t, n + 1, Len(t)) \in Seq(S)
        /\ Tail(s \o SubSeq(t, 1, n)) \o SubSeq(t, n + 1, Len(t)) = Tail(s \o t)
<1> DEFINE a == SubSeq(t, 1, n)
           b == SubSeq(t, n + 1, Len(t))
<1>1. t = a \o b /\ a \in Seq(S) /\ b \in Seq(S) /\ a # <<>>
  <2>1. a \in Seq(S) /\ b \in Seq(S) /\ Len(a) = n
    BY SubSeqProperties
  <2>2. SubSeq(t, 1, Len(t)) = a \o b
    BY ConcatAdjacentSubSeq
  <2> QED
    BY <2>1, <2>2, SubSeqFull
<1> HIDE DEF a, b
<1> DEFINE c == s \o a
<1>2. c \in Seq(S) /\ c # <<>> /\ s \o t = c \o b
  <2>1. c \in Seq(S) /\ Len(c) = Len(s) + Len(a) /\ Len(a) # 0 /\ Len(s) \in Nat /\ Len(a) \in Nat
    BY <1>1, ConcatProperties
  <2>2. s \o (a \o b) = c \o b
    BY <1>1, ConcatAssociative
  <2> QED
    BY <1>1, <2>1, <2>2
<1> HIDE DEF c
<1>3. Tail(c) \in Seq(S) /\ c \o b # <<>> /\ Head(c) = Head(c \o b)
  BY <1>1, <1>2
<1>4. Tail(c) \o b = Tail(c \o b)
  <2>1. /\ c \o b \in Seq(S) /\ Len(c \o b) = Len(c) + Len(b) /\ Len(c) \in Nat \ {0} /\ Len(b) \in Nat
        /\ Tail(c) \in Seq(S) /\ Len(Tail(c)) = Len(c) - 1
    BY <1>1, <1>2
  <2>2. /\ Tail(c) \o b \in Seq(S) /\ Len(Tail(c) \o b) = Len(c) - 1 + Len(b)
        /\ Tail(c \o b) \in Seq(S) /\ Len(Tail(c \o b)) = Len(c) + Len(b) - 1
    BY <1>1, <2>1, ConcatProperties, HeadTailProperties
  <2>3. ASSUME NEW i \in 1 .. Len(c) + Len(b) - 1 PROVE (Tail(c) \o b)[i] = Tail(c \o b)[i]
    <3>1. Tail(c \o b)[i] = (c \o b)[i + 1]
      BY <1>3, <2>1
    <3> QED
      BY <1>1, <1>2, <2>1, <3>1
  <2> QED
    BY <2>2, <2>3
<1> QED
  BY <1>1, <1>2, <1>3, <1>4 DEF a, b, c
--------------------------------------------------------------------------------
(* The channels: what each action does to what a client has not seen.      *)

(* The kernel takes a command over. *)
LEMMA Transmitted ==
  ASSUME TypeOK, ChannelsOK, NEW to, NEW response \in Responses, NEW login \in LoginOrNone,
         transmit(to, response, login), UNCHANGED sockets
  PROVE /\ ChannelsOK'
        /\ \A fd \in Fds : Unseen(fd)' = IF fd = to /\ fd \in sockets
             THEN Append(Unseen(fd), [response |-> response, login |-> login]) ELSE Unseen(fd)
<1>0. /\ transit \in [Fds -> Seq(Told)] /\ buffer \in [Fds -> Seq(Told)] /\ sockets \subseteq Fds
      /\ [response |-> response, login |-> login] \in Told /\ UNCHANGED buffer
  BY DEF ChannelsOK, TypeOK, WorldOK, Told, transmit
<1> DEFINE m == [response |-> response, login |-> login]
<1>1. transit' = IF to \notin sockets THEN transit ELSE [transit EXCEPT ![to] = Append(@, m)]
  BY DEF transmit
<1> HIDE DEF m
<1>2. \A s, t \in Seq(Told) : Append(t, m) \in Seq(Told) /\ s \o Append(t, m) = Append(s \o t, m)
  <2> SUFFICES ASSUME NEW s \in Seq(Told), NEW t \in Seq(Told)
               PROVE Append(t, m) \in Seq(Told) /\ s \o Append(t, m) = Append(s \o t, m)
    OBVIOUS
  <2>1. m \in Told
    BY <1>0 DEF m
  <2>2. /\ Append(t, m) = t \o <<m>> /\ s \o t \in Seq(Told) /\ <<m>> \in Seq(Told)
        /\ Append(s \o t, m) = (s \o t) \o <<m>>
    BY <2>1, AppendIsConcat, ConcatProperties
  <2> QED
    BY <2>1, <2>2, ConcatAssociative
<1>3. ChannelsOK'
  BY <1>0, <1>1, <1>2 DEF ChannelsOK
<1>4. ASSUME NEW fd \in Fds
      PROVE Unseen(fd)' = IF fd = to /\ fd \in sockets THEN Append(Unseen(fd), m) ELSE Unseen(fd)
  BY <1>0, <1>1, <1>2 DEF Unseen
<1> QED
  BY <1>3, <1>4 DEF m

(* The connection is closed. *)
LEMMA Cleared ==
  ASSUME TypeOK, ChannelsOK, NEW to, Clear(to), sockets' = sockets \ {to}
  PROVE /\ ChannelsOK'
        /\ \A fd \in Fds : Unseen(fd)' = IF fd = to THEN <<>> ELSE Unseen(fd)
<1>0. /\ transit \in [Fds -> Seq(Told)] /\ buffer \in [Fds -> Seq(Told)] /\ <<>> \in Seq(Told)
  BY DEF ChannelsOK
<1>1. /\ transit' = [transit EXCEPT ![to] = <<>>] /\ buffer' = [buffer EXCEPT ![to] = <<>>]
  BY DEF Clear
<1>2. ChannelsOK'
  BY <1>0, <1>1 DEF ChannelsOK
<1>3. <<>> \o <<>> = <<>>
  BY <1>0, ConcatEmptySeq
<1>4. ASSUME NEW fd \in Fds PROVE Unseen(fd)' = IF fd = to THEN <<>> ELSE Unseen(fd)
  BY <1>0, <1>1, <1>3 DEF Unseen
<1> QED
  BY <1>2, <1>4

(* The client reads what it has been told first. *)
LEMMA Listened ==
  ASSUME TypeOK, ChannelsOK, NEW to \in Fds, NEW n \in 1 .. Len(transit[to]), server_listener(to, n)
  PROVE /\ ChannelsOK' /\ to \in sockets
        /\ Unseen(to) \in Seq(Told) /\ Unseen(to) # <<>>
        /\ win' = [win EXCEPT ![to] = AfterReceiving(@, Head(Unseen(to)).response, Head(Unseen(to)).login)]
        /\ \A fd \in Fds : Unseen(fd)' = IF fd = to THEN Tail(Unseen(fd)) ELSE Unseen(fd)
<1>0. /\ transit \in [Fds -> Seq(Told)] /\ buffer \in [Fds -> Seq(Told)] /\ UNCHANGED sockets
      /\ transit[to] \in Seq(Told) /\ buffer[to] \in Seq(Told)
  BY DEF ChannelsOK, server_listener
<1> DEFINE arrived == buffer[to] \o SubSeq(transit[to], 1, n)
           rest == SubSeq(transit[to], n + 1, Len(transit[to]))
<1>1. /\ arrived # <<>> /\ Unseen(to) # <<>> /\ Head(arrived) = Head(Unseen(to))
      /\ Tail(arrived) \in Seq(Told) /\ rest \in Seq(Told) /\ Tail(arrived) \o rest = Tail(Unseen(to))
      /\ Unseen(to) \in Seq(Told)
  <2>1. PICK s, t : s = buffer[to] /\ t = transit[to]
    OBVIOUS
  <2>2. s \in Seq(Told) /\ t \in Seq(Told) /\ n \in 1 .. Len(t)
    BY <1>0, <2>1
  <2>3. /\ s \o SubSeq(t, 1, n) # <<>> /\ s \o t # <<>>
        /\ Head(s \o SubSeq(t, 1, n)) = Head(s \o t)
        /\ Tail(s \o SubSeq(t, 1, n)) \in Seq(Told) /\ SubSeq(t, n + 1, Len(t)) \in Seq(Told)
        /\ Tail(s \o SubSeq(t, 1, n)) \o SubSeq(t, n + 1, Len(t)) = Tail(s \o t)
    BY <2>2, FirstOfAll, ZenonT(30)
  <2>4. s \o t \in Seq(Told)
    BY <2>2, ConcatProperties
  <2> QED
    BY <2>1, <2>3, <2>4 DEF Unseen
<1>2. /\ win' = [win EXCEPT ![to] = AfterReceiving(@, Head(arrived).response, Head(arrived).login)]
      /\ buffer' = [buffer EXCEPT ![to] = Tail(arrived)] /\ transit' = [transit EXCEPT ![to] = rest]
  BY DEF server_listener
<1>3. to \in sockets
  <2>1. transit[to] # <<>>
    BY <1>0
  <2> QED
    BY <2>1 DEF ChannelsOK
<1> HIDE DEF arrived, rest
<1>4. ChannelsOK'
  BY <1>0, <1>1, <1>2, <1>3 DEF ChannelsOK
<1>5. \A fd \in Fds : Unseen(fd)' = IF fd = to THEN Tail(Unseen(fd)) ELSE Unseen(fd)
  BY <1>0, <1>1, <1>2 DEF Unseen
<1> QED
  BY <1>1, <1>2, <1>3, <1>4, <1>5

(* A worker that touches no socket. *)
LEMMA WorkFrame == ASSUME NEW w \in Workers, Work(w) PROVE UNCHANGED <<win, sockets>>
BY DEF Work, make_new_user, authorization, reject_push, no_case, authentication_lookup,
   authentication_finish, registration, leave_from_account, get_friends_list, get_friends_requests,
   accept_friendship, discard_friendship, make_friend_request, list_command, database_command, request_start,
   request_denied, request_forward, communication_response, send_message, exit_dialog, world

(* A worker that sends. *)
Transmits(w, to, response, login) ==
  /\ transmit(to, response, login) /\ UNCHANGED sockets
  /\ \/ erase_user(w) /\ response = "dialog_closed"
     \/ /\ SendsOut(w) /\ 1 \in DOMAIN out[w] /\ out[w][1] = Message(to, response, login)

LEMMA HandleChannels ==
  ASSUME TypeOK, NEW w \in Workers, HandleTransmit(w)
  PROVE \/ UNCHANGED <<win, sockets, transit, buffer>>
        \/ \E to : \E response \in Responses, login \in LoginOrNone : Transmits(w, to, response, login)
        \/ reject_close(w) /\ Clear(From(w))
<1>1. CASE Work(w) /\ UNCHANGED channels
  BY <1>1, WorkFrame DEF channels
<1>2. CASE delete_user_transmit(w)
  <2>1. erase_user(w) /\ UNCHANGED sockets /\ transmit(Deserted(From(w)), "dialog_closed", NoLogin)
    <3>1. erase_user(w) => UNCHANGED <<commands, pending, sockets>>
      BY Zenon DEF erase_user
    <3> QED
      BY <1>2, <3>1 DEF delete_user_transmit
  <2>3. Transmits(w, Deserted(From(w)), "dialog_closed", NoLogin)
    BY <2>1 DEF Transmits
  <2>2. "dialog_closed" \in Responses /\ NoLogin \in LoginOrNone
    BY DEF Responses, LoginOrNone
  <2> QED
    BY <2>2, <2>3
<1>3. CASE SendTransmit(w)
  <2>0. PICK m : m = Head(out[w])
    OBVIOUS
  <2>1. /\ transmit(m.to, m.response, m.login) /\ SendsOut(w) /\ UNCHANGED sockets /\ pc[w] = "send"
    BY <1>3, <2>0 DEF SendTransmit, SendsOut
  <2>2. out[w] \in Seq(Messages) /\ out[w] # <<>>
    BY <2>1 DEF TypeOK, LocalsOK
  <2>3. 1 \in DOMAIN out[w] /\ m = out[w][1] /\ m \in Messages
    BY <2>0, <2>2
  <2>4. m = Message(m.to, m.response, m.login) /\ m.response \in Responses /\ m.login \in LoginOrNone
    BY <2>3 DEF Message, Messages
  <2>5. Transmits(w, m.to, m.response, m.login)
    BY <2>1, <2>3, <2>4 DEF Transmits
  <2> QED
    BY <2>4, <2>5
<1> QED
  BY <1>1, <1>2, <1>3 DEF HandleTransmit

(* The clients and the epoll threads. *)
LEMMA EnvironmentChannels ==
  ASSUME TypeOK, EnvironmentTransmit
  PROVE \/ Environment /\ UNCHANGED <<transit, buffer>> /\ sockets \subseteq sockets'
        \/ \E fd \in sockets : Environment /\ Clear(fd) /\ sockets' = sockets \ {fd}
        \/ \E fd \in Fds : \E n \in 1 .. Len(transit[fd]) : server_listener(fd, n)
BY DEF EnvironmentTransmit, Environment, Accept, Disconnect, PushPending, ClientSend, set_make_request_mode,
       readyRead, channels, TypeOK, WorldOK

LEMMA ChannelsStep ==
  ASSUME TypeOK, ChannelsOK, [NextTransmit]_allVars
  PROVE ChannelsOK' /\ win' \in [Fds -> Windows]
<1>0. win \in [Fds -> Windows] /\ sockets \subseteq Fds
  BY DEF TypeOK, WorldOK
<1>1. CASE UNCHANGED <<win, sockets, transit, buffer>>
  BY <1>0, <1>1 DEF ChannelsOK
<1>2. ASSUME NEW w \in Workers, HandleTransmit(w) PROVE ChannelsOK' /\ win' \in [Fds -> Windows]
  <2>1. ASSUME NEW to, NEW response \in Responses, NEW login \in LoginOrNone, Transmits(w, to, response, login)
        PROVE ChannelsOK' /\ win' \in [Fds -> Windows]
    BY <1>0, <2>1, Transmitted DEF Transmits, transmit
  <2>2. CASE reject_close(w) /\ Clear(From(w))
    <3>1. sockets' = sockets \ {From(w)} /\ win' = [win EXCEPT ![From(w)] = FreshWindows]
      BY <2>2 DEF reject_close
    <3>2. FreshWindows \in Windows
      BY FreshType
    <3> QED
      BY <1>0, <2>2, <3>1, <3>2, Cleared
  <2> QED
    BY <1>1, <1>2, <2>1, <2>2, HandleChannels
<1>3. ASSUME NEW w \in Workers, Pop(w), UNCHANGED channels PROVE ChannelsOK' /\ win' \in [Fds -> Windows]
  BY <1>1, <1>3 DEF Pop, channels
<1>4. CASE EnvironmentTransmit
  <2>1. ASSUME NEW fd \in Fds, NEW n \in 1 .. Len(transit[fd]), server_listener(fd, n)
        PROVE ChannelsOK' /\ win' \in [Fds -> Windows]
    <3>1. PICK m : m = Head(Unseen(fd))
      OBVIOUS
    <3>2. ChannelsOK' /\ m \in Told /\ win' = [win EXCEPT ![fd] = AfterReceiving(@, m.response, m.login)]
      BY <2>1, <3>1, Listened
    <3>3. \A v \in Windows : AfterReceiving(v, m.response, m.login) \in Windows
      BY <3>2, ReadingType DEF Told
    <3> QED
      BY <1>0, <3>2, <3>3
  <2>2. CASE Environment
    <3>1. win' \in [Fds -> Windows]
      BY <2>2, EnvironmentType DEF TypeOK, WorldOK
    <3>2. CASE UNCHANGED <<transit, buffer>> /\ sockets \subseteq sockets'
      BY <3>1, <3>2 DEF ChannelsOK
    <3>3. ASSUME NEW fd \in sockets, Clear(fd), sockets' = sockets \ {fd} PROVE ChannelsOK'
      BY <3>3, Cleared
    <3>4. ASSUME NEW fd \in Fds, NEW n \in 1 .. Len(transit[fd]), server_listener(fd, n) PROVE ChannelsOK'
      BY <2>1, <3>4
    <3> QED
      BY <1>4, <3>1, <3>2, <3>3, <3>4, EnvironmentChannels
  <2> QED
    BY <1>4, <2>1, <2>2, TransmitEnvironment
<1> QED
  BY <1>1, <1>2, <1>3, <1>4 DEF NextTransmit, allVars
--------------------------------------------------------------------------------
(* The theorems of UserWork, for clients that hear of everything late.     *)

(* TypeOK is kept by every Step that leaves the windows windows. *)
LEMMA LateType == TypeOK /\ ChannelsOK /\ [NextTransmit]_allVars => TypeOK' /\ ChannelsOK'
BY ChannelsStep, StepType, TransmitIsStep

LEMMA LateInit == InitTransmit => Init /\ TypeOK /\ ChannelsOK
<1>1. InitTransmit => Init /\ TypeOK
  BY InitType DEF InitTransmit
<1>2. InitTransmit => ChannelsOK
  BY DEF InitTransmit, NoneUnderWay, ChannelsOK
<1> QED
  BY <1>1, <1>2

(* The types hold in the instances with a channel, too. *)
THEOREM LateTypes == SpecTransmit => []TypeOK
<1>1. InitTransmit => TypeOK /\ ChannelsOK
  BY LateInit
<1> QED
  BY <1>1, LateType, PTL DEF SpecTransmit

(* However late the windows are, nobody is put into a dialogue who does    *)
(* not wait for that partner or has not just said yes to him: the server   *)
(* relies on its own records only (user_work.cpp:328).                     *)
THEOREM LateConsent == SpecTransmit => DialogueByConsent
<1>1. TypeOK /\ [NextTransmit]_allVars => [Consent]_vars
  BY StepConsent, TransmitIsStep
<1> QED
  BY <1>1, LateTypes, PTL DEF SpecTransmit, DialogueByConsent, Consent

(* The login table gets out of order in no other way than without a        *)
(* channel: what the handlers decide on are the maps and the command, not  *)
(* what the client has seen (user_work.cpp:86-96).                         *)
THEOREM LateTables == SpecTransmit => EntriesStayTrue /\ StaysFound
<1>1. TypeOK /\ TypeOK' /\ [NextTransmit]_allVars => [EntriesStep]_vars /\ [FoundStep]_vars
  BY StepEntries, StepFound, TransmitIsStep
<1> QED
  BY <1>1, LateTypes, PTL DEF SpecTransmit, EntriesStayTrue, EntriesStep, StaysFound, FoundStep

(* Nor do dialogues: a late client sends commands that are out of date     *)
(* when they are executed, and the same few steps are to blame.            *)
THEOREM LateDialogues == SpecTransmit => NoNewCircle /\ DialoguesStayMutual /\ PromisesBrokenLate
<1>1. InitTransmit => MenuAlone
  BY AloneInit DEF InitTransmit
<1>2. TypeOK /\ MenuAlone /\ [NextTransmit]_allVars => MenuAlone'
  BY AloneStep, TransmitIsStep
<1>3. TypeOK /\ TypeOK' /\ MenuAlone /\ [NextTransmit]_allVars =>
        [CircleStep]_vars /\ [MutualStep]_vars /\ [PromiseStep]_vars
  BY StepCircle, StepMutual, StepPromise, TransmitIsStep
<1> QED
  BY <1>1, <1>2, <1>3, LateTypes, PTL
     DEF SpecTransmit, NoNewCircle, CircleStep, DialoguesStayMutual, MutualStep, PromisesBrokenLate, PromiseStep
--------------------------------------------------------------------------------
(* Answers to prompts that arrive late.                                    *)

(* The caller is a friend on the way to the screen, too. *)
UnseenFit ==
  \A fd \in Fds : \A i \in DOMAIN Unseen(fd) :
    Unseen(fd)[i].response = "communication_request_from_server" => FriendOf(Unseen(fd)[i].login, fd)

LEMMA UnseenStep ==
  ASSUME TypeOK, ChannelsOK, RequestsFit, CallersFit, UnseenFit, [NextTransmit]_allVars
  PROVE CallersFit' /\ UnseenFit'
<1>0. win \in [Fds -> Windows] /\ sockets \subseteq Fds
  BY DEF TypeOK, WorldOK
<1>1. ASSUME UNCHANGED <<win, transit, buffer>> PROVE CallersFit' /\ UnseenFit'
  BY <1>1 DEF CallersFit, UnseenFit, Unseen, FriendOf
<1>2. ASSUME NEW fd \in Fds, Unseen(fd)' = Unseen(fd), NEW i \in DOMAIN Unseen(fd)',
             Unseen(fd)'[i].response = "communication_request_from_server"
      PROVE FriendOf(Unseen(fd)'[i].login, fd)
  BY <1>2 DEF UnseenFit
<1>3. ASSUME NEW w \in Workers, NEW to, NEW response \in Responses, NEW login \in LoginOrNone,
             Transmits(w, to, response, login)
      PROVE CallersFit' /\ UnseenFit'
  <2>1. UNCHANGED <<win, sockets>>
    BY <1>3 DEF Transmits, transmit
  <2>2. response = "communication_request_from_server" => FriendOf(login, to)
    BY <1>3 DEF Transmits, RequestsFit, RequestFits, Message
  <2>3. ASSUME NEW fd \in Fds, NEW i \in DOMAIN Unseen(fd)',
               Unseen(fd)'[i].response = "communication_request_from_server"
        PROVE FriendOf(Unseen(fd)'[i].login, fd)
    <3>1. CASE Unseen(fd)' = Unseen(fd)
      BY <1>2, <2>3, <3>1
    <3>2. CASE Unseen(fd)' # Unseen(fd)
      <4>0. PICK m : m = [response |-> response, login |-> login]
        OBVIOUS
      <4>1. fd = to /\ fd \in sockets /\ Unseen(fd)' = Append(Unseen(fd), m)
        BY <1>3, <2>1, <3>2, <4>0, Transmitted DEF Transmits
      <4>2. Unseen(fd) \in Seq(Told)
        <5>1. buffer[fd] \in Seq(Told) /\ transit[fd] \in Seq(Told)
          BY DEF ChannelsOK
        <5> QED
          BY <5>1, ConcatProperties DEF Unseen
      <4>3. CASE i \in DOMAIN Unseen(fd) /\ Unseen(fd)'[i] = Unseen(fd)[i]
        BY <2>3, <4>3 DEF UnseenFit
      <4>4. CASE Unseen(fd)'[i] = m
        BY <2>2, <2>3, <4>0, <4>1, <4>4
      <4> QED
        BY <4>1, <4>2, <4>3, <4>4
    <3> QED
      BY <3>1, <3>2
  <2>4. UnseenFit'
    BY <2>3 DEF UnseenFit, FriendOf
  <2>5. CallersFit'
    BY <2>1 DEF CallersFit, FriendOf
  <2> QED
    BY <2>4, <2>5
<1>4. ASSUME NEW to, Clear(to), sockets' = sockets \ {to}, win' = [win EXCEPT ![to] = FreshWindows]
      PROVE CallersFit' /\ UnseenFit'
  <2>1. \A fd \in Fds : Unseen(fd)' = IF fd = to THEN <<>> ELSE Unseen(fd)
    BY <1>4, Cleared
  <2>2. \A fd \in Fds : \A i \in DOMAIN Unseen(fd)' :
          Unseen(fd)'[i].response = "communication_request_from_server" => FriendOf(Unseen(fd)'[i].login, fd)
    BY <1>2, <2>1
  <2>3. UnseenFit'
    BY <2>2 DEF UnseenFit, FriendOf
  <2>4. CallersFit'
    BY <1>0, <1>4 DEF CallersFit, FriendOf, FreshWindows
  <2> QED
    BY <2>3, <2>4
<1>5. ASSUME NEW to \in Fds, NEW n \in 1 .. Len(transit[to]), server_listener(to, n)
      PROVE CallersFit' /\ UnseenFit'
  <2>1. PICK s : s = Unseen(to)
    OBVIOUS
  <2>2. PICK m : m = Head(s)
    OBVIOUS
  <2>3. /\ s \in Seq(Told) /\ s # <<>>
        /\ win' = [win EXCEPT ![to] = AfterReceiving(@, m.response, m.login)]
        /\ \A fd \in Fds : Unseen(fd)' = IF fd = to THEN Tail(Unseen(fd)) ELSE Unseen(fd)
    BY <1>5, <2>1, <2>2, Listened
  <2>4. /\ m = s[1] /\ 1 \in DOMAIN s
        /\ \A i \in DOMAIN Tail(s) : i + 1 \in DOMAIN s /\ Tail(s)[i] = s[i + 1]
    BY <2>2, <2>3
  <2>5. \A i \in DOMAIN s : s[i].response = "communication_request_from_server" => FriendOf(s[i].login, to)
    BY <2>1 DEF UnseenFit
  <2>6. \A fd \in Fds : \A i \in DOMAIN Unseen(fd)' :
          Unseen(fd)'[i].response = "communication_request_from_server" => FriendOf(Unseen(fd)'[i].login, fd)
    <3>1. \A i \in DOMAIN Tail(s) :
            Tail(s)[i].response = "communication_request_from_server" => FriendOf(Tail(s)[i].login, to)
      BY <2>4, <2>5
    <3> QED
      BY <1>2, <2>1, <2>3, <3>1
  <2>7. UnseenFit'
    BY <2>6 DEF UnseenFit, FriendOf
  <2>8. \A v \in Windows : LET caller == AfterReceiving(v, m.response, m.login).caller IN
          \/ caller \in {NoLogin, v.caller}
          \/ m.response = "communication_request_from_server" /\ caller = m.login
    BY DEF Windows, AfterReceiving, Show
  <2>9. \A fd \in Fds : win'[fd].caller # NoLogin => FriendOf(win'[fd].caller, fd)
    BY <1>0, <2>3, <2>4, <2>5, <2>8 DEF CallersFit
  <2>10. CallersFit'
    BY <2>9 DEF CallersFit, FriendOf
  <2> QED
    BY <2>7, <2>10
<1>6. ASSUME NEW w \in Workers, HandleTransmit(w) PROVE CallersFit' /\ UnseenFit'
  BY <1>1, <1>3, <1>4, <1>6, HandleChannels DEF reject_close
<1>7. ASSUME NEW w \in Workers, Pop(w), UNCHANGED channels PROVE CallersFit' /\ UnseenFit'
  BY <1>1, <1>7 DEF Pop, channels
<1>8. CASE EnvironmentTransmit
  <2>1. ASSUME Environment, UNCHANGED <<transit, buffer>> PROVE CallersFit' /\ UnseenFit'
    BY <2>1, CallersElsewhere DEF UnseenFit, Unseen, FriendOf
  <2>2. ASSUME NEW fd \in Fds, Disconnect(fd), Clear(fd) PROVE CallersFit' /\ UnseenFit'
    BY <1>4, <2>2 DEF Disconnect
  <2> QED
    BY <1>5, <1>8, <2>1, <2>2 DEF EnvironmentTransmit, Environment, readyRead, channels
<1> QED
  BY <1>1, <1>6, <1>7, <1>8 DEF NextTransmit, allVars

(* Nor does the approval of a caller get lost on the way: a client that    *)
(* answers a prompt it read late, behind other commands, and perhaps in    *)
(* another session of its own, still answers a friend.                     *)
THEOREM LateAnswers == ASSUME Polite PROVE SpecTransmit => AskedByFriend
<1>1. InitTransmit => TypeOK /\ ChannelsOK /\ WorkersAgree /\ Acquainted /\ CallersFit /\ UnseenFit
  <2>1. InitTransmit => Acquainted /\ CallersFit /\ WorkersAgree
    BY AcquaintedInit DEF InitTransmit, Init, WorkersAgree
  <2>2. InitTransmit => UnseenFit
    <3> SUFFICES ASSUME NoneUnderWay, NEW fd \in Fds PROVE Unseen(fd) = <<>>
      BY DEF InitTransmit, UnseenFit
    <3>1. <<>> \o <<>> = <<>>
      OBVIOUS
    <3> QED
      BY <3>1 DEF NoneUnderWay, Unseen
  <2> QED
    BY <2>1, <2>2, LateInit
<1>2. TypeOK /\ ChannelsOK /\ WorkersAgree /\ Acquainted /\ CallersFit /\ UnseenFit /\ [NextTransmit]_allVars
      => (TypeOK /\ ChannelsOK /\ WorkersAgree /\ Acquainted /\ CallersFit /\ UnseenFit)'
  BY LateType, WorkersStep, AcquaintedStep, UnseenStep, TransmitIsStep DEF Acquainted
<1>3. Acquainted => [AnswersFriends]_vars
  BY AcquaintedAsked
<1> QED
  BY <1>1, <1>2, <1>3, PTL DEF SpecTransmit, AskedByFriend, AnswersFriends
--------------------------------------------------------------------------------
(* The records of closed connections: Doomed is inductive.                 *)

(* The connection is closed, or a worker that rejected it is about to.     *)
Gone(fd) == fd \notin sockets \/ \E w \in Workers : pc[w] = "close" /\ From(w) = fd

(* There is a record of fd, or one to come. *)
Recorded(fd) == fd \in DOMAIN users \/ BeingMade(fd)

(* The record of a connection that is, or will be, closed is deleted; it   *)
(* has to be said of records to come and of rejected connections as well.  *)
Doomed == \A fd \in Fds \ overtaken : Gone(fd) /\ Recorded(fd) => BeingDeleted(fd)

(* The commands of epoll threads and rejecting workers. *)
Orders == {Command(action, fd, NoLogin) : action \in {"make_new_user", "delete_user"}, fd \in Fds}

LEMMA OrderFacts ==
  /\ \A c \in Orders : c # NoCommand /\ c.action \notin UserMoves
  /\ \A c \in Commands : c.action \notin UserMoves => c = Command(c.action, c.from, NoLogin)
  /\ \A fd, g : Command("make_new_user", fd, NoLogin) # Command("delete_user", g, NoLogin)
  /\ \A action, fd, g : Command(action, fd, NoLogin) = Command(action, g, NoLogin) => fd = g
  /\ \A action, fd, login : /\ Command(action, fd, login).action = action
                            /\ Command(action, fd, login).from = fd
<1>1. \A action, fd, login : /\ Command(action, fd, login).action = action
                             /\ Command(action, fd, login).from = fd
  BY DEF Command
<1>2. \A c \in Orders : c # NoCommand /\ c.action \notin UserMoves
  BY <1>1, Internal DEF Orders
<1>3. \A c \in Commands : c.action \notin UserMoves => c = Command(c.action, c.from, NoLogin)
  BY DEF Commands, Command
<1> QED
  BY <1>1, <1>2, <1>3

(* What has been ordered is handed on ...                                  *)
LEMMA WayPop ==
  ASSUME TypeOK, WorkersAgree, NEW w \in Workers, Pop(w), NEW c \in Orders
  PROVE UnderWay(c)' <=> UnderWay(c)
<1>1. c # NoCommand
  BY OrderFacts
<1>2. ASSUME UnderWay(c)' PROVE UnderWay(c)
  BY <1>2, PopFrame DEF UnderWay
<1>3. ASSUME UnderWay(c) PROVE UnderWay(c)'
  <2>1. ASSUME NEW i \in DOMAIN commands, commands[i] = c PROVE UnderWay(c)'
    <3>1. CASE i = 1
      BY <2>1, <3>1, PopFrame DEF UnderWay
    <3>2. CASE i # 1
      <4>1. i - 1 \in DOMAIN commands' /\ i \in Nat
        BY <3>2, PopFrame
      <4>2. commands'[i - 1] = commands[(i - 1) + 1] /\ (i - 1) + 1 = i
        BY <4>1, PopFrame
      <4> QED
        BY <2>1, <4>1, <4>2 DEF UnderWay
    <3> QED
      BY <3>1, <3>2
  <2>2. CASE c \in pending
    BY <2>2, PopFrame DEF UnderWay
  <2>3. ASSUME NEW v \in Workers, cmd[v] = c PROVE UnderWay(c)'
    BY <1>1, <2>3, PopFrame DEF UnderWay
  <2> QED
    BY <1>3, <2>1, <2>2, <2>3 DEF UnderWay
<1> QED
  BY <1>2, <1>3

(* ... or added to, ...                                                    *)
LEMMA WayAppend ==
  ASSUME TypeOK, NEW c, NEW d, commands' = Append(commands, d), \A w \in Workers : cmd'[w] = cmd[w],
         pending' \in {pending, pending \ {d}}
  PROVE UnderWay(c)' <=> UnderWay(c) \/ c = d
<1>1. commands \in Seq(Commands)
  BY DEF TypeOK, WorldOK
<1>2. ASSUME UnderWay(c)', c # d PROVE UnderWay(c)
  BY <1>1, <1>2, AppendFrame DEF UnderWay
<1>3. c = d => UnderWay(c)'
  BY <1>1, AppendFrame DEF UnderWay
<1>4. ASSUME UnderWay(c), c # d PROVE UnderWay(c)'
  BY <1>1, <1>4, AppendFrame DEF UnderWay
<1> QED
  BY <1>2, <1>3, <1>4

(* ... or carried out by a worker, who orders nothing unless he rejects.   *)
LEMMA WayServe ==
  ASSUME TypeOK, WorkersAgree, NEW w \in Workers, Serves(w), UNCHANGED commands, NEW c \in Orders
  PROVE /\ UnderWay(c)' => UnderWay(c)
        /\ UnderWay(c) /\ cmd[w] # c => UnderWay(c)'
<1>1. c # NoCommand /\ UNCHANGED pending /\ LocalFrame(w)
  BY OrderFacts, HandleFrame
<1>2. (\A v \in Workers \ {w} : cmd'[v] = cmd[v]) /\ cmd'[w] \in {cmd[w], NoCommand}
  BY <1>1 DEF LocalFrame, From
<1> QED
  BY <1>1, <1>2 DEF UnderWay

(* Where Overtake looks.                                                   *)
LEMMA OvertakenStep ==
  ASSUME Overtake, NEW fd \in Fds, fd \notin overtaken', Recorded(fd)'
  PROVE fd \notin overtaken /\ ~Overtaking(fd)
BY DEF Overtake, Recorded

(* A worker that deletes a record does nothing else.                       *)
LEMMA OnlyErase ==
  ASSUME NEW w \in Workers, Serves(w), At(w, "popped", "delete_user")
  PROVE erase_user(w) /\ From(w) \notin DOMAIN users'
<1>1. erase_user(w)
  BY Internal DEF Serves, Work, At, make_new_user, authorization, reject_push, reject_close, no_case, SendsOut,
     authentication_lookup, authentication_finish, registration, leave_from_account, get_friends_list,
     get_friends_requests, accept_friendship, discard_friendship, make_friend_request, list_command,
     database_command, request_start, request_denied, request_forward, communication_response,
     send_message, exit_dialog
<1>2. From(w) \notin DOMAIN users'
  BY <1>1, Zenon DEF erase_user, maps
<1> QED
  BY <1>1, <1>2

(* Records come by make_new_user only. *)
LEMMA RecordsCome ==
  ASSUME TypeOK, NEW w \in Workers, Serves(w), NEW fd \in DOMAIN users' \ DOMAIN users
  PROVE pc[w] = "popped" /\ cmd[w] = Command("make_new_user", fd, NoLogin)
<1>1. CASE Creates(w)
  <2>1. pc[w] = "popped" /\ cmd[w].action = "make_new_user" /\ From(w) = fd
    BY <1>1 DEF Creates, At, Emplace
  <2>2. cmd[w] \in Commands
    BY <2>1 DEF TypeOK, LocalsOK
  <2> QED
    BY <2>1, <2>2, OrderFacts, Internal DEF From
<1>2. CASE Removes(w)
  BY <1>2 DEF Removes
<1>3. CASE LogsIn(w) \/ Leaves(w) \/ Asks(w) \/ Talks(w) \/ \E S : Releases(w, S)
  BY <1>3 DEF LogsIn, Leaves, LogsOut, Asks, Talks, Releases
<1> QED
  BY <1>1, <1>2, <1>3, RecordFrame DEF maps

LEMMA DoomedHandle ==
  ASSUME TypeOK, WorkersAgree, Doomed, NEW w \in Workers, Serves(w), Overtake,
         NEW fd \in Fds, fd \notin overtaken', Gone(fd)', Recorded(fd)'
  PROVE BeingDeleted(fd)'
<1>0. fd \notin overtaken /\ ~Overtaking(fd)
  BY OvertakenStep
<1>1. PICK make, delete : make = Command("make_new_user", fd, NoLogin) /\ delete = Command("delete_user", fd, NoLogin)
  OBVIOUS
<1>2. /\ make \in Orders /\ delete \in Orders /\ make # delete
      /\ BeingMade(fd) = UnderWay(make) /\ BeingMade(fd)' = UnderWay(make)'
      /\ BeingDeleted(fd) = UnderWay(delete) /\ BeingDeleted(fd)' = UnderWay(delete)'
  BY <1>1, OrderFacts DEF Orders, BeingMade, BeingDeleted
<1>3. LocalFrame(w) /\ UNCHANGED pending
  BY HandleFrame
<1>4. CASE UNCHANGED commands /\ pc'[w] # "close"
  <2>1. Gone(fd)
    <3>1. UNCHANGED sockets \/ (pc[w] = "close" /\ sockets' = sockets \ {From(w)})
      BY HandleFrame
    <3>2. ASSUME NEW v \in Workers, pc'[v] = "close", From(v)' = fd PROVE pc[v] = "close" /\ From(v) = fd
      BY <1>3, <1>4, <3>2 DEF LocalFrame, From
    <3> QED
      BY <3>1, <3>2 DEF Gone, From
  <2>2. BeingMade(fd)' => BeingMade(fd)
    BY <1>2, <1>4, WayServe
  <2>3. Recorded(fd)
    <3>1. fd \in DOMAIN users' \ DOMAIN users => UnderWay(make)
      BY <1>1, RecordsCome DEF UnderWay
    <3> QED
      BY <1>2, <2>2, <3>1 DEF Recorded
  <2>4. UnderWay(delete)
    BY <1>0, <1>2, <2>1, <2>3 DEF Doomed
  <2>5. cmd[w] # delete
    <3> SUFFICES ASSUME cmd[w] = delete PROVE FALSE
      OBVIOUS
    <3>1. At(w, "popped", "delete_user") /\ From(w) = fd
      BY <1>1, <1>3, Internal, OrderFacts DEF At, From, WorkersAgree, LocalFrame
    <3>2. fd \notin DOMAIN users' /\ erase_user(w)
      BY <3>1, OnlyErase
    <3>3. pc[w] # pc'[w]
      <4>1. ~SendsOut(w)
        BY <3>1 DEF SendsOut, At
      <4> QED
        BY <4>1, ServingActs DEF Acts
    <3>4. BeingMade(fd)' /\ BeingMade(fd)
      BY <2>2, <3>2 DEF Recorded
    <3> QED
      BY <1>0, <3>1, <3>3, <3>4 DEF Overtaking
  <2> QED
    BY <1>2, <1>4, <2>4, <2>5, WayServe
<1>5. CASE /\ pc[w] = "reject" /\ pc'[w] = "close"
           /\ commands' = Append(commands, Command("delete_user", From(w), NoLogin))
  <2>1. PICK d : d = Command("delete_user", From(w), NoLogin)
    OBVIOUS
  <2>2. commands' = Append(commands, d) /\ \A v \in Workers : cmd'[v] = cmd[v]
    BY <1>3, <1>5, <2>1 DEF LocalFrame, From
  <2>3. \A c \in Orders : UnderWay(c)' <=> UnderWay(c) \/ c = d
    BY <1>3, <2>2, WayAppend
  <2>4. CASE From(w) = fd
    BY <1>1, <1>2, <2>1, <2>3, <2>4
  <2>5. CASE From(w) # fd
    <3>1. UNCHANGED sockets
      BY <1>5, HandleFrame
    <3>2. Gone(fd)
      <4>1. ASSUME NEW v \in Workers, pc'[v] = "close", From(v)' = fd PROVE pc[v] = "close" /\ From(v) = fd
        BY <1>3, <2>2, <2>5, <4>1 DEF LocalFrame, From
      <4> QED
        BY <3>1, <4>1 DEF Gone, From
    <3>3. make # d
      BY <1>1, <2>1, OrderFacts
    <3>4. fd \in DOMAIN users' => fd \in DOMAIN users
      BY <1>5, RecordsCome
    <3>5. Recorded(fd)
      BY <1>2, <2>3, <3>3, <3>4 DEF Recorded
    <3> QED
      BY <1>0, <1>2, <2>3, <3>2, <3>5 DEF Doomed
  <2> QED
    BY <2>4, <2>5
<1> QED
  BY <1>4, <1>5, HandleFrame

LEMMA DoomedElsewhere ==
  ASSUME TypeOK, WorkersAgree, Doomed, (\E w \in Workers : Pop(w)) \/ Environment \/ UNCHANGED server, Overtake,
         NEW fd \in Fds, fd \notin overtaken', Gone(fd)', Recorded(fd)'
  PROVE BeingDeleted(fd)'
<1>0. fd \notin overtaken /\ ~Overtaking(fd)
  BY OvertakenStep
<1>1. PICK make, delete : make = Command("make_new_user", fd, NoLogin) /\ delete = Command("delete_user", fd, NoLogin)
  OBVIOUS
<1>2. /\ make \in Orders /\ delete \in Orders /\ make # delete
      /\ BeingMade(fd) = UnderWay(make) /\ BeingMade(fd)' = UnderWay(make)'
      /\ BeingDeleted(fd) = UnderWay(delete) /\ BeingDeleted(fd)' = UnderWay(delete)'
  BY <1>1, OrderFacts DEF Orders, BeingMade, BeingDeleted
<1>3. ASSUME Gone(fd), UNCHANGED users, UnderWay(make)' => UnderWay(make), UnderWay(delete) => UnderWay(delete)'
      PROVE BeingDeleted(fd)'
  BY <1>0, <1>2, <1>3 DEF Doomed, Recorded
<1>4. ASSUME UNCHANGED server PROVE BeingDeleted(fd)'
  <2>1. UnderWay(make)' = UnderWay(make) /\ UnderWay(delete)' = UnderWay(delete) /\ Gone(fd) /\ UNCHANGED users
    BY <1>4 DEF server, UnderWay, Gone, From
  <2> QED
    BY <1>3, <2>1
<1>5. ASSUME NEW w \in Workers, Pop(w) PROVE BeingDeleted(fd)'
  <2>1. Gone(fd)
    BY <1>5, PopFrame DEF Gone, From
  <2>2. UNCHANGED users
    BY <1>5 DEF Pop
  <2> QED
    BY <1>2, <1>3, <1>5, <2>1, <2>2, WayPop
<1>6. ASSUME UNCHANGED <<pc, cmd, sockets>> PROVE Gone(fd)
  BY <1>6 DEF Gone, From
<1>7. ASSUME NEW g \in Fds, Accept(g) PROVE BeingDeleted(fd)'
  <2>1. PICK c : c = Command("make_new_user", g, NoLogin)
    OBVIOUS
  <2>2. /\ g \notin sockets /\ sockets' = sockets \cup {g} /\ pending' = pending \cup {c}
        /\ UNCHANGED <<users, commands, pc, cmd>>
    BY <1>7, <2>1 DEF Accept, maps, locals
  <2>3. CASE g = fd
    <3>1. \E w \in Workers : pc[w] = "close" /\ From(w) = fd
      BY <2>2, <2>3 DEF Gone, From
    <3>2. BeingMade(fd)'
      BY <1>1, <1>2, <2>1, <2>2, <2>3 DEF UnderWay
    <3> QED
      BY <1>0, <2>2, <2>3, <3>1, <3>2 DEF Overtaking
  <2>4. CASE g # fd
    <3>1. Gone(fd)
      BY <2>2, <2>4 DEF Gone, From
    <3>2. make # c /\ delete # c
      BY <1>1, <2>1, <2>4, OrderFacts
    <3> QED
      BY <1>3, <2>2, <3>1, <3>2 DEF UnderWay
  <2> QED
    BY <2>3, <2>4
<1>8. ASSUME NEW g \in Fds, Disconnect(g) PROVE BeingDeleted(fd)'
  <2>1. PICK c : c = Command("delete_user", g, NoLogin)
    OBVIOUS
  <2>2. sockets' = sockets \ {g} /\ pending' = pending \cup {c} /\ UNCHANGED <<users, commands, pc, cmd>>
    BY <1>8, <2>1 DEF Disconnect, maps, locals
  <2>3. CASE g = fd
    BY <1>1, <1>2, <2>1, <2>2, <2>3 DEF UnderWay
  <2>4. CASE g # fd
    <3>1. Gone(fd)
      BY <2>2, <2>4 DEF Gone, From
    <3>2. make # c
      BY <1>1, <2>1, OrderFacts
    <3> QED
      BY <1>3, <2>2, <3>1, <3>2 DEF UnderWay
  <2> QED
    BY <2>3, <2>4
<1>9. ASSUME NEW c \in pending, PushPending(c) PROVE BeingDeleted(fd)'
  <2>1. /\ commands' = Append(commands, c) /\ pending' = pending \ {c} /\ UNCHANGED <<users, sockets, pc, cmd>>
    BY <1>9 DEF PushPending, maps, locals
  <2>2. \A d \in Orders : UnderWay(d)' <=> UnderWay(d) \/ d = c
    BY <2>1, WayAppend
  <2>3. UnderWay(c)
    BY DEF UnderWay
  <2> QED
    BY <1>2, <1>3, <1>6, <2>1, <2>2, <2>3
<1>10. ASSUME NEW g \in Fds, NEW action \in Moves, NEW login \in LoginOrNone, ClientSend(g, action, login)
       PROVE BeingDeleted(fd)'
  <2>1. PICK c : c = Command(action, g, login)
    OBVIOUS
  <2>2. commands' = Append(commands, c) /\ UNCHANGED <<users, pending, sockets, pc, cmd>>
    BY <1>10, <2>1 DEF ClientSend, maps, locals
  <2>3. c.action \in UserMoves
    BY <2>1, OrderFacts, WorkAssumption
  <2>4. \A d \in Orders : UnderWay(d)' <=> UnderWay(d) \/ d = c
    BY <2>2, WayAppend
  <2> QED
    BY <1>2, <1>3, <1>6, <2>2, <2>3, <2>4, OrderFacts
<1>11. ASSUME NEW g \in Fds, set_make_request_mode(g) PROVE BeingDeleted(fd)'
  BY <1>4, <1>11 DEF set_make_request_mode, server, maps, locals
<1> QED
  BY <1>4, <1>5, <1>7, <1>8, <1>9, <1>10, <1>11 DEF Environment

LEMMA DoomedStep ==
  ASSUME TypeOK, WorkersAgree, Doomed, [NextTransmit]_allVars
  PROVE Doomed'
<1>1. CASE UNCHANGED allVars
  BY <1>1 DEF allVars, Doomed, Gone, From, Recorded, BeingMade, BeingDeleted, UnderWay
<1>2. CASE NextTransmit
  <2>1. Overtake /\ Step
    BY <1>2, TransmitIsStep DEF NextTransmit, Observe
  <2>2. ASSUME NEW fd \in Fds, fd \notin overtaken', Gone(fd)', Recorded(fd)' PROVE BeingDeleted(fd)'
    BY <2>1, <2>2, DoomedHandle, DoomedElsewhere DEF Step
  <2> QED
    BY <2>2 DEF Doomed
<1> QED
  BY <1>1, <1>2

(* The record of a connection that the client or the server closed is      *)
(* always about to be deleted, whatever clients send, however fast they    *)
(* hang up and numbers are given out again, unless the deletion was        *)
(* executed before the creation: Server_Handle watches a descriptor before *)
(* it queues make_new_user (server_handle.cpp:121-131), and a worker       *)
(* queues delete_user before it closes.                                    *)
THEOREM OnlyOvertakenRecordsStay == SpecTransmit => []DeletedUnlessOvertaken
<1>1. InitTransmit => TypeOK /\ ChannelsOK /\ WorkersAgree /\ Doomed
  <2>1. InitTransmit => WorkersAgree
    BY DEF InitTransmit, Init, WorkersAgree
  <2>2. InitTransmit => Doomed
    <3> SUFFICES ASSUME Init, NEW fd \in Fds PROVE ~Recorded(fd)
      BY DEF InitTransmit, Doomed
    <3>1. Command("make_new_user", fd, NoLogin) # NoCommand
      BY OrderFacts, Internal
    <3> QED
      BY <3>1 DEF Init, Recorded, BeingMade, UnderWay
  <2> QED
    BY <2>1, <2>2, LateInit
<1>2. /\ TypeOK /\ ChannelsOK /\ WorkersAgree /\ Doomed /\ [NextTransmit]_allVars
      => (TypeOK /\ ChannelsOK /\ WorkersAgree /\ Doomed)'
  BY LateType, WorkersStep, DoomedStep, TransmitIsStep
<1>3. TypeOK /\ Doomed => DeletedUnlessOvertaken
  BY DEF TypeOK, MapsOK, Doomed, Gone, Recorded, DeletedUnlessOvertaken
<1> QED
  BY <1>1, <1>2, <1>3, PTL DEF SpecTransmit
================================================================================
