------------------------- MODULE ServerHandle_proofs -------------------------
(***************************************************************************)
(* For any number of epoll threads, workers, connections and descriptors,  *)
(* any width of the counters, failing EPOLL_CTL_ADD, partial reads and     *)
(* refused commands: the usage of a thread accounts for its epoll set, an  *)
(* open connection is read by exactly one thread, in the order in which it *)
(* was written, and only closed for a reason of its own.                   *)
(***************************************************************************)
EXTENDS ServerHandle, WellFoundedInduction, FiniteSetTheorems, SequenceTheorems, TLAPS

(* A set of numbers that is not empty has a smallest one. *)
LEMMA SmallestExists ==
  ASSUME NEW T \in SUBSET Nat, T # {}
  PROVE \E m \in T : \A n \in T : m <= n
<1> DEFINE R == {ss \in Nat \X Nat : ss[1] < ss[2]}
<1>1. IsWellFoundedOn(R, Nat)
  BY NatLessThanWellFounded DEF OpToRel
<1> HIDE DEF R
<1>2. PICK m \in T : \A n \in T : ~(<<n, m>> \in R)
  BY <1>1, WFMin
<1>3. \A n \in T : ~(n < m)
  BY <1>2 DEF R
<1> QED
  BY <1>3

(* Min of the community modules finds it. *)
LEMMA MinIsMember ==
  ASSUME NEW T \in SUBSET Nat, T # {}
  PROVE Min(T) \in T
BY SmallestExists DEF Min

(* Two remainders that differ by a multiple of the modulus are the same. *)
LEMMA Same ==
  ASSUME NEW m \in Nat \ {0}, NEW k \in Int, NEW r \in 0 .. m - 1, NEW s \in 0 .. m - 1,
         r - s = m * k
  PROVE r = s
<1>1. CASE k = 0
  BY <1>1
<1>2. CASE k >= 1
  <2>1. m * k >= m
    BY <1>2
  <2> QED BY <2>1
<1>3. CASE k <= -1
  <2>1. m * k <= - m
    BY <1>3
  <2> QED BY <2>1
<1> QED BY <1>1, <1>2, <1>3

(* What % and \div are for a negative dividend, too. *)
LEMMA DivMod ==
  ASSUME NEW m \in Nat \ {0}, NEW a \in Int
  PROVE a % m \in 0 .. m - 1 /\ a \div m \in Int /\ a = m * (a \div m) + (a % m)
<1>1. a % m \in 0 .. m - 1
  OBVIOUS
<1>2. a \div m \in Int
  OBVIOUS
<1>3. a = m * (a \div m) + (a % m)
  OBVIOUS
<1> QED BY <1>1, <1>2, <1>3

(* Remainders may be taken after every step or once at the end. *)
LEMMA ModStep ==
  ASSUME NEW m \in Nat \ {0}, NEW a \in Int, NEW d \in Int
  PROVE ((a % m) + d) % m = (a + d) % m
<1> DEFINE r == a % m
           u == (r + d) % m
           v == (a + d) % m
           q == a \div m
           i == (r + d) \div m
           j == (a + d) \div m
<1>1. r \in 0 .. m - 1 /\ q \in Int /\ a = m * q + r
  BY DivMod
<1>2. r + d \in Int /\ a + d \in Int
  BY <1>1
<1> HIDE DEF r
<1>3. u \in 0 .. m - 1 /\ i \in Int /\ r + d = m * i + u
  BY <1>2, DivMod
<1>4. v \in 0 .. m - 1 /\ j \in Int /\ a + d = m * j + v
  BY <1>2, DivMod
<1> HIDE DEF u, v, q, i, j
<1>5. u - v = m * (j - q - i)
  <2>1. m * (j - q - i) = m * j - m * q - m * i
    BY <1>1, <1>3, <1>4
  <2> QED BY <1>1, <1>2, <1>3, <1>4, <2>1
<1>6. u = v
  <2>1. j - q - i \in Int
    BY <1>1, <1>3, <1>4
  <2> QED BY <2>1, <1>3, <1>4, <1>5, Same
<1> QED BY <1>6 DEF r, u, v

Places == {"wait", "event", "choose", "add", "count", "announce",
           "blocked", "push", "close", "delete", "uncount"}
Events == SUBSET (Fds \cup {MainSocket})
Locals == [fd : Fds \cup {NoFd, MainSocket}, chosen : Threads, next : Threads, least : 0 .. Modulus - 1,
           number : Nat, conn : Conns \cup {NoConn}]
Commands == [action : {"make_new_user", "delete_user", "user"}, from : Fds, conn : Conns \cup {NoConn}]

(* What TypeOK says of the threads' own variables. *)
ThreadsOK ==
  /\ events \in [Threads -> Events] /\ pc \in [Threads -> Places] /\ local \in [Threads -> Locals]
  /\ \A t \in Threads :
       /\ pc[t] = "event" => local[t].fd \in Fds \cup {MainSocket}
       /\ pc[t] \notin {"wait", "event"} => local[t].fd \in Fds
       /\ pc[t] \in {"blocked", "push"} => local[t].conn \in Conns

(* Nothing of the other threads changes. *)
Alone(t) == \A u \in Threads \ {t} : events'[u] = events[u] /\ pc'[u] = pc[u] /\ local'[u] = local[u]

(* The local variables of a thread that turns to an event. *)
LEMMA NoLocalOK == NoLocal \in Locals /\ \A fd \in Fds \cup {MainSocket} :
                     /\ [NoLocal EXCEPT !.fd = fd] \in Locals
                     /\ [NoLocal EXCEPT !.fd = fd].fd = fd
BY FrontAssumption DEF NoLocal, Locals

(* Turning to an event of a set changes nothing but that thread.           *)
LEMMA TakeEffect ==
  ASSUME ThreadsOK, NEW t \in Threads, NEW set \in Events, Take(t, set)
  PROVE /\ ThreadsOK' /\ Alone(t)
        /\ events'[t] \subseteq set /\ pc'[t] = "event" /\ local'[t].fd \in set
<1>1. PICK fd \in set : /\ events' = [events EXCEPT ![t] = set \ {fd}]
                        /\ pc' = [pc EXCEPT ![t] = "event"]
                        /\ local' = [local EXCEPT ![t] = [NoLocal EXCEPT !.fd = fd]]
  BY DEF Take
<1> DEFINE new == [NoLocal EXCEPT !.fd = fd]
<1>2. fd \in Fds \cup {MainSocket} /\ new \in Locals /\ new.fd = fd
  BY NoLocalOK DEF Events
<1> HIDE DEF new
<1>3. local' = [local EXCEPT ![t] = new]
  BY <1>1 DEF new
<1>4. events' \in [Threads -> Events] /\ pc' \in [Threads -> Places] /\ local' \in [Threads -> Locals]
  BY <1>1, <1>2, <1>3 DEF ThreadsOK, Events, Places
<1>5. Alone(t) /\ pc'[t] = "event" /\ local'[t].fd = fd /\ events'[t] = set \ {fd}
  BY <1>1, <1>2, <1>3 DEF ThreadsOK, Alone
<1> QED
  BY <1>2, <1>4, <1>5 DEF ThreadsOK, Alone

(* The end of a loop body, too. *)
LEMMA NextEventEffect ==
  ASSUME ThreadsOK, NEW t \in Threads, NextEvent(t)
  PROVE /\ ThreadsOK' /\ Alone(t)
        /\ events'[t] \subseteq events[t] /\ pc'[t] \in {"wait", "event"}
        /\ pc'[t] = "event" => local'[t].fd \in events[t]
<1>1. CASE Take(t, events[t])
  <2>1. events[t] \in Events
    BY DEF ThreadsOK
  <2> QED BY <1>1, <2>1, TakeEffect
<1>2. CASE /\ events[t] = {} /\ UNCHANGED events
           /\ pc' = [pc EXCEPT ![t] = "wait"] /\ local' = [local EXCEPT ![t] = NoLocal]
  BY <1>2, NoLocalOK DEF ThreadsOK, Alone, Places
<1> QED
  BY <1>1, <1>2 DEF NextEvent

(* A step inside a loop body: a new place, and new values in local.        *)
LEMMA MoveEffect ==
  ASSUME ThreadsOK, NEW t \in Threads, NEW place \in Places, NEW new \in Locals,
         UNCHANGED events, pc' = [pc EXCEPT ![t] = place], local' = [local EXCEPT ![t] = new],
         place = "event" => new.fd \in Fds \cup {MainSocket},
         place \notin {"wait", "event"} => new.fd \in Fds,
         place \in {"blocked", "push"} => new.conn \in Conns
  PROVE ThreadsOK' /\ Alone(t) /\ pc'[t] = place /\ local'[t] = new
BY DEF ThreadsOK, Alone

(* A step inside a loop body that leaves the local variables alone. *)
LEMMA GotoEffect ==
  ASSUME ThreadsOK, NEW t \in Threads, NEW place \in Places, UNCHANGED <<events, local>>,
         pc' = [pc EXCEPT ![t] = place], place \notin {"blocked", "push"}, local[t].fd \in Fds
  PROVE ThreadsOK' /\ Alone(t) /\ pc'[t] = place
BY DEF ThreadsOK, Alone

(* What TypeOK says of everybody else. *)
WorldOK ==
  /\ table \in [Fds -> Conns \cup {NoConn}] /\ backlog \in Seq(Conns)
  /\ watched \in [Threads -> SUBSET Fds]
  /\ client \in [Conns -> {"new", "up", "left"}]
  /\ sent \in [Conns -> Nat] /\ stream \in [Conns -> Seq(Halves)]
  /\ usage \in [Threads -> 0 .. Modulus - 1]
  /\ commands \in Seq(Commands)
  /\ closing \in [Workers -> Fds \cup {NoFd}]

(* Together they are the type invariant. *)
LEMMA TypeParts == TypeOK <=> ThreadsOK /\ WorldOK
BY DEF TypeOK, ThreadsOK, WorldOK, Events, Places, Locals, Commands

(* The types hold when the server starts. *)
LEMMA InitType == Init => TypeOK
<1>1. Init => ThreadsOK
  BY NoLocalOK DEF Init, ThreadsOK, Events, Places
<1>2. Init => WorldOK
  BY FrontAssumption, EmptySeq DEF Init, WorldOK
<1> QED BY <1>1, <1>2, TypeParts

(* A pushed command is a command. *)
LEMMA PushType ==
  ASSUME commands \in Seq(Commands), NEW action \in {"make_new_user", "delete_user", "user"},
         NEW fd \in Fds, NEW c \in Conns \cup {NoConn}, Push(action, fd, c)
  PROVE commands' \in Seq(Commands)
BY DEF Push, Command, Commands

(* close() keeps the types of the kernel's state. *)
LEMMA CloseType ==
  ASSUME WorldOK, NEW fd \in Fds, Close(fd)
  PROVE table' \in [Fds -> Conns \cup {NoConn}] /\ watched' \in [Threads -> SUBSET Fds] /\ backlog' \in Seq(Conns)
BY DEF WorldOK, Close

(* The number accept() returns is a free one. *)
LEMMA LowestFree ==
  ASSUME NEW free \in SUBSET Fds, free # {}
  PROVE Min(free) \in free
BY MinIsMember, FrontAssumption

(* The search for a thread ends or goes on; the descriptor stays the same. *)
LEMMA SearchEffect ==
  ASSUME ThreadsOK, WorldOK, NEW t \in Threads, get_minimal_use_thread_number(t)
  PROVE /\ ThreadsOK' /\ Alone(t)
        /\ pc[t] = "choose" /\ pc'[t] \in {"choose", "add"} /\ local'[t].fd = local[t].fd
        /\ UNCHANGED <<kernel, clients, events, usage, commands, closing, history>>
<1>1. /\ pc[t] = "choose" /\ local[t] \in Locals /\ local[t].fd \in Fds
      /\ UNCHANGED <<kernel, clients, events, usage, commands, closing, history>>
  BY DEF get_minimal_use_thread_number, ThreadsOK
<1>2. \A u \in Threads : usage[u] \in 0 .. Modulus - 1
  BY DEF WorldOK
<1>3. PICK new \in Locals :
        /\ local' = [local EXCEPT ![t] = new] /\ new.fd = local[t].fd
        /\ UNCHANGED pc \/ pc' = [pc EXCEPT ![t] = "add"]
  <2> DEFINE l == local[t]
             on(least) == [l EXCEPT !.next = l.next + 1, !.least = least]
             end == [l EXCEPT !.next = 0, !.least = 0]
             found == [l EXCEPT !.chosen = l.next]
  <2>1. /\ l.next \in Threads /\ l.chosen \in Threads /\ l.least \in 0 .. Modulus - 1
        /\ 0 \in Threads /\ 0 \in 0 .. Modulus - 1
    BY <1>1, FrontAssumption DEF Locals
  <2>2. end \in Locals /\ end.fd = l.fd /\ found \in Locals /\ found.fd = l.fd
    BY <1>1, <2>1 DEF Locals
  <2>3. ASSUME NEW least \in 0 .. Modulus - 1, l.next + 1 \in Threads
        PROVE  on(least) \in Locals /\ on(least).fd = l.fd
    BY <1>1, <2>3 DEF Locals
  <2>4. \/ \E least \in 0 .. Modulus - 1 :
             \/ l.next + 1 \in Threads /\ local' = [local EXCEPT ![t] = on(least)] /\ UNCHANGED pc
             \/ local' = [local EXCEPT ![t] = end] /\ pc' = [pc EXCEPT ![t] = "add"]
        \/ local' = [local EXCEPT ![t] = found] /\ UNCHANGED pc
    BY <1>2, <2>1 DEF get_minimal_use_thread_number
  <2> HIDE DEF l, on, end, found
  <2> QED BY <2>2, <2>3, <2>4 DEF l
<1>4. CASE UNCHANGED pc
  <2>1. pc' = [pc EXCEPT ![t] = "choose"]
    BY <1>1, <1>4 DEF ThreadsOK
  <2>2. ThreadsOK' /\ Alone(t)
    BY <1>1, <1>3, <2>1, MoveEffect DEF Places
  <2> QED BY <1>1, <1>3, <2>1, <2>2 DEF ThreadsOK
<1>5. CASE pc' = [pc EXCEPT ![t] = "add"]
  <2>1. ThreadsOK' /\ Alone(t)
    BY <1>1, <1>3, <1>5, MoveEffect DEF Places
  <2> QED BY <1>1, <1>3, <1>5, <2>1 DEF ThreadsOK
<1> QED
  BY <1>3, <1>4, <1>5

(* Every step of an epoll thread keeps the types and the other threads'    *)
(* state.                                                                  *)
LEMMA ThreadType ==
  ASSUME ThreadsOK, WorldOK, NEW t \in Threads, handle_thread(t)
  PROVE ThreadsOK' /\ WorldOK' /\ Alone(t)
<1> USE DEF kernel, clients, history
<1>1. CASE epoll_wait(t)
  <2>1. Ready(t) \in Events
    BY DEF Ready, Events, WorldOK
  <2> QED BY <1>1, <2>1, TakeEffect DEF epoll_wait, WorldOK
<1>2. CASE accept(t)
  <2> DEFINE free == {fd \in Fds : table[fd] = NoConn}
  <2>1. CASE free = {} /\ NextEvent(t) /\ UNCHANGED <<kernel, stale>>
    BY <1>2, <2>1, NextEventEffect DEF accept, WorldOK
  <2>2. CASE /\ free # {}
             /\ table' = [table EXCEPT ![Min(free)] = Head(backlog)] /\ backlog' = Tail(backlog)
             /\ pc' = [pc EXCEPT ![t] = "choose"]
             /\ local' = [local EXCEPT ![t].fd = Min(free)]
             /\ UNCHANGED <<watched, events>>
    <3> DEFINE fd == Min(free)
    <3>1. fd \in Fds
      <4> HIDE DEF free
      <4>1. free \in SUBSET Fds
        BY DEF free
      <4> QED BY <2>2, <4>1, LowestFree
    <3> HIDE DEF fd
    <3>2. Head(backlog) \in Conns /\ Tail(backlog) \in Seq(Conns)
      BY <1>2, HeadTailProperties DEF accept, WorldOK
    <3>3. table' = [table EXCEPT ![fd] = Head(backlog)]
      BY <2>2 DEF fd
    <3>4. table' \in [Fds -> Conns \cup {NoConn}] /\ backlog' \in Seq(Conns)
      BY <2>2, <3>1, <3>2, <3>3 DEF WorldOK
    <3> DEFINE new == [local[t] EXCEPT !.fd = fd]
    <3>5. new \in Locals /\ new.fd = fd
      BY <3>1 DEF ThreadsOK, Locals
    <3>6. local' = [local EXCEPT ![t] = new]
      BY <2>2 DEF fd
    <3> HIDE DEF new
    <3>7. ThreadsOK' /\ Alone(t)
      BY <2>2, <3>1, <3>5, <3>6, MoveEffect DEF Places
    <3>8. WorldOK'
      BY <1>2, <2>2, <3>4 DEF accept, WorldOK
    <3> QED BY <3>7, <3>8
  <2> QED BY <1>2, <2>1, <2>2 DEF accept
<1>3. CASE get_minimal_use_thread_number(t)
  BY <1>3, SearchEffect DEF WorldOK, get_minimal_use_thread_number
<1>4. CASE epoll_ctl_add(t)
  <2>1. local[t].fd \in Fds /\ local[t].chosen \in Threads
    BY <1>4 DEF epoll_ctl_add, ThreadsOK, Locals
  <2>2. CASE /\ watched' = [watched EXCEPT ![local[t].chosen] = @ \cup {local[t].fd}]
             /\ Goto(t, "add", "count") /\ UNCHANGED <<events, local, dropped>>
    <3>1. ThreadsOK' /\ Alone(t)
      BY <2>1, <2>2, GotoEffect DEF Goto, Places
    <3>2. watched' \in [Threads -> SUBSET Fds]
      BY <2>1, <2>2 DEF WorldOK
    <3> QED BY <1>4, <3>1, <3>2 DEF epoll_ctl_add, WorldOK
  <2>3. CASE NextEvent(t) /\ UNCHANGED watched
    BY <1>4, <2>3, NextEventEffect DEF epoll_ctl_add, WorldOK
  <2> QED BY <1>4, <2>2, <2>3 DEF epoll_ctl_add
<1>5. CASE count(t)
  <2>1. local[t].fd \in Fds /\ local[t].chosen \in Threads
    BY <1>5 DEF count, Goto, ThreadsOK, Locals
  <2>2. usage' \in [Threads -> 0 .. Modulus - 1]
    <3> DEFINE n == usage[local[t].chosen]
    <3>1. n \in Int /\ Modulus \in Nat \ {0}
      <4>1. n \in 0 .. Modulus - 1
        BY <2>1 DEF WorldOK
      <4>2. Modulus \in Nat \ {0}
        BY FrontAssumption
      <4> HIDE DEF n
      <4> QED BY <4>1, <4>2
    <3> HIDE DEF n
    <3>2. (n + 1) % Modulus \in 0 .. Modulus - 1
      BY <3>1, DivMod
    <3> USE DEF n
    <3> QED BY <1>5, <2>1, <3>2 DEF count, WorldOK
  <2>3. ThreadsOK' /\ Alone(t)
    BY <1>5, <2>1, GotoEffect DEF count, Goto, Places
  <2> QED BY <1>5, <2>2, <2>3 DEF count, WorldOK
<1>6. CASE announce(t)
  <2>1. commands' \in Seq(Commands)
    BY <1>6, PushType DEF announce, WorldOK, ThreadsOK
  <2> QED BY <1>6, <2>1, NextEventEffect DEF announce, WorldOK
<1>7. CASE recv_block(t)
  <2> DEFINE c == table[local[t].fd]
             new == [local[t] EXCEPT !.conn = c]
  <2>1. local[t].fd \in Fds /\ c \in Conns
    BY <1>7 DEF recv_block, Goto, ThreadsOK, WorldOK
  <2>2. new \in Locals /\ new.fd = local[t].fd /\ new.conn = c
    BY <2>1 DEF ThreadsOK, Locals
  <2>3. local' = [local EXCEPT ![t] = new]
    BY <1>7 DEF recv_block
  <2> HIDE DEF new
  <2>4. ThreadsOK' /\ Alone(t)
    BY <1>7, <2>1, <2>2, <2>3, MoveEffect DEF recv_block, Goto, Places
  <2> QED BY <1>7, <2>4 DEF recv_block, WorldOK
<1>8. CASE recv_command(t)
  <2> DEFINE c == Source(t)
  <2>1. c \in Conns /\ local[t].fd \in Fds
    BY <1>8 DEF recv_command, Receiving, Source, ThreadsOK, WorldOK
  <2> HIDE DEF c
  <2>2. PICK n \in Sizes(stream[c]) :
       /\ stream' = [stream EXCEPT ![c] = SubSeq(@, n + 1, Len(@))]
       /\ \/ (n = 2 => Decoded(stream[c]) = 0) /\ NextEvent(t)
          \/ /\ n = 2 /\ pc' = [pc EXCEPT ![t] = "push"]
             /\ local' = [local EXCEPT ![t].conn = c, ![t].number = Decoded(stream[c])]
             /\ UNCHANGED events
    BY <1>8 DEF recv_command, c
  <2>3. stream[c] \in Seq(Halves) /\ Len(stream[c]) \in Nat /\ n \in 1 .. 2 /\ n <= Len(stream[c])
    BY <2>1, <2>2, LenProperties DEF WorldOK, Sizes
  <2>4. SubSeq(stream[c], n + 1, Len(stream[c])) \in Seq(Halves)
    <3>1. \A i \in n + 1 .. Len(stream[c]) : stream[c][i] \in Halves
      BY <2>3, ElementOfSeq
    <3> QED BY <2>3, <3>1, SubSeqProperties
  <2>5. stream' \in [Conns -> Seq(Halves)]
    BY <2>1, <2>2, <2>4 DEF WorldOK
  <2>6. WorldOK'
    BY <1>8, <2>5 DEF recv_command, WorldOK
  <2>7. CASE NextEvent(t)
    BY <2>6, <2>7, NextEventEffect
  <2>8. CASE /\ n = 2 /\ pc' = [pc EXCEPT ![t] = "push"]
             /\ local' = [local EXCEPT ![t].conn = c, ![t].number = Decoded(stream[c])]
             /\ UNCHANGED events
    <3> DEFINE k == Decoded(stream[c])
               new == [local[t] EXCEPT !.conn = c, !.number = k]
    <3>1. k \in Nat
      <4>1. stream[c][2] \in Nat
        BY <2>3, <2>8, ElementOfSeq DEF Halves
      <4>2. stream[c][2] \div 2 \in Nat
        BY <4>1
      <4> QED BY <4>2 DEF Decoded
    <3> HIDE DEF k
    <3>2. local[t] \in Locals
      BY DEF ThreadsOK
    <3>3. new \in Locals /\ new.fd = local[t].fd /\ new.conn = c
      BY <2>1, <3>1, <3>2 DEF Locals
    <3>4. local' = [local EXCEPT ![t] = new]
      BY <2>8 DEF k, ThreadsOK, Locals
    <3> HIDE DEF new
    <3>5. ThreadsOK' /\ Alone(t)
      BY <2>1, <2>8, <3>3, <3>4, MoveEffect DEF Places
    <3> QED BY <2>6, <3>5
  <2> QED BY <2>2, <2>7, <2>8
<1>9. CASE push(t)
  <2>1. local[t].fd \in Fds /\ local[t].conn \in Conns
    BY <1>9 DEF push, ThreadsOK
  <2>2. commands' \in Seq(Commands)
    BY <1>9, <2>1, PushType DEF push, WorldOK
  <2> QED BY <1>9, <2>2, NextEventEffect DEF push, WorldOK
<1>10. CASE recv_nothing(t)
  <2>1. local[t].fd \in Fds
    BY <1>10 DEF recv_nothing, Receiving, ThreadsOK
  <2>2. ThreadsOK' /\ Alone(t)
    BY <1>10, <2>1, GotoEffect DEF recv_nothing, Places
  <2> QED BY <1>10, <2>2 DEF recv_nothing, WorldOK
<1>11. CASE hangup_close(t)
  <2>1. local[t].fd \in Fds
    BY <1>11 DEF hangup_close, Goto, ThreadsOK
  <2>2. ThreadsOK' /\ Alone(t)
    BY <1>11, <2>1, GotoEffect DEF hangup_close, Goto, Places
  <2>3. WorldOK'
    BY <1>11, <2>1, CloseType DEF hangup_close, WorldOK
  <2> QED BY <2>2, <2>3
<1>12. CASE hangup_delete(t)
  <2>1. local[t].fd \in Fds
    BY <1>12 DEF hangup_delete, Goto, ThreadsOK
  <2>2. commands' \in Seq(Commands)
    BY <1>12, <2>1, PushType DEF hangup_delete, WorldOK
  <2>3. ThreadsOK' /\ Alone(t)
    BY <1>12, <2>1, GotoEffect DEF hangup_delete, Goto, Places
  <2> QED BY <1>12, <2>2, <2>3 DEF hangup_delete, WorldOK
<1>13. CASE hangup_uncount(t)
  <2>1. (usage[t] - 1) % Modulus \in 0 .. Modulus - 1
    BY FrontAssumption DEF WorldOK
  <2>2. usage' \in [Threads -> 0 .. Modulus - 1]
    BY <1>13, <2>1 DEF hangup_uncount, WorldOK
  <2> QED BY <1>13, <2>2, NextEventEffect DEF hangup_uncount, WorldOK
<1> QED
  BY <1>1, <1>2, <1>3, <1>4, <1>5, <1>6, <1>7, <1>8, <1>9, <1>10, <1>11, <1>12, <1>13 DEF handle_thread

(* A worker's step keeps the types. *)
LEMMA WorkerType ==
  ASSUME ThreadsOK, WorldOK, NEW w \in Workers, Execute(w) \/ Refuse(w) \/ refused_close(w)
  PROVE ThreadsOK' /\ WorldOK'
<1> USE DEF kernel, clients, threads, history
<1>1. CASE Execute(w)
  <2>1. commands' \in Seq(Commands)
    BY <1>1, HeadTailProperties DEF Execute, WorldOK
  <2> QED BY <1>1, <2>1 DEF Execute, WorldOK, ThreadsOK
<1>2. CASE Refuse(w)
  <2> DEFINE c == Head(commands)
  <2>1. c \in Commands /\ Tail(commands) \in Seq(Commands)
    BY <1>2, HeadTailProperties DEF Refuse, WorldOK
  <2>2. Command("delete_user", c.from, NoConn) \in Commands /\ c.from \in Fds
    BY <2>1 DEF Command, Commands
  <2>3. commands' \in Seq(Commands)
    BY <1>2, <2>1, <2>2 DEF Refuse
  <2>4. closing' \in [Workers -> Fds \cup {NoFd}]
    BY <1>2, <2>2 DEF Refuse, WorldOK
  <2> QED BY <1>2, <2>3, <2>4 DEF Refuse, WorldOK, ThreadsOK
<1>3. CASE refused_close(w)
  <2>1. closing[w] \in Fds
    BY <1>3 DEF refused_close, WorldOK
  <2>2. table' \in [Fds -> Conns \cup {NoConn}] /\ watched' \in [Threads -> SUBSET Fds] /\ backlog' \in Seq(Conns)
    BY <1>3, <2>1, CloseType DEF refused_close
  <2>3. closing' \in [Workers -> Fds \cup {NoFd}]
    BY <1>3 DEF refused_close, WorldOK
  <2> QED BY <1>3, <2>2, <2>3 DEF refused_close, WorldOK, ThreadsOK
<1> QED BY <1>1, <1>2, <1>3

(* A client's step keeps the types. *)
LEMMA ClientType ==
  ASSUME ThreadsOK, WorldOK, NEW c \in Conns, connectToHost(c) \/ ClientSend(c) \/ ClientLeave(c)
  PROVE ThreadsOK' /\ WorldOK'
<1> USE DEF kernel, clients, threads, history
<1>1. CASE connectToHost(c)
  <2>1. backlog' \in Seq(Conns)
    BY <1>1 DEF connectToHost, WorldOK
  <2> QED BY <1>1, <2>1 DEF connectToHost, WorldOK, ThreadsOK
<1>2. CASE ClientSend(c)
  <2> DEFINE new == <<2 * sent[c] + 1, 2 * sent[c] + 2>>
  <2>1. new \in Seq(Halves)
    BY DEF WorldOK, Halves
  <2> HIDE DEF new
  <2>2. stream[c] \o new \in Seq(Halves)
    BY <2>1, ConcatProperties DEF WorldOK
  <2>3. stream' \in [Conns -> Seq(Halves)]
    BY <1>2, <2>2 DEF ClientSend, WorldOK, new
  <2>4. sent' \in [Conns -> Nat]
    BY <1>2 DEF ClientSend, WorldOK
  <2> QED BY <1>2, <2>3, <2>4 DEF ClientSend, WorldOK, ThreadsOK
<1>3. CASE ClientLeave(c)
  BY <1>3 DEF ClientLeave, WorldOK, ThreadsOK
<1> QED BY <1>1, <1>2, <1>3

(* An idle step. *)
LEMMA StutterType == ThreadsOK /\ WorldOK /\ UNCHANGED vars => ThreadsOK' /\ WorldOK'
BY DEF vars, ThreadsOK, WorldOK

(* Every step keeps the types. *)
LEMMA StepType == TypeOK /\ [Next]_vars => TypeOK'
<1> SUFFICES ASSUME TypeOK, [Next]_vars PROVE ThreadsOK' /\ WorldOK'
  BY TypeParts, PTL
<1>1. ThreadsOK /\ WorldOK
  BY TypeParts
<1>2. CASE \E t \in Threads : handle_thread(t)
  BY <1>1, <1>2, ThreadType
<1>3. CASE \E w \in Workers : Execute(w) \/ Refuse(w) \/ refused_close(w)
  BY <1>1, <1>3, WorkerType
<1>4. CASE \E c \in Conns : connectToHost(c) \/ ClientSend(c) \/ ClientLeave(c)
  BY <1>1, <1>4, ClientType
<1>5. CASE UNCHANGED vars
  BY <1>1, <1>5, StutterType
<1> QED
  BY <1>2, <1>3, <1>4, <1>5 DEF Next

(* Every variable of the front end keeps its type; a usage stays a number  *)
(* of its width although it is decremented from zero.                      *)
THEOREM TypeCorrect == Spec => []TypeOK
BY InitType, StepType, PTL DEF Spec
--------------------------------------------------------------------------------
(* Which thread reads which descriptor.  WatchedOnce alone is not          *)
(* inductive: EPOLL_CTL_ADD keeps it because only one thread accepts, and  *)
(* because a number comes out of every set when it is closed, so that a    *)
(* number the kernel hands out is in none.                                 *)
Adding(t) == pc[t] \in {"choose", "add"}

Accepting(t) == \/ MainSocket \in events[t] \/ (pc[t] = "event" /\ local[t].fd = MainSocket)
                \/ Adding(t) \/ pc[t] \in {"count", "announce"}

OneAcceptor == \A t \in Threads : Accepting(t) => t = 0
WatchedIsOpen == \A t \in Threads : \A fd \in watched[t] : table[fd] # NoConn
NotYetWatched == \A t, u \in Threads : Adding(t) => local[t].fd \notin watched[u]
WatchedByOne == \A t, u \in Threads : \A fd \in watched[t] \cap watched[u] : t = u
WatchedOrAdded ==
  \A fd \in Fds : table[fd] \notin dropped \cup {NoConn} =>
    (\E t \in Threads : fd \in watched[t]) \/ (\E t \in Threads : Adding(t) /\ local[t].fd = fd)

Watching == OneAcceptor /\ WatchedIsOpen /\ NotYetWatched /\ WatchedByOne /\ WatchedOrAdded

(* At the start nothing is watched. *)
LEMMA InitWatching == Init => Watching
BY FrontAssumption DEF Init, Watching, OneAcceptor, Accepting, Adding, WatchedIsOpen, NotYetWatched,
   WatchedByOne, WatchedOrAdded

(* A step that neither starts nor ends an addition. *)
LEMMA QuietWatching ==
  ASSUME TypeOK, Watching, NEW t \in Threads, Alone(t), UNCHANGED <<table, watched, dropped>>,
         ~Adding(t), ~Adding(t)', Accepting(t)' => t = 0
  PROVE Watching'
<1>1. \A u \in Threads \ {t} : (Accepting(u)' <=> Accepting(u)) /\ (Adding(u)' <=> Adding(u))
  BY DEF Accepting, Adding, Alone
<1>2. OneAcceptor'
  BY <1>1 DEF Watching, OneAcceptor
<1>3. NotYetWatched'
  BY <1>1 DEF Watching, NotYetWatched, Alone
<1>4. WatchedOrAdded'
  BY <1>1 DEF Watching, WatchedOrAdded, Alone
<1> QED
  BY <1>2, <1>3, <1>4 DEF Watching, WatchedIsOpen, WatchedByOne

(* The end of a loop body that does not end an addition. *)
LEMMA NextEventWatching ==
  ASSUME TypeOK, Watching, NEW t \in Threads, NextEvent(t), ~Adding(t),
         UNCHANGED <<table, watched, dropped>>
  PROVE Watching'
<1>1. /\ Alone(t) /\ events'[t] \subseteq events[t] /\ pc'[t] \in {"wait", "event"}
      /\ pc'[t] = "event" => local'[t].fd \in events[t]
  BY TypeParts, NextEventEffect
<1>2. ~Adding(t)' /\ (Accepting(t)' => t = 0)
  BY <1>1 DEF Accepting, Adding, Watching, OneAcceptor
<1> QED
  BY <1>1, <1>2, QuietWatching

(* A closed descriptor is in no set. *)
LEMMA CloseWatching ==
  ASSUME TypeOK, Watching, NEW fd \in Fds, Close(fd), UNCHANGED dropped,
         \A t \in Threads : Accepting(t)' => Accepting(t),
         \A t \in Threads : (Adding(t)' <=> Adding(t)) /\ (Adding(t) => local'[t] = local[t])
  PROVE Watching'
<1>1. /\ table'[fd] = NoConn /\ \A g \in Fds \ {fd} : table'[g] = table[g]
      /\ \A t \in Threads : watched'[t] = watched[t] \ {fd} /\ watched[t] \subseteq Fds
  BY DEF Close, TypeOK
<1>2. OneAcceptor' /\ NotYetWatched' /\ WatchedIsOpen' /\ WatchedByOne'
  BY <1>1 DEF Watching, OneAcceptor, NotYetWatched, WatchedIsOpen, WatchedByOne
<1>3. WatchedOrAdded'
  <2> SUFFICES ASSUME NEW g \in Fds, table'[g] \notin dropped \cup {NoConn}
               PROVE \/ \E t \in Threads : g \in watched'[t]
                     \/ \E t \in Threads : Adding(t)' /\ local'[t].fd = g
    BY DEF WatchedOrAdded
  <2>1. g # fd /\ table'[g] = table[g]
    BY <1>1
  <2>2. CASE \E t \in Threads : g \in watched[t]
    BY <1>1, <2>1, <2>2
  <2>3. CASE \E t \in Threads : Adding(t) /\ local[t].fd = g
    BY <2>3
  <2> QED
    BY <2>1, <2>2, <2>3 DEF Watching, WatchedOrAdded
<1> QED
  BY <1>2, <1>3 DEF Watching

(* accept() returns a number that is in no set. *)
LEMMA AcceptWatching ==
  ASSUME TypeOK, Watching, NEW t \in Threads, accept(t)
  PROVE Watching'
<1> DEFINE free == {fd \in Fds : table[fd] = NoConn}
<1>1. pc[t] = "event" /\ local[t].fd = MainSocket /\ dropped' = dropped
  BY DEF accept
<1>2. CASE NextEvent(t) /\ UNCHANGED <<kernel, stale>>
  BY <1>1, <1>2, NextEventWatching DEF kernel, Adding
<1>3. CASE /\ free # {}
           /\ table' = [table EXCEPT ![Min(free)] = Head(backlog)] /\ backlog' = Tail(backlog)
           /\ pc' = [pc EXCEPT ![t] = "choose"]
           /\ local' = [local EXCEPT ![t].fd = Min(free)]
           /\ UNCHANGED <<watched, events>>
  <2> DEFINE fd == Min(free)
  <2>1. fd \in Fds /\ table[fd] = NoConn
    <3>1. free \in SUBSET Fds
      OBVIOUS
    <3>2. fd \in free
      <4> HIDE DEF free
      <4> QED BY <1>3, <3>1, LowestFree
    <3> HIDE DEF fd
    <3> QED BY <3>2
  <2>2. /\ table' = [table EXCEPT ![fd] = Head(backlog)]
        /\ local' = [local EXCEPT ![t].fd = fd]
    BY <1>3
  <2> HIDE DEF fd, free
  <2>3. Head(backlog) \in Conns
    BY HeadTailProperties DEF accept, TypeOK
  <2>4. /\ table'[fd] # NoConn /\ \A g \in Fds \ {fd} : table'[g] = table[g]
        /\ local'[t].fd = fd /\ \A u \in Threads \ {t} : local'[u] = local[u] /\ pc'[u] = pc[u]
        /\ pc'[t] = "choose" /\ watched' = watched /\ events' = events
    <3>1. table'[fd] = Head(backlog) /\ \A g \in Fds \ {fd} : table'[g] = table[g]
      BY <2>1, <2>2 DEF TypeOK
    <3>2. local'[t].fd = fd /\ \A u \in Threads \ {t} : local'[u] = local[u]
      BY <2>2 DEF TypeOK
    <3>3. pc'[t] = "choose" /\ \A u \in Threads \ {t} : pc'[u] = pc[u]
      BY <1>3 DEF TypeOK
    <3> QED BY <1>3, <2>3, <3>1, <3>2, <3>3, FrontAssumption
  <2>5. t = 0
    BY <1>1 DEF Watching, OneAcceptor, Accepting
  <2>6. OneAcceptor'
    BY <2>4, <2>5 DEF Watching, OneAcceptor, Accepting, Adding
  <2>7. WatchedIsOpen'
    BY <2>4, <2>1 DEF Watching, WatchedIsOpen, TypeOK
  <2>8. NotYetWatched'
    BY <2>4, <2>1 DEF Watching, WatchedIsOpen, NotYetWatched, Adding
  <2>9. WatchedOrAdded'
    <3> SUFFICES ASSUME NEW g \in Fds, table'[g] \notin dropped \cup {NoConn}, g # fd
                 PROVE \/ \E u \in Threads : g \in watched[u]
                       \/ \E u \in Threads : Adding(u)' /\ local'[u].fd = g
      BY <1>1, <2>4 DEF WatchedOrAdded, Adding
    <3>1. CASE \E u \in Threads : g \in watched[u]
      BY <3>1
    <3>2. CASE \E u \in Threads : Adding(u) /\ local[u].fd = g
      BY <1>1, <2>4, <3>2 DEF Adding
    <3> QED BY <2>4, <3>1, <3>2 DEF Watching, WatchedOrAdded
  <2> QED
    BY <2>4, <2>6, <2>7, <2>8, <2>9 DEF Watching, WatchedByOne
<1> QED
  BY <1>2, <1>3 DEF accept

(* EPOLL_CTL_ADD makes the chosen thread the only watcher, or drops the    *)
(* connection.                                                             *)
LEMMA AddWatching ==
  ASSUME TypeOK, Watching, NEW t \in Threads, epoll_ctl_add(t)
  PROVE Watching'
<1> DEFINE fd == local[t].fd
           v == local[t].chosen
<1>1. /\ pc[t] = "add" /\ Adding(t) /\ fd \in Fds /\ v \in Threads /\ t = 0
      /\ table' = table
  BY DEF epoll_ctl_add, Adding, TypeOK, Watching, OneAcceptor, Accepting
<1>2. \A u \in Threads : fd \notin watched[u]
  BY <1>1 DEF Watching, NotYetWatched
<1>3. CASE /\ table[fd] # NoConn
           /\ watched' = [watched EXCEPT ![v] = @ \cup {fd}]
           /\ Goto(t, "add", "count") /\ UNCHANGED <<events, local, dropped>>
  <2>1. /\ watched'[v] = watched[v] \cup {fd} /\ \A u \in Threads \ {v} : watched'[u] = watched[u]
        /\ pc'[t] = "count" /\ \A u \in Threads \ {t} : pc'[u] = pc[u]
    BY <1>1, <1>3 DEF Goto, TypeOK
  <2>2. OneAcceptor'
    BY <1>1, <1>3, <2>1 DEF Watching, OneAcceptor, Accepting, Adding
  <2>3. \A u \in Threads : ~Adding(u)'
    BY <1>1, <2>1, <2>2 DEF OneAcceptor, Accepting, Adding
  <2>4. \A g \in Fds \ {fd} : ~\E u \in Threads : Adding(u) /\ local[u].fd = g
    BY <1>1 DEF Watching, OneAcceptor, Accepting
  <2>5. table[fd] # NoConn /\ dropped' = dropped /\ local' = local
    BY <1>3
  <2> HIDE DEF fd, v
  <2>6. WatchedIsOpen'
    BY <1>1, <2>1, <2>5 DEF Watching, WatchedIsOpen
  <2>7. WatchedByOne'
    BY <1>1, <1>2, <2>1 DEF Watching, WatchedByOne
  <2>8. WatchedOrAdded'
    BY <1>1, <2>1, <2>4, <2>5 DEF Watching, WatchedOrAdded
  <2> QED
    BY <2>2, <2>3, <2>6, <2>7, <2>8 DEF Watching, NotYetWatched
<1>4. CASE /\ dropped' = dropped \cup ({table[fd]} \ {NoConn})
           /\ NextEvent(t) /\ UNCHANGED watched
  <2>1. /\ Alone(t) /\ events'[t] \subseteq events[t] /\ pc'[t] \in {"wait", "event"}
    BY <1>4, TypeParts, NextEventEffect
  <2>2. OneAcceptor'
    BY <1>1, <2>1 DEF Watching, OneAcceptor, Accepting, Adding, Alone
  <2>3. \A u \in Threads : ~Adding(u)'
    BY <1>1, <2>1, <2>2 DEF OneAcceptor, Accepting, Adding
  <2>4. \A g \in Fds \ {fd} : ~\E u \in Threads : Adding(u) /\ local[u].fd = g
    BY <1>1 DEF Watching, OneAcceptor, Accepting
  <2>5. WatchedOrAdded'
    BY <1>1, <1>4, <2>4 DEF Watching, WatchedOrAdded
  <2> QED
    BY <1>1, <1>4, <2>2, <2>3, <2>5 DEF Watching, NotYetWatched, WatchedIsOpen, WatchedByOne
<1> QED
  BY <1>3, <1>4 DEF epoll_ctl_add

(* Every step of an epoll thread. *)
LEMMA ThreadWatching ==
  ASSUME TypeOK, Watching, NEW t \in Threads, handle_thread(t)
  PROVE Watching'
<1>0. Alone(t)
  BY ThreadType, TypeParts
<1>1. CASE epoll_wait(t)
  <2>1. Ready(t) \in Events /\ (MainSocket \in Ready(t) => t = 0)
    BY FrontAssumption DEF Ready, Events, TypeOK
  <2>2. events'[t] \subseteq Ready(t) /\ pc'[t] = "event" /\ local'[t].fd \in Ready(t)
    BY <1>1, <2>1, TakeEffect, TypeParts DEF epoll_wait
  <2>3. ~Adding(t) /\ ~Adding(t)' /\ (Accepting(t)' => t = 0)
    BY <1>1, <2>1, <2>2 DEF epoll_wait, Adding, Accepting
  <2> QED BY <1>0, <1>1, <2>3, QuietWatching DEF epoll_wait, kernel, history
<1>2. CASE accept(t)
  BY <1>2, AcceptWatching
<1>3. CASE get_minimal_use_thread_number(t)
  <2>1. pc[t] = "choose" /\ pc'[t] \in {"choose", "add"} /\ local'[t].fd = local[t].fd /\ Adding(t) /\ Adding(t)'
    BY <1>3, SearchEffect, TypeParts DEF Adding
  <2>2. UNCHANGED <<table, watched, dropped, events>>
    BY <1>3 DEF get_minimal_use_thread_number, kernel, history
  <2>3. \A u \in Threads : /\ local'[u].fd = local[u].fd /\ (Adding(u)' <=> Adding(u))
                           /\ Accepting(u)' => Accepting(u)
    BY <1>0, <2>1, <2>2 DEF Alone, Adding, Accepting
  <2> QED
    BY <2>2, <2>3 DEF Watching, OneAcceptor, NotYetWatched, WatchedIsOpen, WatchedByOne, WatchedOrAdded
<1>4. CASE epoll_ctl_add(t)
  BY <1>4, AddWatching
<1>5. CASE count(t)
  <2>1. pc[t] = "count" /\ pc'[t] = "announce" /\ UNCHANGED <<table, watched, dropped>>
    BY <1>5 DEF count, Goto, TypeOK, kernel, history
  <2>2. ~Adding(t) /\ ~Adding(t)' /\ (Accepting(t)' => t = 0)
    BY <2>1 DEF Adding, Accepting, Watching, OneAcceptor
  <2> QED BY <1>0, <2>1, <2>2, QuietWatching
<1>6. CASE announce(t) \/ push(t) \/ hangup_uncount(t)
  BY <1>6, NextEventWatching DEF announce, push, hangup_uncount, kernel, history, Adding
<1>7. CASE recv_block(t)
  <2>1. pc[t] = "event" /\ pc'[t] = "blocked" /\ UNCHANGED <<table, watched, dropped, events>>
    BY <1>7 DEF recv_block, Goto, TypeOK, kernel, history
  <2>2. ~Adding(t) /\ ~Adding(t)' /\ (Accepting(t)' => t = 0)
    BY <2>1 DEF Adding, Accepting, Watching, OneAcceptor
  <2> QED BY <1>0, <2>1, <2>2, QuietWatching
<1>8. CASE recv_command(t)
  <2>1. ~Adding(t) /\ UNCHANGED <<table, watched, dropped>>
    BY <1>8 DEF recv_command, Receiving, Adding, kernel
  <2>2. CASE NextEvent(t)
    BY <2>1, <2>2, NextEventWatching
  <2>3. CASE pc' = [pc EXCEPT ![t] = "push"] /\ UNCHANGED events
    <3>1. ~Adding(t)' /\ (Accepting(t)' => t = 0)
      BY <2>3 DEF Adding, Accepting, Watching, OneAcceptor, TypeOK
    <3> QED BY <1>0, <2>1, <3>1, QuietWatching
  <2> QED BY <1>8, <2>2, <2>3 DEF recv_command
<1>9. CASE recv_nothing(t)
  <2>1. ~Adding(t) /\ UNCHANGED <<table, watched, dropped, events>> /\ pc'[t] = "close"
    BY <1>9 DEF recv_nothing, Receiving, Adding, kernel, history, TypeOK
  <2>2. ~Adding(t)' /\ (Accepting(t)' => t = 0)
    BY <2>1 DEF Adding, Accepting, Watching, OneAcceptor
  <2> QED BY <1>0, <2>1, <2>2, QuietWatching
<1>10. CASE hangup_close(t)
  <2>1. /\ pc[t] = "close" /\ pc'[t] = "delete" /\ local[t].fd \in Fds /\ Close(local[t].fd)
        /\ UNCHANGED <<dropped, events, local>>
    BY <1>10 DEF hangup_close, Goto, TypeOK
  <2>2. \A u \in Threads : (Accepting(u)' => Accepting(u)) /\ (Adding(u)' <=> Adding(u))
    BY <1>0, <2>1 DEF Accepting, Adding, Alone
  <2> QED BY <2>1, <2>2, CloseWatching
<1>11. CASE hangup_delete(t)
  <2>1. pc[t] = "delete" /\ pc'[t] = "uncount" /\ UNCHANGED <<table, watched, dropped, events>>
    BY <1>11 DEF hangup_delete, Goto, TypeOK, kernel, history
  <2>2. ~Adding(t) /\ ~Adding(t)' /\ (Accepting(t)' => t = 0)
    BY <2>1 DEF Adding, Accepting, Watching, OneAcceptor
  <2> QED BY <1>0, <2>1, <2>2, QuietWatching
<1> QED
  BY <1>1, <1>2, <1>3, <1>4, <1>5, <1>6, <1>7, <1>8, <1>9, <1>10, <1>11 DEF handle_thread

(* Everybody else leaves the threads alone. *)
LEMMA StepWatching == ASSUME TypeOK, Watching, [Next]_vars PROVE Watching'
<1> USE DEF kernel, clients, threads, history
<1>1. CASE \E t \in Threads : handle_thread(t)
  BY <1>1, ThreadWatching
<1>2. ASSUME UNCHANGED <<table, watched, dropped, events, pc, local>> PROVE Watching'
  BY <1>2 DEF Watching, OneAcceptor, NotYetWatched, WatchedIsOpen, WatchedByOne, WatchedOrAdded,
     Accepting, Adding
<1>3. ASSUME NEW w \in Workers, Execute(w) \/ Refuse(w) \/ refused_close(w) PROVE Watching'
  <2>1. CASE Execute(w) \/ Refuse(w)
    BY <1>2, <2>1 DEF Execute, Refuse
  <2>2. CASE refused_close(w)
    <3>1. closing[w] \in Fds /\ Close(closing[w]) /\ UNCHANGED <<dropped, events, pc, local>>
      BY <2>2 DEF refused_close, TypeOK
    <3>2. \A t \in Threads : (Accepting(t)' => Accepting(t)) /\ (Adding(t)' <=> Adding(t))
      BY <3>1 DEF Accepting, Adding
    <3> QED BY <3>1, <3>2, CloseWatching
  <2> QED BY <1>3, <2>1, <2>2
<1>4. ASSUME NEW c \in Conns, connectToHost(c) \/ ClientSend(c) \/ ClientLeave(c) PROVE Watching'
  BY <1>2, <1>4 DEF connectToHost, ClientSend, ClientLeave
<1>5. CASE UNCHANGED vars
  BY <1>2, <1>5 DEF vars
<1> QED
  BY <1>1, <1>3, <1>4, <1>5 DEF Next

(* Exactly one thread means one at least, and not two. *)
LEMMA WatchingOnce == ASSUME TypeOK, Watching PROVE WatchedOnce
<1> SUFFICES ASSUME NEW fd \in Fds, table[fd] # NoConn, table[fd] \notin dropped
             PROVE \/ Cardinality({t \in Threads : fd \in watched[t]}) = 1
                   \/ /\ {t \in Threads : fd \in watched[t]} = {}
                      /\ \E t \in Threads : pc[t] \in {"choose", "add"} /\ local[t].fd = fd
  BY DEF WatchedOnce
<1>1. CASE \E t \in Threads : fd \in watched[t]
  <2>1. PICK t \in Threads : fd \in watched[t]
    BY <1>1
  <2>2. {u \in Threads : fd \in watched[u]} = {t}
    BY <2>1 DEF Watching, WatchedByOne
  <2> QED BY <2>2, FS_Singleton
<1>2. CASE \E t \in Threads : Adding(t) /\ local[t].fd = fd
  <2>1. {u \in Threads : fd \in watched[u]} = {}
    BY <1>2 DEF Watching, NotYetWatched
  <2> QED BY <1>2, <2>1 DEF Adding
<1> QED
  BY <1>1, <1>2 DEF Watching, WatchedOrAdded

(* Every open connection that could be added to an epoll set is read by    *)
(* exactly one thread, or is about to be added by the acceptor.            *)
THEOREM ReadByOneThread == Spec => []WatchedOnce
<1>1. Init => TypeOK /\ Watching
  BY InitType, InitWatching
<1>2. TypeOK /\ Watching /\ [Next]_vars => TypeOK' /\ Watching'
  BY StepType, StepWatching
<1>3. TypeOK /\ Watching => WatchedOnce
  BY WatchingOnce
<1> QED
  BY <1>1, <1>2, <1>3, PTL DEF Spec
--------------------------------------------------------------------------------
(* What usage stands for.  One thread accepts, so at most one increment is *)
(* under way; the decrements wrap, and are undone modulo the width.        *)
Base(t) == IF t = 0 THEN AcceptorLoad ELSE 0
Uncounted(t) == IF pc[0] = "count" /\ local[0].chosen = t THEN 1 ELSE 0
Hangup(t) == IF pc[t] \in {"delete", "uncount"} THEN 1 ELSE 0
Expected(t) == Base(t) + Cardinality(watched[t]) + drift[t] + Hangup(t) - Uncounted(t)

Load(t) == usage[t] = Expected(t) % Modulus

Accounted == drift \in [Threads -> Int] /\ \A t \in Threads : Load(t)

(* An epoll set is finite. *)
LEMMA SetSize ==
  ASSUME TypeOK, NEW t \in Threads
  PROVE IsFiniteSet(watched[t]) /\ Cardinality(watched[t]) \in Nat
BY FrontAssumption, FS_Subset, FS_CardinalityType DEF TypeOK

(* What a usage should be is a number. *)
LEMMA ExpectedType ==
  ASSUME TypeOK, drift \in [Threads -> Int], NEW t \in Threads
  PROVE Expected(t) \in Int
BY SetSize, FrontAssumption DEF Expected, Base, Hangup, Uncounted

(* The sum with one acceptor is the sum of the property. *)
LEMMA AccountedMeans ==
  ASSUME TypeOK, Watching, Accounted
  PROVE LoadIsAccounted
<1> SUFFICES ASSUME NEW t \in Threads
             PROVE Cardinality({u \in Threads : pc[u] = "count" /\ local[u].chosen = t}) = Uncounted(t)
  BY DEF Accounted, Load, Expected, Base, Hangup, LoadIsAccounted
<1>1. \A u \in Threads : pc[u] = "count" => u = 0
  BY DEF Watching, OneAcceptor, Accepting
<1>2. CASE pc[0] = "count" /\ local[0].chosen = t
  <2>1. {u \in Threads : pc[u] = "count" /\ local[u].chosen = t} = {0}
    BY <1>1, <1>2, FrontAssumption
  <2> QED BY <1>2, <2>1, FS_Singleton DEF Uncounted
<1>3. CASE ~(pc[0] = "count" /\ local[0].chosen = t)
  <2>1. {u \in Threads : pc[u] = "count" /\ local[u].chosen = t} = {}
    BY <1>1, <1>3
  <2> QED BY <1>3, <2>1, FS_EmptySet DEF Uncounted
<1> QED BY <1>2, <1>3

(* At the start only the acceptor's load counts. *)
LEMMA InitAccounted == Init => Accounted
<1> SUFFICES ASSUME Init, NEW t \in Threads PROVE Load(t)
  BY DEF Init, Accounted
<1>1. Expected(t) = Base(t) + 0 + 0 + 0 - 0
  BY FS_EmptySet, FrontAssumption DEF Init, Expected, Hangup, Uncounted
<1>2. Base(t) \in 0 .. Modulus - 1 /\ usage[t] = Base(t)
  BY FrontAssumption DEF Init, Base
<1> QED
  BY <1>1, <1>2, FrontAssumption DEF Load, Base

(* A step that changes neither a usage nor what it stands for. *)
LEMMA SameAccounted ==
  ASSUME Accounted, drift' \in [Threads -> Int], UNCHANGED usage,
         \A t \in Threads : Expected(t)' = Expected(t)
  PROVE Accounted'
BY DEF Accounted, Load

(* A thread's step that touches no counter and no set. *)
LEMMA QuietAccounted ==
  ASSUME TypeOK, Watching, Accounted, NEW t \in Threads, Alone(t), UNCHANGED <<usage, watched, drift>>,
         pc[t] # "count", pc'[t] # "count", Hangup(t)' = Hangup(t)
  PROVE Accounted'
<1>1. \A u \in Threads : Hangup(u)' = Hangup(u) /\ Uncounted(u)' = Uncounted(u)
  BY FrontAssumption DEF Hangup, Uncounted, Alone
<1>2. \A u \in Threads : Expected(u)' = Expected(u)
  BY <1>1 DEF Expected, Base
<1> QED
  BY <1>2, SameAccounted DEF Accounted

(* The end of a loop body that does not follow a close. *)
LEMMA NextEventAccounted ==
  ASSUME TypeOK, Watching, Accounted, NEW t \in Threads, NextEvent(t), UNCHANGED <<usage, watched, drift>>,
         pc[t] \notin {"count", "delete", "uncount"}
  PROVE Accounted'
<1>1. Alone(t) /\ pc'[t] \in {"wait", "event"}
  BY TypeParts, NextEventEffect
<1>2. Hangup(t)' = Hangup(t) /\ pc'[t] # "count"
  BY <1>1 DEF Hangup
<1> QED
  BY <1>1, <1>2, QuietAccounted

(* A close that a set loses and the drift notes. *)
LEMMA CloseAccounted ==
  ASSUME TypeOK, Watching, Accounted, NEW fd \in Fds, NEW closer, Close(fd), UNCHANGED usage,
         drift' = [t \in Threads |-> Drift(t, fd, closer)],
         \A t \in Threads : /\ Uncounted(t)' = Uncounted(t)
                            /\ Hangup(t)' = Hangup(t) + (IF closer = t THEN 1 ELSE 0)
  PROVE Accounted'
<1>1. drift \in [Threads -> Int]
  BY DEF Accounted
<1>2. drift' \in [Threads -> Int]
  BY <1>1 DEF Drift
<1>3. ASSUME NEW t \in Threads PROVE Expected(t)' = Expected(t)
  <2> DEFINE in == IF fd \in watched[t] THEN 1 ELSE 0
             own == IF closer = t THEN 1 ELSE 0
             size == Cardinality(watched[t])
             size2 == Cardinality(watched[t])'
  <2>1. watched'[t] = watched[t] \ {fd}
    BY DEF Close
  <2>2. size2 = size - in
    <3>1. IsFiniteSet(watched[t]) /\ size \in Int
      BY SetSize
    <3>2. size2 = IF fd \in watched[t] THEN size - 1 ELSE size
      BY <2>1, <3>1, FS_RemoveElement
    <3> HIDE DEF size, size2
    <3> QED BY <3>1, <3>2
  <2>3. drift'[t] = drift[t] + in - own
    BY DEF Drift
  <2>4. Hangup(t)' = Hangup(t) + own /\ Uncounted(t)' = Uncounted(t) /\ Base(t)' = Base(t)
    BY DEF Base
  <2>5. /\ in \in Int /\ own \in Int /\ size \in Int /\ drift[t] \in Int /\ Base(t) \in Int
        /\ Hangup(t) \in Int /\ Uncounted(t) \in Int
    BY <1>1, SetSize, FrontAssumption DEF Base, Hangup, Uncounted
  <2> HIDE DEF in, own
  <2> QED
    BY <2>2, <2>3, <2>4, <2>5 DEF Expected
<1> QED
  BY <1>2, <1>3, SameAccounted

(* The four steps of the threads that change both sides. *)
LEMMA AddAccounted ==
  ASSUME TypeOK, Watching, Accounted, NEW t \in Threads, epoll_ctl_add(t)
  PROVE Accounted'
<1>1. pc[t] = "add" /\ t = 0 /\ UNCHANGED <<usage, drift>> /\ local[t].fd \in Fds /\ local[t].chosen \in Threads
  BY DEF epoll_ctl_add, Watching, OneAcceptor, Accepting, Adding, TypeOK
<1>2. CASE NextEvent(t) /\ UNCHANGED watched
  BY <1>1, <1>2, NextEventAccounted
<1>3. CASE /\ watched' = [watched EXCEPT ![local[t].chosen] = @ \cup {local[t].fd}]
           /\ Goto(t, "add", "count") /\ UNCHANGED <<events, local, dropped>>
  <2>1. pc' = [pc EXCEPT ![0] = "count"] /\ local' = local
    BY <1>1, <1>3 DEF Goto
  <2>2. ASSUME NEW u \in Threads PROVE Expected(u)' = Expected(u)
    <3> DEFINE one == IF u = local[t].chosen THEN 1 ELSE 0
               size == Cardinality(watched[u])
               size2 == Cardinality(watched[u])'
    <3>1. local[t].fd \notin watched[u]
      BY <1>1 DEF Watching, NotYetWatched, Adding
    <3>2. size2 = size + one
      <4>1. CASE u = local[t].chosen
        <5>1. watched'[u] = watched[u] \cup {local[t].fd}
          BY <1>3, <4>1 DEF TypeOK
        <5> QED BY <3>1, <4>1, <5>1, SetSize, FS_AddElement
      <4>2. CASE u # local[t].chosen
        <5>1. watched'[u] = watched[u]
          BY <1>3, <4>2 DEF TypeOK
        <5> QED BY <4>2, <5>1, SetSize
      <4> QED BY <4>1, <4>2
    <3>3. Uncounted(u) = 0 /\ Uncounted(u)' = one
      BY <1>1, <2>1, FrontAssumption DEF Uncounted, TypeOK
    <3>4. Hangup(u)' = Hangup(u) /\ Base(u)' = Base(u) /\ drift'[u] = drift[u]
      BY <1>1, <2>1 DEF Hangup, Base, TypeOK
    <3>5. /\ one \in Int /\ size \in Int /\ drift[u] \in Int /\ Base(u) \in Int /\ Hangup(u) \in Int
      BY SetSize, FrontAssumption DEF Base, Hangup, Accounted
    <3> HIDE DEF one
    <3> QED BY <3>2, <3>3, <3>4, <3>5 DEF Expected
  <2> QED BY <1>1, <2>2, SameAccounted DEF Accounted
<1> QED BY <1>2, <1>3 DEF epoll_ctl_add

(* usage++ of the chosen thread ends the acceptor's increment. *)
LEMMA CountAccounted ==
  ASSUME TypeOK, Watching, Accounted, NEW t \in Threads, count(t)
  PROVE Accounted'
<1>1. /\ pc[t] = "count" /\ t = 0 /\ local[t].chosen \in Threads
      /\ pc' = [pc EXCEPT ![0] = "announce"] /\ UNCHANGED <<local, watched, drift>>
      /\ usage' = [usage EXCEPT ![local[t].chosen] = (@ + 1) % Modulus]
  BY DEF count, Goto, kernel, history, Watching, OneAcceptor, Accepting, TypeOK
<1>2. ASSUME NEW u \in Threads PROVE Load(u)'
  <2> DEFINE one == IF u = local[t].chosen THEN 1 ELSE 0
  <2>1. Uncounted(u) = one /\ Uncounted(u)' = 0
    BY <1>1, FrontAssumption DEF Uncounted, TypeOK
  <2>2. Hangup(u)' = Hangup(u) /\ Base(u)' = Base(u) /\ drift'[u] = drift[u]
    BY <1>1 DEF Hangup, Base, TypeOK
  <2>3. Expected(u) \in Int /\ one \in Int
    BY ExpectedType DEF Accounted
  <2>4. Expected(u)' = Expected(u) + one
    <3>1. Cardinality(watched[u]) \in Int /\ drift[u] \in Int /\ Base(u) \in Int /\ Hangup(u) \in Int
      BY SetSize, FrontAssumption DEF Base, Hangup, Accounted
    <3> HIDE DEF one
    <3> QED BY <1>1, <2>1, <2>2, <2>3, <3>1 DEF Expected
  <2>5. usage[u] = Expected(u) % Modulus
    BY DEF Accounted, Load
  <2>6. CASE u = local[t].chosen
    <3>1. usage'[u] = ((Expected(u) % Modulus) + 1) % Modulus
      BY <1>1, <2>5, <2>6 DEF TypeOK
    <3>2. usage'[u] = (Expected(u) + 1) % Modulus
      BY <2>3, <3>1, ModStep, FrontAssumption
    <3> QED BY <2>4, <2>6, <3>2 DEF Load
  <2>7. CASE u # local[t].chosen
    <3>1. usage'[u] = usage[u] /\ Expected(u)' = Expected(u)
      BY <1>1, <2>3, <2>4, <2>7 DEF TypeOK
    <3> QED BY <2>5, <3>1 DEF Load
  <2> QED BY <2>6, <2>7
<1> QED BY <1>1, <1>2 DEF Accounted

(* usage-- ends the thread's hang-up, below zero if need be. *)
LEMMA UncountAccounted ==
  ASSUME TypeOK, Watching, Accounted, NEW t \in Threads, hangup_uncount(t)
  PROVE Accounted'
<1>1. /\ pc[t] = "uncount" /\ Alone(t) /\ pc'[t] \in {"wait", "event"} /\ UNCHANGED <<watched, drift>>
      /\ usage' = [usage EXCEPT ![t] = (@ - 1) % Modulus]
  BY NextEventEffect, TypeParts DEF hangup_uncount, kernel, history
<1>2. ASSUME NEW u \in Threads PROVE Load(u)'
  <2> DEFINE one == IF u = t THEN 1 ELSE 0
  <2>1. Uncounted(u)' = Uncounted(u)
    BY <1>1, FrontAssumption DEF Uncounted, Alone
  <2>2. Hangup(u)' = Hangup(u) - one /\ Base(u)' = Base(u) /\ drift'[u] = drift[u]
    BY <1>1 DEF Hangup, Base, Alone
  <2>3. Expected(u) \in Int /\ one \in Int
    BY ExpectedType DEF Accounted
  <2>4. Expected(u)' = Expected(u) - one
    <3>1. /\ Cardinality(watched[u]) \in Int /\ drift[u] \in Int /\ Base(u) \in Int /\ Hangup(u) \in Int
          /\ Uncounted(u) \in Int
      <4>1. Base(u) \in Int
        BY FrontAssumption DEF Base
      <4>2. Hangup(u) \in Int /\ Uncounted(u) \in Int
        BY DEF Hangup, Uncounted
      <4> QED BY <4>1, <4>2, SetSize DEF Accounted
    <3> HIDE DEF one
    <3> QED BY <1>1, <2>1, <2>2, <2>3, <3>1 DEF Expected
  <2>5. usage[u] = Expected(u) % Modulus
    BY DEF Accounted, Load
  <2>6. CASE u = t
    <3>1. usage'[u] = ((Expected(u) % Modulus) - 1) % Modulus
      BY <1>1, <2>5, <2>6 DEF TypeOK
    <3>2. usage'[u] = (Expected(u) - 1) % Modulus
      <4>1. Expected(u) % Modulus \in Int
        BY <2>3, DivMod, FrontAssumption
      <4>2. (Expected(u) % Modulus) - 1 = (Expected(u) % Modulus) + (-1) /\ Expected(u) - 1 = Expected(u) + (-1)
        BY <2>3, <4>1
      <4>3. ((Expected(u) % Modulus) + (-1)) % Modulus = (Expected(u) + (-1)) % Modulus
        BY <2>3, ModStep, FrontAssumption
      <4> QED BY <3>1, <4>2, <4>3
    <3> QED BY <2>4, <2>6, <3>2 DEF Load
  <2>7. CASE u # t
    <3>1. usage'[u] = usage[u] /\ Expected(u)' = Expected(u)
      BY <1>1, <2>3, <2>4, <2>7 DEF TypeOK
    <3> QED BY <2>5, <3>1 DEF Load
  <2> QED BY <2>6, <2>7
<1> QED BY <1>1, <1>2 DEF Accounted

(* The close of a hang-up: the set shrinks, and the decrement is due. *)
LEMMA HangupAccounted ==
  ASSUME TypeOK, Watching, Accounted, NEW t \in Threads, hangup_close(t)
  PROVE Accounted'
<1>1. /\ pc[t] = "close" /\ pc'[t] = "delete" /\ Alone(t) /\ local' = local
      /\ local[t].fd \in Fds /\ Close(local[t].fd) /\ usage' = usage
      /\ drift' = [u \in Threads |-> Drift(u, local[t].fd, t)]
  BY DEF hangup_close, Goto, TypeOK, Alone
<1>2. ASSUME NEW u \in Threads
      PROVE Uncounted(u)' = Uncounted(u) /\ Hangup(u)' = Hangup(u) + (IF t = u THEN 1 ELSE 0)
  BY <1>1, FrontAssumption DEF Uncounted, Hangup, Alone
<1> QED BY <1>1, <1>2, CloseAccounted

(* Every step of an epoll thread. *)
LEMMA ThreadAccounted ==
  ASSUME TypeOK, Watching, Accounted, NEW t \in Threads, handle_thread(t)
  PROVE Accounted'
<1>0. Alone(t)
  BY ThreadType, TypeParts
<1> USE DEF kernel, clients, history
<1>1. ASSUME UNCHANGED <<usage, watched, drift>>, pc[t] \notin {"count", "delete", "uncount"},
             pc'[t] \notin {"count", "delete", "uncount"}
      PROVE Accounted'
  <2>1. Hangup(t)' = Hangup(t)
    BY <1>1 DEF Hangup
  <2> QED BY <1>0, <1>1, <2>1, QuietAccounted
<1>2. CASE epoll_wait(t)
  <2>1. UNCHANGED <<usage, watched, drift>> /\ pc[t] = "wait" /\ pc'[t] = "event"
    BY <1>2 DEF epoll_wait, Take, TypeOK
  <2> QED BY <1>1, <2>1
<1>3. CASE accept(t)
  <2>1. UNCHANGED <<usage, watched, drift>> /\ pc[t] = "event"
    BY <1>3 DEF accept
  <2>2. CASE NextEvent(t)
    BY <2>1, <2>2, NextEventAccounted
  <2>3. CASE pc' = [pc EXCEPT ![t] = "choose"]
    <3>1. pc'[t] = "choose"
      BY <2>3 DEF TypeOK
    <3> QED BY <1>1, <2>1, <3>1
  <2> QED BY <1>3, <2>2, <2>3 DEF accept
<1>4. CASE get_minimal_use_thread_number(t) \/ recv_block(t)
  <2>1. /\ UNCHANGED <<usage, watched, drift>> /\ pc[t] \in {"choose", "event"}
        /\ pc'[t] \in {"choose", "add", "blocked"}
    <3>1. CASE get_minimal_use_thread_number(t)
      BY <3>1, SearchEffect, TypeParts DEF kernel, history
    <3>2. CASE recv_block(t)
      BY <3>2 DEF recv_block, Goto, TypeOK
    <3> QED BY <1>4, <3>1, <3>2
  <2> QED BY <1>1, <2>1
<1>5. CASE announce(t) \/ push(t)
  BY <1>5, NextEventAccounted DEF announce, push
<1>6. CASE recv_command(t)
  <2>1. UNCHANGED <<usage, watched, drift>> /\ pc[t] \in {"blocked", "event"}
    BY <1>6 DEF recv_command, Receiving
  <2>2. CASE NextEvent(t)
    BY <2>1, <2>2, NextEventAccounted
  <2>3. CASE pc' = [pc EXCEPT ![t] = "push"]
    <3>1. pc'[t] = "push"
      BY <2>3 DEF TypeOK
    <3> QED BY <1>1, <2>1, <3>1
  <2> QED BY <1>6, <2>2, <2>3 DEF recv_command
<1>7. CASE recv_nothing(t)
  <2>1. UNCHANGED <<usage, watched, drift>> /\ pc[t] \in {"blocked", "event"} /\ pc'[t] = "close"
    BY <1>7 DEF recv_nothing, Receiving, TypeOK
  <2> QED BY <1>1, <2>1
<1>8. CASE hangup_delete(t)
  <2>1. UNCHANGED <<usage, watched, drift>> /\ pc[t] = "delete" /\ pc'[t] = "uncount"
    BY <1>8 DEF hangup_delete, Goto, TypeOK
  <2>2. Hangup(t)' = Hangup(t)
    BY <2>1 DEF Hangup
  <2> QED BY <1>0, <2>1, <2>2, QuietAccounted
<1> QED
  BY <1>2, <1>3, <1>4, <1>5, <1>6, <1>7, <1>8, AddAccounted, CountAccounted, UncountAccounted,
     HangupAccounted DEF handle_thread

(* Every step; of the others only a worker's close changes a set. *)
LEMMA StepAccounted == ASSUME TypeOK, Watching, Accounted, [Next]_vars PROVE Accounted'
<1> USE DEF kernel, clients, threads, history
<1>1. CASE \E t \in Threads : handle_thread(t)
  BY <1>1, ThreadAccounted
<1>2. ASSUME UNCHANGED <<watched, pc, local, usage, drift>> PROVE Accounted'
  BY <1>2 DEF Accounted, Load, Expected, Base, Hangup, Uncounted
<1>3. ASSUME NEW w \in Workers, Execute(w) \/ Refuse(w) \/ refused_close(w) PROVE Accounted'
  <2>1. CASE Execute(w) \/ Refuse(w)
    BY <1>2, <2>1 DEF Execute, Refuse
  <2>2. CASE refused_close(w)
    <3>1. /\ closing[w] \in Fds /\ Close(closing[w]) /\ UNCHANGED <<usage, pc, local>>
          /\ drift' = [t \in Threads |-> Drift(t, closing[w], NoFd)]
      BY <2>2 DEF refused_close, TypeOK
    <3>2. ASSUME NEW t \in Threads
          PROVE Uncounted(t)' = Uncounted(t) /\ Hangup(t)' = Hangup(t) + (IF NoFd = t THEN 1 ELSE 0)
      BY <3>1, FrontAssumption DEF Uncounted, Hangup
    <3> QED BY <3>1, <3>2, CloseAccounted
  <2> QED BY <1>3, <2>1, <2>2
<1>4. ASSUME NEW c \in Conns, connectToHost(c) \/ ClientSend(c) \/ ClientLeave(c) PROVE Accounted'
  BY <1>2, <1>4 DEF connectToHost, ClientSend, ClientLeave
<1>5. CASE UNCHANGED vars
  BY <1>2, <1>5 DEF vars
<1> QED
  BY <1>1, <1>3, <1>4, <1>5 DEF Next

(* The usage of a thread is the size of its epoll set, up to what is under *)
(* way and to the closes it was not told of, for any width of the counter. *)
THEOREM UsageIsAccounted == Spec => []LoadIsAccounted
<1>1. Init => TypeOK /\ Watching /\ Accounted
  BY InitType, InitWatching, InitAccounted
<1>2. TypeOK /\ Watching /\ Accounted /\ [Next]_vars => TypeOK' /\ Watching' /\ Accounted'
  BY StepType, StepWatching, StepAccounted
<1>3. TypeOK /\ Watching /\ Accounted => LoadIsAccounted
  BY AccountedMeans
<1> QED
  BY <1>1, <1>2, <1>3, PTL DEF Spec
--------------------------------------------------------------------------------
(* Why a descriptor may be closed.  What a thread read, a worker refused   *)
(* or the queue holds belongs to the connection that has the number now,   *)
(* unless that was closed, or accepted while the number was still in use.  *)
Explained(fd) == table[fd] = NoConn \/ client[table[fd]] = "left" \/ table[fd] \in refused \cup stale
Own(fd, c) == table[fd] \in {NoConn, c} \cup stale

(* Some command of the queue. *)
Queued(c) == \E i \in DOMAIN commands : commands[i] = c

ReadersOwn == \A t \in Threads : pc[t] \in {"blocked", "push"} => Own(local[t].fd, local[t].conn)
ClosersKnow == \A t \in Threads : pc[t] = "close" => Explained(local[t].fd)
WorkersKnow == \A w \in Workers : closing[w] \in Fds => Explained(closing[w])
CommandsOwn == \A c \in Commands : Queued(c) /\ c.action = "user" => Own(c.from, c.conn)

Causes == ReadersOwn /\ ClosersKnow /\ WorkersKnow /\ CommandsOwn

(* The parts of the type invariant in the next state. *)
LEMMA TypeNext == TypeOK' <=> ThreadsOK' /\ WorldOK'
BY TypeParts, PTL

(* At the start nothing is referred to. *)
LEMMA InitCauses == Init => Causes
BY FrontAssumption DEF Init, Causes, ReadersOwn, ClosersKnow, WorkersKnow, CommandsOwn, Queued

(* What is queued after a push. *)
LEMMA AppendQueued ==
  ASSUME commands \in Seq(Commands), NEW new \in Commands, commands' = Append(commands, new)
  PROVE \A c : Queued(c)' => Queued(c) \/ c = new
<1>1. /\ DOMAIN commands = 1 .. Len(commands) /\ DOMAIN commands' = 1 .. Len(commands) + 1
      /\ commands'[Len(commands) + 1] = new /\ Len(commands) \in Nat
      /\ \A i \in 1 .. Len(commands) : commands'[i] = commands[i]
  OBVIOUS
<1>2. \A i \in 1 .. Len(commands) + 1 : i \in 1 .. Len(commands) \/ i = Len(commands) + 1
  BY <1>1
<1> QED
  BY <1>1, <1>2 DEF Queued

(* The command a worker takes was queued, and so were those it leaves. *)
LEMMA TailQueued ==
  ASSUME commands \in Seq(Commands), commands # <<>>
  PROVE /\ Head(commands) \in Commands /\ Queued(Head(commands))
        /\ \A i \in DOMAIN Tail(commands) : Queued(Tail(commands)[i])
<1>1. /\ Head(commands) = commands[1] /\ Head(commands) \in Commands
      /\ Tail(commands) \in Seq(Commands) /\ Len(Tail(commands)) = Len(commands) - 1
      /\ \A i \in 1 .. Len(Tail(commands)) : Tail(commands)[i] = commands[i + 1]
  BY HeadTailProperties
<1>2. /\ DOMAIN commands = 1 .. Len(commands) /\ Len(commands) \in Nat \ {0}
      /\ DOMAIN Tail(commands) = 1 .. Len(commands) - 1
  BY <1>1, EmptySeq, LenProperties
<1>3. 1 \in DOMAIN commands /\ \A i \in 1 .. Len(commands) - 1 : i + 1 \in DOMAIN commands
  BY <1>2
<1> QED
  BY <1>1, <1>2, <1>3 DEF Queued

(* Nothing that counts as a cause is taken back, and no number that is     *)
(* referred to changes hands unnoticed.                                    *)
Kept(fd) == table'[fd] = table[fd] \/ table'[fd] = NoConn \/ table'[fd] \in stale'
Lasting ==
  /\ stale \subseteq stale' /\ refused \subseteq refused'
  /\ \A c \in Conns : client[c] = "left" => client'[c] = "left"

(* So what was explained or owned stays so. *)
LEMMA StillSo ==
  ASSUME TypeOK, Lasting, NEW fd \in Fds, Kept(fd)
  PROVE /\ Explained(fd) => Explained(fd)'
        /\ \A c : Own(fd, c) => Own(fd, c)'
<1>1. table[fd] \in Conns \cup {NoConn}
  BY DEF TypeOK
<1> QED
  BY <1>1 DEF Kept, Lasting, Explained, Own

(* A thread's step, if what it itself now refers to is accounted for.      *)
LEMMA ThreadKnows ==
  ASSUME TypeOK, TypeOK', Causes, Lasting, NEW t \in Threads, Alone(t), UNCHANGED closing,
         \A fd \in Fds : Kept(fd),
         \A c \in Commands : Queued(c)' /\ c.action = "user" => Queued(c) \/ Own(c.from, c.conn)',
         pc'[t] \in {"blocked", "push"} => Own(local[t].fd, local[t].conn)',
         pc'[t] = "close" => Explained(local[t].fd)'
  PROVE Causes'
<1>1. ReadersOwn'
  <2> SUFFICES ASSUME NEW u \in Threads, pc'[u] \in {"blocked", "push"}
               PROVE Own(local[u].fd, local[u].conn)'
    BY DEF ReadersOwn
  <2>1. CASE u = t
    BY <2>1
  <2>2. CASE u # t
    <3>1. pc[u] = pc'[u] /\ local'[u] = local[u] /\ local[u].fd \in Fds
      BY <2>2 DEF Alone, TypeOK
    <3>2. Own(local[u].fd, local[u].conn)
      BY <3>1 DEF Causes, ReadersOwn
    <3> QED BY <3>1, <3>2, StillSo DEF Own
  <2> QED BY <2>1, <2>2
<1>2. ClosersKnow'
  <2> SUFFICES ASSUME NEW u \in Threads, pc'[u] = "close" PROVE Explained(local[u].fd)'
    BY DEF ClosersKnow
  <2>1. CASE u = t
    BY <2>1
  <2>2. CASE u # t
    <3>1. pc[u] = pc'[u] /\ local'[u] = local[u] /\ local[u].fd \in Fds
      BY <2>2 DEF Alone, TypeOK
    <3>2. Explained(local[u].fd)
      BY <3>1 DEF Causes, ClosersKnow
    <3> QED BY <3>1, <3>2, StillSo DEF Explained
  <2> QED BY <2>1, <2>2
<1>3. WorkersKnow'
  BY StillSo DEF Causes, WorkersKnow, Explained
<1>4. CommandsOwn'
  <2> SUFFICES ASSUME NEW c \in Commands, Queued(c)', c.action = "user"
               PROVE Own(c.from, c.conn)'
    BY DEF CommandsOwn
  <2>1. c.from \in Fds
    BY DEF Commands
  <2>2. CASE Queued(c)
    BY <2>1, <2>2, StillSo DEF Causes, CommandsOwn
  <2> QED BY <2>2
<1> QED
  BY <1>1, <1>2, <1>3, <1>4 DEF Causes

(* Most steps of a thread leave the descriptors and the clients alone.     *)
LEMMA PlainKnows ==
  ASSUME TypeOK, TypeOK', Causes, NEW t \in Threads, Alone(t),
         UNCHANGED <<table, client, refused, stale, closing>>,
         \A c \in Commands : Queued(c)' /\ c.action = "user" => Queued(c) \/ Own(c.from, c.conn),
         pc'[t] \in {"blocked", "push"} => Own(local'[t].fd, local'[t].conn),
         pc'[t] = "close" => Explained(local'[t].fd)
  PROVE Causes'
<1>1. Lasting /\ \A fd \in Fds : Kept(fd)
  BY DEF Lasting, Kept
<1>2. /\ \A fd, c : Own(fd, c)' <=> Own(fd, c)
      /\ \A fd : Explained(fd)' <=> Explained(fd)
  BY DEF Own, Explained
<1>3. \A c \in Commands : Queued(c)' /\ c.action = "user" => Queued(c) \/ Own(c.from, c.conn)'
  BY <1>2
<1>4. /\ pc'[t] \in {"blocked", "push"} => Own(local[t].fd, local[t].conn)'
      /\ pc'[t] = "close" => Explained(local[t].fd)'
  BY DEF Own, Explained
<1> QED
  BY <1>1, <1>3, <1>4, ThreadKnows

(* A number that accept() returns is not referred to, or its connection is *)
(* stale.                                                                  *)
LEMMA AcceptKnows ==
  ASSUME TypeOK, TypeOK', Causes, NEW t \in Threads, Alone(t), accept(t)
  PROVE Causes'
<1> DEFINE free == {fd \in Fds : table[fd] = NoConn}
<1>1. /\ pc[t] = "event" /\ local[t].fd = MainSocket /\ backlog # <<>>
      /\ UNCHANGED <<client, commands, closing, refused>>
  BY DEF accept, clients
<1>2. CASE NextEvent(t) /\ UNCHANGED <<kernel, stale>>
  <2>1. pc'[t] \in {"wait", "event"}
    BY <1>2, NextEventEffect, TypeParts
  <2>2. \A c : Queued(c)' => Queued(c)
    BY <1>1 DEF Queued
  <2> QED BY <1>1, <1>2, <2>1, <2>2, PlainKnows DEF kernel
<1>3. CASE /\ free # {}
           /\ table' = [table EXCEPT ![Min(free)] = Head(backlog)]
           /\ stale' = IF ReferredTo(Min(free)) THEN stale \cup {Head(backlog)} ELSE stale
           /\ pc' = [pc EXCEPT ![t] = "choose"]
           /\ local' = [local EXCEPT ![t].fd = Min(free)]
  <2> DEFINE fd == Min(free)
  <2>1. fd \in Fds
    <3>1. free \in SUBSET Fds
      OBVIOUS
    <3>2. fd \in free
      <4> HIDE DEF free
      <4> QED BY <1>3, <3>1, LowestFree
    <3> HIDE DEF fd
    <3> QED BY <3>2
  <2>2. /\ table' = [table EXCEPT ![fd] = Head(backlog)]
        /\ stale' = IF ReferredTo(fd) THEN stale \cup {Head(backlog)} ELSE stale
    BY <1>3
  <2> HIDE DEF fd, free
  <2>3. /\ table'[fd] = Head(backlog) /\ \A g \in Fds \ {fd} : table'[g] = table[g]
        /\ pc'[t] = "choose"
    <3>1. table'[fd] = Head(backlog) /\ \A g \in Fds \ {fd} : table'[g] = table[g]
      BY <2>1, <2>2 DEF TypeOK
    <3>2. pc'[t] = "choose"
      BY <1>3 DEF TypeOK
    <3> QED BY <3>1, <3>2
  <2>4. Lasting
    BY <1>1, <2>2 DEF Lasting
  <2>5. \A g \in Fds : g # fd \/ ReferredTo(fd) => Kept(g)
    BY <2>2, <2>3 DEF Kept
  <2>6. CASE ReferredTo(fd)
    <3>1. \A g \in Fds : Kept(g)
      BY <2>5, <2>6
    <3>2. \A c : Queued(c)' => Queued(c)
      BY <1>1 DEF Queued
    <3> QED BY <1>1, <2>3, <2>4, <3>1, <3>2, ThreadKnows
  <2>7. CASE ~ReferredTo(fd)
    <3>1. ASSUME NEW u \in Threads, pc'[u] \in {"blocked", "push", "close"}
          PROVE local'[u] = local[u] /\ pc'[u] = pc[u] /\ local[u].fd \in Fds \ {fd}
      <4>1. u # t
        BY <2>3, <3>1
      <4>2. local'[u] = local[u] /\ pc'[u] = pc[u] /\ local[u].fd \in Fds
        BY <3>1, <4>1 DEF Alone, TypeOK
      <4> QED BY <2>7, <3>1, <4>2 DEF ReferredTo
    <3>2. \A w \in Workers : closing'[w] = closing[w] /\ closing[w] # fd
      BY <1>1, <2>7 DEF ReferredTo
    <3>3. \A c \in Commands : Queued(c)' /\ c.action = "user" => Queued(c) /\ c.from \in Fds \ {fd}
      <4>1. \A c \in Commands : Queued(c)' => Queued(c) /\ c.from \in Fds
        BY <1>1 DEF Queued, Commands
      <4>2. \A c \in Commands : Queued(c) /\ c.action = "user" => c.from # fd
        BY <2>7 DEF ReferredTo, Queued
      <4> QED BY <4>1, <4>2
    <3>4. ReadersOwn'
      <4> SUFFICES ASSUME NEW u \in Threads, pc'[u] \in {"blocked", "push"}
                   PROVE Own(local[u].fd, local[u].conn)'
        BY DEF ReadersOwn
      <4>1. local'[u] = local[u] /\ pc'[u] = pc[u] /\ local[u].fd \in Fds \ {fd}
        BY <3>1
      <4>2. Own(local[u].fd, local[u].conn) /\ Kept(local[u].fd)
        BY <2>5, <4>1 DEF Causes, ReadersOwn
      <4> QED BY <2>4, <4>1, <4>2, StillSo DEF Own
    <3>5. ClosersKnow'
      <4> SUFFICES ASSUME NEW u \in Threads, pc'[u] = "close" PROVE Explained(local[u].fd)'
        BY DEF ClosersKnow
      <4>1. local'[u] = local[u] /\ pc'[u] = pc[u] /\ local[u].fd \in Fds \ {fd}
        BY <3>1
      <4>2. Explained(local[u].fd) /\ Kept(local[u].fd)
        BY <2>5, <4>1 DEF Causes, ClosersKnow
      <4> QED BY <2>4, <4>1, <4>2, StillSo DEF Explained
    <3>6. WorkersKnow'
      <4> SUFFICES ASSUME NEW w \in Workers, closing[w] \in Fds PROVE Explained(closing[w])'
        BY <1>1 DEF WorkersKnow
      <4>1. Explained(closing[w]) /\ Kept(closing[w])
        BY <2>5, <3>2 DEF Causes, WorkersKnow
      <4> QED BY <1>1, <2>4, <4>1, StillSo DEF Explained
    <3>7. CommandsOwn'
      <4> SUFFICES ASSUME NEW c \in Commands, Queued(c)', c.action = "user" PROVE Own(c.from, c.conn)'
        BY DEF CommandsOwn
      <4>1. Queued(c) /\ c.from \in Fds /\ Kept(c.from)
        BY <2>5, <3>3
      <4> QED BY <2>4, <4>1, StillSo DEF Causes, CommandsOwn
    <3> QED BY <3>4, <3>5, <3>6, <3>7 DEF Causes
  <2> QED BY <2>6, <2>7
<1> QED
  BY <1>2, <1>3 DEF accept

(* Every step of an epoll thread. *)
LEMMA ThreadCauses ==
  ASSUME TypeOK, Causes, NEW t \in Threads, handle_thread(t)
  PROVE Causes'
<1>0. TypeOK' /\ Alone(t) /\ ThreadsOK
  BY ThreadType, TypeParts, TypeNext
<1> USE DEF kernel, clients, history
<1>1. ASSUME UNCHANGED commands PROVE \A c : Queued(c)' => Queued(c)
  BY <1>1 DEF Queued
<1>2. CASE epoll_wait(t)
  <2>1. pc'[t] = "event"
    BY <1>2 DEF epoll_wait, Take, TypeOK
  <2> QED BY <1>0, <1>1, <1>2, <2>1, PlainKnows DEF epoll_wait
<1>3. CASE accept(t)
  BY <1>0, <1>3, AcceptKnows
<1>4. CASE get_minimal_use_thread_number(t)
  <2>1. pc'[t] \in {"choose", "add"}
    BY <1>4, SearchEffect, TypeParts
  <2> QED BY <1>0, <1>1, <1>4, <2>1, PlainKnows DEF get_minimal_use_thread_number
<1>5. CASE epoll_ctl_add(t)
  <2>1. pc'[t] \in {"count", "wait", "event"}
    BY <1>0, <1>5, NextEventEffect DEF epoll_ctl_add, Goto, TypeOK
  <2>2. UNCHANGED <<table, client, refused, stale, closing, commands>>
    BY <1>5 DEF epoll_ctl_add
  <2> QED BY <1>0, <1>1, <2>1, <2>2, PlainKnows
<1>6. CASE count(t)
  <2>1. pc'[t] = "announce"
    BY <1>6 DEF count, Goto, TypeOK
  <2> QED BY <1>0, <1>1, <1>6, <2>1, PlainKnows DEF count
<1>7. CASE announce(t)
  <2> DEFINE new == Command("make_new_user", local[t].fd, NoConn)
  <2>1. pc'[t] \in {"wait", "event"}
    BY <1>0, <1>7, NextEventEffect DEF announce
  <2>2. new \in Commands /\ new.action # "user"
    BY <1>7 DEF announce, TypeOK, Command, Commands
  <2>3. commands' = Append(commands, new) /\ commands \in Seq(Commands)
    BY <1>7, TypeParts DEF announce, Push, WorldOK
  <2> HIDE DEF new
  <2>4. \A c : Queued(c)' => Queued(c) \/ c = new
    BY <2>2, <2>3, AppendQueued
  <2> QED BY <1>0, <1>7, <2>1, <2>2, <2>4, PlainKnows DEF announce
<1>8. CASE recv_block(t)
  <2>1. /\ pc'[t] = "blocked" /\ local'[t].fd = local[t].fd /\ local'[t].conn = table[local[t].fd]
        /\ UNCHANGED <<table, client, refused, stale, closing, commands>>
    BY <1>8 DEF recv_block, Goto, TypeOK
  <2>2. Own(local'[t].fd, local'[t].conn)
    BY <2>1 DEF Own
  <2> QED BY <1>0, <1>1, <2>1, <2>2, PlainKnows
<1>9. CASE recv_command(t)
  <2>1. UNCHANGED <<table, client, refused, stale, closing, commands>>
    BY <1>9 DEF recv_command
  <2>2. CASE NextEvent(t)
    <3>1. pc'[t] \in {"wait", "event"}
      BY <1>0, <2>2, NextEventEffect
    <3> QED BY <1>0, <1>1, <2>1, <3>1, PlainKnows
  <2>3. CASE /\ pc' = [pc EXCEPT ![t] = "push"]
             /\ local' = [local EXCEPT ![t].conn = Source(t), ![t].number = Decoded(stream[Source(t)])]
    <3>1. pc'[t] = "push" /\ local'[t].fd = local[t].fd /\ local'[t].conn = Source(t)
      BY <2>3 DEF TypeOK
    <3>2. Own(local[t].fd, Source(t))
      BY <1>9 DEF recv_command, Receiving, Source, Causes, ReadersOwn, Own
    <3> QED BY <1>0, <1>1, <2>1, <3>1, <3>2, PlainKnows
  <2> QED BY <1>9, <2>2, <2>3 DEF recv_command
<1>10. CASE push(t)
  <2> DEFINE new == Command("user", local[t].fd, local[t].conn)
  <2>1. pc'[t] \in {"wait", "event"}
    BY <1>0, <1>10, NextEventEffect DEF push
  <2>2. new \in Commands /\ new.from = local[t].fd /\ new.conn = local[t].conn
    BY <1>10 DEF push, TypeOK, Command, Commands
  <2>3. commands' = Append(commands, new) /\ commands \in Seq(Commands)
    BY <1>10, TypeParts DEF push, Push, WorldOK
  <2>4. Own(local[t].fd, local[t].conn)
    BY <1>10 DEF push, Causes, ReadersOwn
  <2> HIDE DEF new
  <2>5. \A c : Queued(c)' => Queued(c) \/ c = new
    BY <2>2, <2>3, AppendQueued
  <2>6. UNCHANGED <<table, client, refused, stale, closing>>
    BY <1>10 DEF push
  <2> QED BY <1>0, <2>1, <2>2, <2>4, <2>5, <2>6, PlainKnows
<1>11. CASE recv_nothing(t)
  <2>1. /\ pc'[t] = "close" /\ local' = local /\ local[t].fd \in Fds
        /\ UNCHANGED <<table, client, refused, stale, closing, commands>>
    BY <1>11 DEF recv_nothing, Receiving, TypeOK
  <2>2. Explained(local[t].fd)
    BY <1>11, <2>1 DEF recv_nothing, Receiving, Source, Causes, ReadersOwn, Own, Explained
  <2> QED BY <1>0, <1>1, <2>1, <2>2, PlainKnows
<1>12. CASE hangup_close(t)
  <2>1. /\ pc'[t] = "delete" /\ local[t].fd \in Fds /\ Close(local[t].fd)
        /\ UNCHANGED <<client, refused, stale, closing, commands>>
    BY <1>12 DEF hangup_close, Goto, TypeOK
  <2>2. Lasting /\ \A fd \in Fds : Kept(fd)
    BY <2>1 DEF Lasting, Kept, Close, TypeOK
  <2> QED BY <1>0, <1>1, <2>1, <2>2, ThreadKnows
<1>13. CASE hangup_delete(t)
  <2> DEFINE new == Command("delete_user", local[t].fd, NoConn)
  <2>1. pc'[t] = "uncount"
    BY <1>13 DEF hangup_delete, Goto, TypeOK
  <2>2. new \in Commands /\ new.action # "user"
    BY <1>13 DEF hangup_delete, Goto, TypeOK, Command, Commands
  <2>3. commands' = Append(commands, new) /\ commands \in Seq(Commands)
    BY <1>13, TypeParts DEF hangup_delete, Push, WorldOK
  <2> HIDE DEF new
  <2>4. \A c : Queued(c)' => Queued(c) \/ c = new
    BY <2>2, <2>3, AppendQueued
  <2> QED BY <1>0, <1>13, <2>1, <2>2, <2>4, PlainKnows DEF hangup_delete
<1>14. CASE hangup_uncount(t)
  <2>1. pc'[t] \in {"wait", "event"}
    BY <1>0, <1>14, NextEventEffect DEF hangup_uncount
  <2> QED BY <1>0, <1>1, <1>14, <2>1, PlainKnows DEF hangup_uncount
<1> QED
  BY <1>2, <1>3, <1>4, <1>5, <1>6, <1>7, <1>8, <1>9, <1>10, <1>11, <1>12, <1>13, <1>14 DEF handle_thread

(* The workers and the clients change no thread. *)
LEMMA OthersKnow ==
  ASSUME TypeOK, TypeOK', Causes, Lasting, UNCHANGED <<pc, local>>,
         \A fd \in Fds : Kept(fd),
         \A w \in Workers : closing'[w] \in Fds => closing'[w] = closing[w] \/ Explained(closing[w])',
         \A c \in Commands : Queued(c)' /\ c.action = "user" => Queued(c)
  PROVE Causes'
<1>1. ReadersOwn'
  <2> SUFFICES ASSUME NEW u \in Threads, pc[u] \in {"blocked", "push"}
               PROVE Own(local[u].fd, local[u].conn)'
    BY DEF ReadersOwn
  <2>1. local[u].fd \in Fds /\ Own(local[u].fd, local[u].conn)
    BY DEF TypeOK, Causes, ReadersOwn
  <2> QED BY <2>1, StillSo DEF Own
<1>2. ClosersKnow'
  <2> SUFFICES ASSUME NEW u \in Threads, pc[u] = "close" PROVE Explained(local[u].fd)'
    BY DEF ClosersKnow
  <2>1. local[u].fd \in Fds /\ Explained(local[u].fd)
    BY DEF TypeOK, Causes, ClosersKnow
  <2> QED BY <2>1, StillSo DEF Explained
<1>3. WorkersKnow'
  <2> SUFFICES ASSUME NEW w \in Workers, closing'[w] \in Fds, closing'[w] = closing[w]
               PROVE Explained(closing[w])'
    BY DEF WorkersKnow
  <2>1. Explained(closing[w])
    BY DEF Causes, WorkersKnow
  <2> QED BY <2>1, StillSo DEF Explained
<1>4. CommandsOwn'
  <2> SUFFICES ASSUME NEW c \in Commands, Queued(c)', c.action = "user" PROVE Own(c.from, c.conn)'
    BY DEF CommandsOwn
  <2>1. Queued(c) /\ c.from \in Fds
    BY DEF Commands
  <2> QED BY <2>1, StillSo DEF Causes, CommandsOwn
<1> QED
  BY <1>1, <1>2, <1>3, <1>4 DEF Causes

(* A worker refuses a command of its own connection, and then closes that. *)
LEMMA WorkerCauses ==
  ASSUME TypeOK, Causes, NEW w \in Workers, Execute(w) \/ Refuse(w) \/ refused_close(w)
  PROVE Causes'
<1>0. TypeOK' /\ commands \in Seq(Commands)
  BY WorkerType, TypeParts, TypeNext DEF WorldOK
<1> USE DEF kernel, clients, threads, history
<1>1. CASE Execute(w)
  <2>1. \A c : Queued(c)' => Queued(c)
    BY <1>0, <1>1, TailQueued DEF Execute, Queued
  <2>2. Lasting /\ \A fd \in Fds : Kept(fd)
    BY <1>1 DEF Execute, Lasting, Kept
  <2> QED BY <1>0, <1>1, <2>1, <2>2, OthersKnow DEF Execute
<1>2. CASE Refuse(w)
  <2> DEFINE c == Head(commands)
             new == Command("delete_user", c.from, NoConn)
  <2>1. c \in Commands /\ Queued(c) /\ c.action = "user"
    BY <1>0, <1>2, TailQueued DEF Refuse
  <2>2. c.from \in Fds /\ Own(c.from, c.conn) /\ table[c.from] \in Conns \cup {NoConn}
    BY <2>1 DEF Causes, CommandsOwn, Commands, TypeOK
  <2>3. UNCHANGED <<table, client, stale, pc, local>> /\ refused' = refused \cup {c.conn}
    BY <1>2 DEF Refuse
  <2>4. PICK gone \in Fds : gone = c.from
    BY <2>2
  <2>5. Explained(gone)'
    BY <2>2, <2>3, <2>4 DEF Own, Explained
  <2>6. Lasting /\ \A fd \in Fds : Kept(fd)
    BY <2>3 DEF Lasting, Kept
  <2>7. \A x \in Commands : Queued(x)' /\ x.action = "user" => Queued(x)
    <3>1. Tail(commands) \in Seq(Commands) /\ \A i \in DOMAIN Tail(commands) : Queued(Tail(commands)[i])
      BY <1>0, <1>2, TailQueued, HeadTailProperties DEF Refuse
    <3>2. new \in Commands /\ new.action # "user"
      BY <2>2 DEF Command, Commands
    <3>3. commands' = Append(Tail(commands), new)
      BY <1>2 DEF Refuse
    <3> HIDE DEF new
    <3> DEFINE rest == Tail(commands)
    <3>4. \A i \in DOMAIN commands' : commands'[i] = new \/ Queued(commands'[i])
      <4>1. rest \in Seq(Commands) /\ commands' = Append(rest, new) /\ \A i \in DOMAIN rest : Queued(rest[i])
        BY <3>1, <3>3
      <4> HIDE DEF rest
      <4>2. /\ DOMAIN rest = 1 .. Len(rest) /\ DOMAIN commands' = 1 .. Len(rest) + 1
            /\ commands'[Len(rest) + 1] = new /\ Len(rest) \in Nat
            /\ \A i \in 1 .. Len(rest) : commands'[i] = rest[i]
        BY <3>2, <4>1
      <4>3. \A i \in 1 .. Len(rest) + 1 : i \in 1 .. Len(rest) \/ i = Len(rest) + 1
        BY <4>2
      <4> QED BY <4>1, <4>2, <4>3
    <3> QED BY <3>2, <3>4 DEF Queued
  <2>8. \A v \in Workers : closing'[v] = closing[v] \/ closing'[v] = gone
    BY <1>2, <2>4 DEF Refuse, TypeOK
  <2>9. \A v \in Workers : closing'[v] \in Fds => closing'[v] = closing[v] \/ Explained(closing[v])'
    BY <2>5, <2>8 DEF Explained
  <2> QED BY <1>0, <2>3, <2>6, <2>7, <2>9, OthersKnow
<1>3. CASE refused_close(w)
  <2>1. /\ closing[w] \in Fds /\ Close(closing[w])
        /\ UNCHANGED <<client, refused, stale, pc, local, commands>>
    BY <1>3 DEF refused_close, TypeOK
  <2>2. Lasting /\ \A fd \in Fds : Kept(fd)
    BY <2>1 DEF Lasting, Kept, Close, TypeOK
  <2>3. \A v \in Workers : closing'[v] \in Fds => closing'[v] = closing[v]
    BY <1>3, FrontAssumption DEF refused_close, TypeOK
  <2>4. \A c : Queued(c)' => Queued(c)
    BY <2>1 DEF Queued
  <2> QED BY <1>0, <2>1, <2>2, <2>3, <2>4, OthersKnow
<1> QED BY <1>1, <1>2, <1>3

(* A client that left does not come back. *)
LEMMA ClientCauses ==
  ASSUME TypeOK, Causes, NEW c \in Conns, connectToHost(c) \/ ClientSend(c) \/ ClientLeave(c)
  PROVE Causes'
<1>0. TypeOK'
  BY ClientType, TypeParts, TypeNext
<1> USE DEF kernel, clients, threads, history
<1>1. UNCHANGED <<table, refused, stale, pc, local, closing, commands>>
  BY DEF connectToHost, ClientSend, ClientLeave
<1>2. \A d \in Conns : client[d] = "left" => client'[d] = "left"
  BY DEF connectToHost, ClientSend, ClientLeave, TypeOK
<1>3. Lasting /\ \A fd \in Fds : Kept(fd)
  BY <1>1, <1>2 DEF Lasting, Kept
<1>4. \A x : Queued(x)' => Queued(x)
  BY <1>1 DEF Queued
<1> QED BY <1>0, <1>1, <1>3, <1>4, OthersKnow

(* Every step. *)
LEMMA StepCauses == ASSUME TypeOK, Causes, [Next]_vars PROVE Causes'
<1>1. CASE UNCHANGED vars
  BY <1>1 DEF vars, Causes, ReadersOwn, ClosersKnow, WorkersKnow, CommandsOwn, Own, Explained, Queued
<1> QED
  BY <1>1, ThreadCauses, WorkerCauses, ClientCauses DEF Next

(* Only a close takes a number away, and a close is explained. *)
LEMMA CloseIsExplained ==
  ASSUME TypeOK, Causes, [Next]_vars, NEW fd \in Fds, table[fd] # NoConn, table'[fd] # table[fd]
  PROVE client[table[fd]] = "left" \/ table[fd] \in refused \cup stale
<1> SUFFICES Explained(fd)
  BY DEF Explained
<1> USE DEF kernel, clients, threads, history
<1>1. CASE \E t \in Threads : handle_thread(t)
  <2>1. PICK t \in Threads : handle_thread(t)
    BY <1>1
  <2>2. CASE accept(t)
    <3> DEFINE free == {g \in Fds : table[g] = NoConn}
    <3>1. free # {} /\ table' = [table EXCEPT ![Min(free)] = Head(backlog)]
      BY <2>2 DEF accept
    <3>2. Min(free) \in free
      <4>1. free \in SUBSET Fds
        OBVIOUS
      <4> HIDE DEF free
      <4> QED BY <3>1, <4>1, LowestFree
    <3>3. fd # Min(free)
      BY <3>2
    <3> HIDE DEF free
    <3> QED BY <3>1, <3>3 DEF TypeOK
  <2>3. CASE hangup_close(t)
    BY <2>3 DEF hangup_close, Goto, Close, Causes, ClosersKnow, TypeOK
  <2>4. CASE ~accept(t) /\ ~hangup_close(t)
    <3>1. table' = table
      BY <2>1, <2>4 DEF handle_thread, epoll_wait, get_minimal_use_thread_number, epoll_ctl_add, count,
         announce, recv_block, recv_command, push, recv_nothing, hangup_delete, hangup_uncount
    <3> QED BY <3>1
  <2> QED BY <2>2, <2>3, <2>4
<1>2. CASE \E w \in Workers : Execute(w) \/ Refuse(w) \/ refused_close(w)
  <2>1. PICK w \in Workers : refused_close(w)
    BY <1>2 DEF Execute, Refuse
  <2>2. closing[w] \in Fds /\ Close(closing[w])
    BY <2>1 DEF refused_close, TypeOK
  <2>3. fd = closing[w]
    BY <2>2 DEF Close, TypeOK
  <2> QED BY <2>2, <2>3 DEF Causes, WorkersKnow
<1>3. CASE \E c \in Conns : connectToHost(c) \/ ClientSend(c) \/ ClientLeave(c)
  BY <1>3 DEF connectToHost, ClientSend, ClientLeave
<1>4. CASE UNCHANGED vars
  BY <1>4 DEF vars
<1> QED
  BY <1>1, <1>2, <1>3, <1>4 DEF Next

(* A connection is closed because its client left or was refused, whatever *)
(* the interleaving, except when its number was still referred to.         *)
THEOREM ClosesAreExplained == Spec => ClosedForCause
<1>1. Init => TypeOK /\ Causes
  BY InitType, InitCauses
<1>2. TypeOK /\ Causes /\ [Next]_vars => TypeOK' /\ Causes'
  BY StepType, StepCauses
<1>3. TypeOK /\ Causes /\ [Next]_vars =>
        [\A fd \in Fds : table[fd] # NoConn /\ table'[fd] # table[fd] =>
           client[table[fd]] = "left" \/ table[fd] \in refused \cup stale]_vars
  BY CloseIsExplained
<1> QED
  BY <1>1, <1>2, <1>3, PTL DEF Spec, ClosedForCause
--------------------------------------------------------------------------------
(* The commands of a connection are pushed in the order in which its       *)
(* client sent them, for any number of epoll threads.  recv() and push()   *)
(* are two steps, so this needs that no other thread reads the connection  *)
(* in between: whoever refers to it is the one thread that watches it.     *)

Waiting(c) == \E i \in DOMAIN backlog : backlog[i] = c
Holds(t, c) == pc[t] \in {"blocked", "push"} /\ local[t].conn = c
Pushes(t, c) == pc[t] = "push" /\ local[t].conn = c

(* A thread that reads the connection now, or will with what it has.       *)
Reads(t, c) ==
  \/ Holds(t, c)
  \/ \E fd \in Fds : /\ table[fd] = c
                     /\ fd \in watched[t] \cup events[t] \/ (pc[t] = "event" /\ local[t].fd = fd)

Accepted(c) == (\E fd \in Fds : table[fd] = c) \/ \E t \in Threads : Holds(t, c)

(* A connection waits once, and is accepted once. *)
Distinct == \A i, j \in DOMAIN backlog : backlog[i] = backlog[j] => i = j
Placed ==
  /\ Distinct
  /\ \A c \in Conns : client[c] = "new" => ~Waiting(c) /\ ~Accepted(c)
  /\ \A c \in Conns : Waiting(c) => ~Accepted(c)

OneReader == \A c \in Conns \ stale : \A t, u \in Threads : Reads(t, c) /\ Reads(u, c) => t = u

NotYetRead ==
  \A t, u \in Threads : Adding(t) /\ table[local[t].fd] \in Conns \ stale => ~Reads(u, table[local[t].fd])

Reading == Placed /\ OneReader /\ NotYetRead

(* At the start nobody is connected. *)
LEMMA InitReading == Init => Reading
<1> SUFFICES ASSUME Init PROVE Reading
  OBVIOUS
<1>1. \A c \in Conns : ~Waiting(c) /\ ~Accepted(c) /\ \A t \in Threads : ~Reads(t, c)
  BY FrontAssumption DEF Init, Waiting, Accepted, Holds, Reads
<1>2. Distinct
  BY DEF Init, Distinct
<1> QED
  BY <1>1, <1>2 DEF Reading, Placed, OneReader, NotYetRead

(* Most steps only let go of connections. *)
LettingGo ==
  /\ backlog' = backlog /\ stale \subseteq stale'
  /\ \A c \in Conns : client'[c] = "new" => client[c] = "new"
  /\ \A c \in Conns : Accepted(c)' => Accepted(c)
  /\ \A c \in Conns : \A u \in Threads : Reads(u, c)' => Reads(u, c)
  /\ \A u \in Threads : Adding(u)' => Adding(u) /\ table'[local'[u].fd] \in {table[local[u].fd], NoConn}

(* Such a step keeps who reads what. *)
LEMMA LettingGoReading == ASSUME Reading, LettingGo PROVE Reading'
<1>1. \A c : Waiting(c)' <=> Waiting(c)
  BY DEF Waiting, LettingGo
<1>2. Distinct'
  BY DEF Distinct, LettingGo, Reading, Placed
<1>3. Placed'
  BY <1>1, <1>2 DEF Placed, LettingGo, Reading
<1>4. OneReader'
  BY DEF OneReader, LettingGo, Reading
<1>5. NotYetRead'
  <2> SUFFICES ASSUME NEW t \in Threads, NEW u \in Threads, NEW c \in Conns \ stale',
                      Adding(t)', table'[local'[t].fd] = c, Reads(u, c)'
               PROVE FALSE
    BY DEF NotYetRead
  <2>1. Adding(t) /\ table[local[t].fd] = c /\ Reads(u, c) /\ c \in Conns \ stale
    BY FrontAssumption DEF LettingGo
  <2> QED BY <2>1 DEF Reading, NotYetRead
<1> QED
  BY <1>3, <1>4, <1>5 DEF Reading

(* The end of a loop body. *)
LEMMA NextEventLetsGo ==
  ASSUME TypeOK, NEW t \in Threads, NextEvent(t), UNCHANGED <<table, watched, backlog, client, stale>>
  PROVE LettingGo
<1>1. /\ Alone(t) /\ events'[t] \subseteq events[t] /\ pc'[t] \in {"wait", "event"}
      /\ pc'[t] = "event" => local'[t].fd \in events[t]
  BY TypeParts, NextEventEffect
<1>2. \A c : ~Holds(t, c)' /\ \A u \in Threads \ {t} : Holds(u, c)' <=> Holds(u, c)
  BY <1>1 DEF Holds, Alone
<1>3. \A c \in Conns : Accepted(c)' => Accepted(c)
  BY <1>2 DEF Accepted
<1>4. ASSUME NEW c \in Conns, NEW u \in Threads, Reads(u, c)' PROVE Reads(u, c)
  <2>1. CASE u = t
    BY <1>1, <1>2, <1>4, <2>1 DEF Reads
  <2>2. CASE u # t
    BY <1>1, <1>2, <1>4, <2>2 DEF Reads, Alone
  <2> QED BY <2>1, <2>2
<1>5. \A u \in Threads : Adding(u)' => Adding(u) /\ local'[u] = local[u]
  BY <1>1 DEF Adding, Alone
<1> QED
  BY <1>3, <1>4, <1>5 DEF LettingGo

(* A step inside a loop body that reads nothing. *)
LEMMA MoveLetsGo ==
  ASSUME TypeOK, NEW t \in Threads, Alone(t), UNCHANGED <<events, table, watched, backlog, client, stale>>,
         pc'[t] \notin {"event", "blocked", "push"},
         pc'[t] \in {"choose", "add"} => pc[t] = "choose" /\ local'[t].fd = local[t].fd
  PROVE LettingGo
<1>2. \A c : ~Holds(t, c)' /\ \A u \in Threads \ {t} : Holds(u, c)' <=> Holds(u, c)
  BY DEF Holds, Alone
<1>3. \A c \in Conns : Accepted(c)' => Accepted(c)
  BY <1>2 DEF Accepted
<1>4. ASSUME NEW c \in Conns, NEW u \in Threads, Reads(u, c)' PROVE Reads(u, c)
  <2>1. CASE u = t
    BY <1>2, <1>4, <2>1 DEF Reads
  <2>2. CASE u # t
    BY <1>2, <1>4, <2>2 DEF Reads, Alone
  <2> QED BY <2>1, <2>2
<1>5. \A u \in Threads : Adding(u)' => Adding(u) /\ local'[u].fd = local[u].fd
  BY DEF Adding, Alone
<1> QED
  BY <1>3, <1>4, <1>5 DEF LettingGo

(* recv() returns a command, or waits for one, of a connection that the    *)
(* thread had an event of.                                                 *)
LEMMA RecvLetsGo ==
  ASSUME TypeOK, NEW t \in Threads, Alone(t), UNCHANGED <<events, table, watched, backlog, client, stale>>,
         Receiving(t), pc'[t] \in {"blocked", "push"}, local'[t].conn = Source(t)
  PROVE LettingGo
<1>1. \A c : Holds(t, c)' => c = Source(t)
  BY DEF Holds
<1>2. Reads(t, Source(t)) /\ Accepted(Source(t))
  <2>1. CASE pc[t] = "blocked"
    BY <2>1 DEF Reads, Accepted, Holds, Source
  <2>2. CASE pc[t] = "event" /\ local[t].fd # MainSocket
    BY <2>2 DEF Reads, Accepted, Source, TypeOK
  <2> QED BY <2>1, <2>2 DEF Receiving
<1>3. \A c : \A u \in Threads \ {t} : Holds(u, c)' <=> Holds(u, c)
  BY DEF Holds, Alone
<1>4. \A c \in Conns : Accepted(c)' => Accepted(c)
  BY <1>1, <1>2, <1>3 DEF Accepted
<1>5. ASSUME NEW c \in Conns, NEW u \in Threads, Reads(u, c)' PROVE Reads(u, c)
  <2>1. CASE u = t
    BY <1>1, <1>2, <1>5, <2>1 DEF Reads
  <2>2. CASE u # t
    BY <1>3, <1>5, <2>2 DEF Reads, Alone
  <2> QED BY <2>1, <2>2
<1>6. \A u \in Threads : Adding(u)' => Adding(u) /\ local'[u].fd = local[u].fd
  BY DEF Adding, Alone
<1> QED
  BY <1>4, <1>5, <1>6 DEF LettingGo

(* close(). *)
LEMMA CloseLetsGo ==
  ASSUME TypeOK, NEW fd \in Fds, Close(fd), UNCHANGED <<events, local, client, stale>>,
         \A t \in Threads : pc'[t] = pc[t] \/ pc'[t] = "delete"
  PROVE LettingGo
<1>1. /\ backlog' = backlog /\ \A g \in Fds : table'[g] \in {table[g], NoConn}
      /\ \A u \in Threads : watched'[u] \subseteq watched[u]
  BY DEF Close, TypeOK
<1>2. \A c : \A u \in Threads : Holds(u, c)' => Holds(u, c)
  BY DEF Holds
<1>3. \A c \in Conns : \A g \in Fds : table'[g] = c => table[g] = c
  BY <1>1, FrontAssumption
<1>4. \A c \in Conns : Accepted(c)' => Accepted(c)
  BY <1>2, <1>3 DEF Accepted
<1>5. ASSUME NEW c \in Conns, NEW u \in Threads, Reads(u, c)' PROVE Reads(u, c)
  BY <1>1, <1>2, <1>3, <1>5 DEF Reads
<1>6. \A u \in Threads : Adding(u)' => Adding(u) /\ local[u].fd \in Fds
  BY DEF Adding, TypeOK
<1> QED
  BY <1>1, <1>4, <1>5, <1>6 DEF LettingGo

(* accept() takes the connection that waited longest from the backlog.     *)
LEMMA TailWaiting ==
  ASSUME TypeOK, Distinct, backlog # <<>>, backlog' = Tail(backlog), NEW c, c = Head(backlog)
  PROVE Distinct' /\ c \in Conns /\ Waiting(c) /\ ~Waiting(c)' /\ \A d : Waiting(d)' => Waiting(d)
<1>1. /\ c = backlog[1] /\ c \in Conns
      /\ Len(backlog') = Len(backlog) - 1 /\ backlog' \in Seq(Conns)
      /\ \A i \in 1 .. Len(backlog') : backlog'[i] = backlog[i + 1]
  BY HeadTailProperties DEF TypeOK
<1>2. /\ DOMAIN backlog = 1 .. Len(backlog) /\ Len(backlog) \in Nat \ {0}
      /\ DOMAIN backlog' = 1 .. Len(backlog) - 1
  BY <1>1, EmptySeq, LenProperties DEF TypeOK
<1>3. \A i \in DOMAIN backlog' : /\ i + 1 \in DOMAIN backlog /\ i + 1 # 1 /\ backlog'[i] = backlog[i + 1]
                                 /\ i \in Int
  BY <1>1, <1>2
<1>4. 1 \in DOMAIN backlog
  BY <1>2
<1>5. Distinct'
  <2> SUFFICES ASSUME NEW i \in DOMAIN backlog', NEW j \in DOMAIN backlog', backlog'[i] = backlog'[j]
               PROVE i = j
    BY DEF Distinct
  <2>1. i + 1 = j + 1
    BY <1>3 DEF Distinct
  <2> QED BY <1>3, <2>1
<1>6. ~Waiting(c)'
  <2> SUFFICES ASSUME NEW i \in DOMAIN backlog', backlog'[i] = backlog[1] PROVE FALSE
    BY <1>1 DEF Waiting
  <2> QED BY <1>3, <1>4 DEF Distinct
<1> QED
  BY <1>1, <1>3, <1>4, <1>5, <1>6 DEF Waiting

(* accept() hands the connection to nobody yet, or its number is stale. *)
LEMMA AcceptReading ==
  ASSUME TypeOK, Watching, Reading, NEW t \in Threads, accept(t)
  PROVE Reading'
<1> DEFINE free == {fd \in Fds : table[fd] = NoConn}
<1>1. /\ pc[t] = "event" /\ local[t].fd = MainSocket /\ backlog # <<>> /\ client' = client
      /\ Alone(t) /\ t = 0
  BY ThreadType, TypeParts DEF accept, clients, handle_thread, Watching, OneAcceptor, Accepting
<1>2. CASE NextEvent(t) /\ UNCHANGED <<kernel, stale>>
  BY <1>1, <1>2, NextEventLetsGo, LettingGoReading DEF kernel
<1>3. CASE /\ free # {}
           /\ table' = [table EXCEPT ![Min(free)] = Head(backlog)] /\ backlog' = Tail(backlog)
           /\ stale' = IF ReferredTo(Min(free)) THEN stale \cup {Head(backlog)} ELSE stale
           /\ pc' = [pc EXCEPT ![t] = "choose"]
           /\ local' = [local EXCEPT ![t].fd = Min(free)]
           /\ UNCHANGED <<watched, events>>
  <2>1. PICK fd \in Fds : fd = Min(free) /\ table[fd] = NoConn
    <3>1. free \in SUBSET Fds
      OBVIOUS
    <3>2. Min(free) \in free
      <4> HIDE DEF free
      <4> QED BY <1>3, <3>1, LowestFree
    <3> QED BY <3>2
  <2>2. PICK c : c = Head(backlog)
    OBVIOUS
  <2>3. Distinct' /\ c \in Conns /\ Waiting(c) /\ ~Waiting(c)' /\ \A d : Waiting(d)' => Waiting(d)
    BY <1>1, <1>3, <2>2, TailWaiting DEF Reading, Placed
  <2>4. /\ table' = [table EXCEPT ![fd] = c]
        /\ stale' = IF ReferredTo(fd) THEN stale \cup {c} ELSE stale
        /\ local' = [local EXCEPT ![t].fd = fd]
        /\ pc' = [pc EXCEPT ![t] = "choose"]
    BY <1>3, <2>1, <2>2
  <2> HIDE DEF free
  <2>5. /\ table'[fd] = c /\ \A g \in Fds \ {fd} : table'[g] = table[g]
        /\ pc'[t] = "choose" /\ local'[t].fd = fd
    <3>1. table'[fd] = c /\ \A g \in Fds \ {fd} : table'[g] = table[g]
      BY <2>4 DEF TypeOK
    <3>2. pc'[t] = "choose"
      BY <2>4 DEF TypeOK
    <3>3. local'[t].fd = fd
      BY <2>4 DEF TypeOK
    <3> QED BY <3>1, <3>2, <3>3
  <2>6. \A u \in Threads : \A d : Holds(u, d)' => Holds(u, d)
    BY <1>1, <2>5 DEF Holds, Alone
  <2>7. client[c] # "new" /\ ~Accepted(c)
    BY <2>3 DEF Reading, Placed
  <2>8. \A d \in Conns \ {c} : Accepted(d)' => Accepted(d)
    BY <2>5, <2>6 DEF Accepted
  <2>9. Placed'
    BY <1>1, <2>3, <2>7, <2>8 DEF Reading, Placed
  <2>10. ASSUME NEW d \in Conns \ {c}, NEW u \in Threads, Reads(u, d)' PROVE Reads(u, d)
    <3>1. CASE Holds(u, d)'
      BY <2>6, <3>1 DEF Reads
    <3>2. CASE \E g \in Fds : /\ table'[g] = d
                              /\ g \in watched[u] \cup events[u] \/ (pc'[u] = "event" /\ local'[u].fd = g)
      <4>1. PICK g \in Fds : /\ table'[g] = d
                             /\ g \in watched[u] \cup events[u] \/ (pc'[u] = "event" /\ local'[u].fd = g)
        BY <3>2
      <4>2. table[g] = d
        BY <2>5, <4>1
      <4>3. pc'[u] = "event" => u # t
        BY <2>5
      <4> QED BY <1>1, <4>1, <4>2, <4>3 DEF Reads, Alone
    <3> QED BY <1>3, <2>10, <3>1, <3>2 DEF Reads
  <2>11. ASSUME c \notin stale', NEW u \in Threads PROVE ~Reads(u, c)'
    <3>1. ~ReferredTo(fd)
      BY <2>4, <2>11
    <3>2. ~Holds(u, c)'
      BY <2>6, <2>7 DEF Accepted
    <3>3. \A g \in Fds : table'[g] = c => g = fd
      BY <2>5, <2>7 DEF Accepted
    <3>4. fd \notin watched'[u]
      BY <1>3, <2>1 DEF Watching, WatchedIsOpen
    <3>5. fd \notin events'[u]
      BY <1>3, <3>1 DEF ReferredTo
    <3>6. ~(pc'[u] = "event" /\ local'[u].fd = fd)
      BY <1>1, <2>5, <3>1 DEF ReferredTo, Alone
    <3> QED BY <3>2, <3>3, <3>4, <3>5, <3>6 DEF Reads
  <2>12. stale \subseteq stale'
    BY <2>4
  <2>13. OneReader'
    BY <2>10, <2>11, <2>12 DEF Reading, OneReader
  <2>14. NotYetRead'
    <3>1. \A u \in Threads : Adding(u)' => u = t
      BY <1>1 DEF Watching, OneAcceptor, Accepting, Adding, Alone
    <3> SUFFICES ASSUME NEW u \in Threads, NEW x \in Threads, Adding(u)', NEW d \in Conns \ stale',
                        table'[local'[u].fd] = d, Reads(x, d)'
                 PROVE FALSE
      BY DEF NotYetRead
    <3>2. d = c
      BY <2>5, <3>1
    <3> QED BY <2>11, <3>2
  <2> QED BY <2>9, <2>13, <2>14 DEF Reading
<1> QED
  BY <1>2, <1>3 DEF accept

(* The thread that EPOLL_CTL_ADD names becomes the reader. *)
LEMMA AddReading ==
  ASSUME TypeOK, Watching, Reading, NEW t \in Threads, epoll_ctl_add(t)
  PROVE Reading'
<1>1. /\ pc[t] = "add" /\ Adding(t) /\ local[t].fd \in Fds /\ local[t].chosen \in Threads /\ t = 0
      /\ Alone(t) /\ UNCHANGED <<table, backlog, client, stale>>
  BY ThreadType, TypeParts DEF epoll_ctl_add, Adding, TypeOK, clients, handle_thread, Watching, OneAcceptor, Accepting
<1>2. CASE NextEvent(t) /\ UNCHANGED watched
  BY <1>1, <1>2, NextEventLetsGo, LettingGoReading
<1>3. CASE /\ table[local[t].fd] # NoConn
           /\ watched' = [watched EXCEPT ![local[t].chosen] = @ \cup {local[t].fd}]
           /\ Goto(t, "add", "count") /\ UNCHANGED <<events, local, dropped>>
  <2>1. PICK fd \in Fds, v \in Threads : fd = local[t].fd /\ v = local[t].chosen
    BY <1>1
  <2>2. PICK c \in Conns : c = table[fd]
    BY <1>3, <2>1 DEF TypeOK
  <2>3. /\ watched'[v] = watched[v] \cup {fd} /\ \A u \in Threads \ {v} : watched'[u] = watched[u]
        /\ pc'[t] = "count" /\ \A u \in Threads \ {t} : pc'[u] = pc[u]
        /\ local' = local /\ events' = events
    BY <1>1, <1>3, <2>1 DEF Goto, TypeOK
  <2>4. \A d : \A u \in Threads : Holds(u, d)' => Holds(u, d)
    BY <2>3 DEF Holds
  <2>5. \A d \in Conns : Accepted(d)' => Accepted(d)
    BY <1>1, <2>4 DEF Accepted
  <2>6. Placed'
    BY <1>1, <2>5 DEF Reading, Placed, Distinct, Waiting
  <2>7. ASSUME NEW d \in Conns, NEW u \in Threads, Reads(u, d)', d # c \/ u # v PROVE Reads(u, d)
    <3>1. CASE Holds(u, d)'
      BY <2>4, <3>1 DEF Reads
    <3>2. CASE \E g \in Fds : /\ table[g] = d
                              /\ g \in watched'[u] \cup events[u] \/ (pc'[u] = "event" /\ local[u].fd = g)
      <4>1. PICK g \in Fds : /\ table[g] = d
                             /\ g \in watched'[u] \cup events[u] \/ (pc'[u] = "event" /\ local[u].fd = g)
        BY <3>2
      <4>2. g \in watched'[u] => g \in watched[u]
        BY <2>2, <2>3, <2>7, <4>1
      <4>3. pc'[u] = "event" => pc[u] = "event"
        BY <2>3
      <4> QED BY <4>1, <4>2, <4>3 DEF Reads
    <3> QED BY <1>1, <2>3, <2>7, <3>1, <3>2 DEF Reads
  <2>8. c \notin stale => \A u \in Threads : ~Reads(u, c)
    BY <1>1, <2>1, <2>2 DEF Reading, NotYetRead
  <2>9. OneReader'
    BY <1>1, <2>7, <2>8 DEF Reading, OneReader
  <2>10. \A u \in Threads : ~Adding(u)'
    BY <1>1, <2>3 DEF Watching, OneAcceptor, Accepting, Adding
  <2> QED BY <2>6, <2>9, <2>10 DEF Reading, NotYetRead
<1> QED
  BY <1>2, <1>3 DEF epoll_ctl_add

(* Every step of an epoll thread. *)
LEMMA ThreadReading ==
  ASSUME TypeOK, Watching, Reading, NEW t \in Threads, handle_thread(t)
  PROVE Reading'
<1>0. Alone(t)
  BY ThreadType, TypeParts
<1> USE DEF kernel, clients, history
<1>1. CASE epoll_wait(t)
  <2>1. Ready(t) \in Events /\ Ready(t) \cap Fds \subseteq watched[t]
    BY FrontAssumption DEF Ready, Events, TypeOK
  <2>2. events'[t] \subseteq Ready(t) /\ pc'[t] = "event" /\ local'[t].fd \in Ready(t)
    BY <1>1, <2>1, TakeEffect, TypeParts DEF epoll_wait
  <2>3. UNCHANGED <<table, watched, backlog, client, stale>>
    BY <1>1 DEF epoll_wait
  <2>4. \A c : \A u \in Threads : Holds(u, c)' => Holds(u, c)
    BY <1>0, <2>2 DEF Holds, Alone
  <2>5. \A c \in Conns : Accepted(c)' => Accepted(c)
    BY <2>3, <2>4 DEF Accepted
  <2>6. ASSUME NEW c \in Conns, NEW u \in Threads, Reads(u, c)' PROVE Reads(u, c)
    <3>1. CASE u = t
      BY <2>1, <2>2, <2>3, <2>4, <2>6, <3>1 DEF Reads
    <3>2. CASE u # t
      BY <1>0, <2>3, <2>4, <2>6, <3>2 DEF Reads, Alone
    <3> QED BY <3>1, <3>2
  <2>7. \A u \in Threads : Adding(u)' => Adding(u) /\ local'[u] = local[u]
    BY <1>0, <2>2 DEF Adding, Alone
  <2>8. LettingGo
    BY <2>3, <2>5, <2>6, <2>7 DEF LettingGo
  <2> QED BY <2>8, LettingGoReading
<1>2. CASE get_minimal_use_thread_number(t) \/ count(t) \/ recv_nothing(t) \/ hangup_delete(t)
  <2>1. /\ pc'[t] \in {"choose", "add", "announce", "close", "uncount"}
        /\ pc'[t] \in {"choose", "add"} => pc[t] = "choose" /\ local'[t].fd = local[t].fd
        /\ UNCHANGED <<events, table, watched, backlog, client, stale>>
    <3>1. CASE get_minimal_use_thread_number(t)
      BY <3>1, SearchEffect, TypeParts
    <3>2. CASE count(t) \/ recv_nothing(t) \/ hangup_delete(t)
      BY <3>2 DEF count, recv_nothing, hangup_delete, Goto, TypeOK
    <3> QED BY <1>2, <3>1, <3>2
  <2> QED BY <1>0, <2>1, MoveLetsGo, LettingGoReading
<1>3. CASE announce(t) \/ push(t) \/ hangup_uncount(t)
  BY <1>3, NextEventLetsGo, LettingGoReading DEF announce, push, hangup_uncount
<1>4. CASE recv_block(t)
  <2>1. /\ pc'[t] = "blocked" /\ Receiving(t) /\ local'[t].conn = Source(t)
        /\ UNCHANGED <<events, table, watched, backlog, client, stale>>
    BY <1>4 DEF recv_block, Goto, Receiving, Source, TypeOK
  <2> QED BY <1>0, <2>1, RecvLetsGo, LettingGoReading
<1>5. CASE recv_command(t)
  <2>1. Receiving(t) /\ UNCHANGED <<table, watched, backlog, client, stale>>
    BY <1>5 DEF recv_command
  <2>2. CASE NextEvent(t)
    BY <2>1, <2>2, NextEventLetsGo, LettingGoReading
  <2>3. CASE /\ pc' = [pc EXCEPT ![t] = "push"] /\ UNCHANGED events
             /\ local' = [local EXCEPT ![t].conn = Source(t), ![t].number = Decoded(stream[Source(t)])]
    <3>1. pc'[t] = "push" /\ local'[t].conn = Source(t)
      BY <2>3 DEF TypeOK
    <3> QED BY <1>0, <2>1, <2>3, <3>1, RecvLetsGo, LettingGoReading
  <2> QED BY <1>5, <2>2, <2>3 DEF recv_command
<1>6. CASE hangup_close(t)
  <2>1. /\ local[t].fd \in Fds /\ Close(local[t].fd) /\ UNCHANGED <<events, local, client, stale>>
        /\ \A u \in Threads : pc'[u] = pc[u] \/ pc'[u] = "delete"
    BY <1>6 DEF hangup_close, Goto, TypeOK
  <2> QED BY <2>1, CloseLetsGo, LettingGoReading
<1> QED
  BY <1>1, <1>2, <1>3, <1>4, <1>5, <1>6, AcceptReading, AddReading DEF handle_thread

(* A client connects once. *)
LEMMA ConnectReading ==
  ASSUME TypeOK, Reading, NEW c \in Conns, connectToHost(c)
  PROVE Reading'
<1>1. /\ client[c] = "new" /\ client' = [client EXCEPT ![c] = "up"] /\ backlog' = Append(backlog, c)
      /\ UNCHANGED <<table, watched, events, pc, local, stale>>
  BY DEF connectToHost, threads, history
<1>2. ~Waiting(c) /\ ~Accepted(c)
  BY <1>1 DEF Reading, Placed
<1>3. /\ DOMAIN backlog = 1 .. Len(backlog) /\ DOMAIN backlog' = 1 .. Len(backlog) + 1
      /\ backlog'[Len(backlog) + 1] = c /\ Len(backlog) \in Nat
      /\ \A i \in 1 .. Len(backlog) : backlog'[i] = backlog[i]
  BY <1>1 DEF TypeOK
<1>4. \A i \in 1 .. Len(backlog) + 1 : i \in 1 .. Len(backlog) \/ i = Len(backlog) + 1
  BY <1>3
<1>5. Distinct'
  BY <1>2, <1>3, <1>4 DEF Reading, Placed, Distinct, Waiting
<1>6. \A d : Waiting(d)' => Waiting(d) \/ d = c
  BY <1>3, <1>4 DEF Waiting
<1>7. /\ \A d : Accepted(d)' <=> Accepted(d)
      /\ \A u, d : Reads(u, d)' <=> Reads(u, d)
  BY <1>1 DEF Accepted, Reads, Holds
<1>8. \A d \in Conns : client'[d] = "new" => client[d] = "new" /\ d # c
  BY <1>1 DEF TypeOK
<1>9. Placed'
  BY <1>2, <1>5, <1>6, <1>7, <1>8 DEF Reading, Placed
<1>10. OneReader' /\ NotYetRead'
  BY <1>1, <1>7 DEF Reading, OneReader, NotYetRead, Adding
<1> QED
  BY <1>9, <1>10 DEF Reading

(* Every step. *)
LEMMA StepReading == ASSUME TypeOK, Watching, Reading, [Next]_vars PROVE Reading'
<1> USE DEF kernel, clients, threads, history
<1>1. CASE \E t \in Threads : handle_thread(t)
  BY <1>1, ThreadReading
<1>2. ASSUME UNCHANGED <<table, watched, backlog, events, pc, local, stale>>,
             \A c \in Conns : client'[c] = "new" => client[c] = "new"
      PROVE Reading'
  <2>1. /\ \A d : Accepted(d)' <=> Accepted(d)
        /\ \A u, d : Reads(u, d)' <=> Reads(u, d)
    BY <1>2 DEF Accepted, Reads, Holds
  <2>2. \A u \in Threads : Adding(u)' => Adding(u) /\ table'[local'[u].fd] = table[local[u].fd]
    BY <1>2 DEF Adding
  <2>3. LettingGo
    BY <1>2, <2>1, <2>2 DEF LettingGo
  <2> QED BY <2>3, LettingGoReading
<1>3. ASSUME NEW w \in Workers, Execute(w) \/ Refuse(w) \/ refused_close(w) PROVE Reading'
  <2>1. CASE Execute(w) \/ Refuse(w)
    BY <1>2, <2>1 DEF Execute, Refuse
  <2>2. CASE refused_close(w)
    <3>1. closing[w] \in Fds /\ Close(closing[w]) /\ UNCHANGED <<events, pc, local, client, stale>>
      BY <2>2 DEF refused_close, TypeOK
    <3> QED BY <3>1, CloseLetsGo, LettingGoReading
  <2> QED BY <1>3, <2>1, <2>2
<1>4. ASSUME NEW c \in Conns, connectToHost(c) \/ ClientSend(c) \/ ClientLeave(c) PROVE Reading'
  <2>1. CASE ClientSend(c) \/ ClientLeave(c)
    BY <1>2, <2>1 DEF ClientSend, ClientLeave, TypeOK
  <2> QED BY <1>4, <2>1, ConnectReading
<1>5. CASE UNCHANGED vars
  BY <1>2, <1>5 DEF vars
<1> QED
  BY <1>1, <1>3, <1>4, <1>5 DEF Next
--------------------------------------------------------------------------------
(* k commands were read: what is left of the stream are the halves after   *)
(* them, and the last one read is pushed or about to be.                   *)
Progress(c, k) ==
  /\ Len(stream[c]) = 2 * (sent[c] - k) /\ \A i \in 1 .. Len(stream[c]) : stream[c][i] = 2 * k + i
  /\ \A i \in DOMAIN handled[c] : handled[c][i] = i
  /\ \A t \in Threads : Pushes(t, c) => local[t].number = k /\ Len(handled[c]) + 1 = k
  /\ (\A t \in Threads : ~Pushes(t, c)) => Len(handled[c]) = k

Ordered ==
  /\ handled \in [Conns -> Seq(Nat)]
  /\ \A c \in Conns \ (torn \cup stale) : \E k \in Nat : Progress(c, k)

(* At the start nothing was sent. *)
LEMMA InitOrdered == Init => Ordered
<1> SUFFICES ASSUME Init, NEW c \in Conns PROVE Progress(c, 0)
  BY DEF Init, Ordered
<1>1. /\ Len(stream[c]) = 0 /\ sent[c] = 0 /\ DOMAIN handled[c] = {} /\ Len(handled[c]) = 0
      /\ \A t \in Threads : ~Pushes(t, c)
  BY DEF Init, Pushes
<1> QED
  BY <1>1 DEF Progress

(* A step that reads, pushes and sends nothing. *)
LEMMA SameOrdered ==
  ASSUME Ordered, UNCHANGED <<stream, handled, sent>>, torn \subseteq torn', stale \subseteq stale',
         \A t \in Threads : (pc'[t] = "push" <=> pc[t] = "push") /\ (pc[t] = "push" => local'[t] = local[t])
  PROVE Ordered'
<1>1. \A c : \A t \in Threads :
        (Pushes(t, c)' <=> Pushes(t, c)) /\ (Pushes(t, c) => local'[t].number = local[t].number)
  BY DEF Pushes
<1>2. ASSUME NEW c, NEW k, Progress(c, k) PROVE Progress(c, k)'
  BY <1>1, <1>2 DEF Progress
<1> QED
  BY <1>2 DEF Ordered

(* A thread's step that reads and pushes nothing. *)
LEMMA ThreadSameOrdered ==
  ASSUME Ordered, NEW t \in Threads, Alone(t), UNCHANGED <<stream, handled, sent>>,
         torn \subseteq torn', stale \subseteq stale', pc[t] # "push", pc'[t] # "push"
  PROVE Ordered'
BY SameOrdered DEF Alone

(* recv() returns the next command, nobody else has one of the connection. *)
LEMMA RecvOrdered ==
  ASSUME TypeOK, TypeOK', Reading, Ordered, NEW t \in Threads, Alone(t), recv_command(t)
  PROVE Ordered'
<1>1. PICK c \in Conns : c = Source(t)
  BY DEF recv_command, Receiving, Source, TypeOK
<1>2. PICK n \in Sizes(stream[c]) :
        /\ stream' = [stream EXCEPT ![c] = SubSeq(@, n + 1, Len(@))]
        /\ torn' = IF n = 1 THEN torn \cup {c} ELSE torn
        /\ \/ (n = 2 => Decoded(stream[c]) = 0) /\ NextEvent(t)
           \/ /\ n = 2 /\ pc' = [pc EXCEPT ![t] = "push"]
              /\ local' = [local EXCEPT ![t].conn = c, ![t].number = Decoded(stream[c])]
              /\ UNCHANGED events
  BY <1>1 DEF recv_command
<1>3. UNCHANGED <<handled, sent, stale>> /\ torn \subseteq torn' /\ Receiving(t)
  BY <1>2 DEF recv_command, kernel
<1>4. Reads(t, c)
  BY <1>1, <1>3 DEF Receiving, Source, Reads, Holds, TypeOK
<1>5. pc[t] # "push" /\ (pc'[t] = "push" => local'[t].conn = c)
  <2>1. pc[t] # "push"
    BY <1>3 DEF Receiving
  <2>2. CASE NextEvent(t)
    BY <2>1, <2>2, NextEventEffect, TypeParts
  <2>3. CASE local' = [local EXCEPT ![t].conn = c, ![t].number = Decoded(stream[c])]
    BY <2>1, <2>3 DEF TypeOK
  <2> QED BY <1>2, <2>2, <2>3, <2>1
<1>6. ASSUME NEW d \in Conns, d # c, NEW u \in Threads
      PROVE (Pushes(u, d)' <=> Pushes(u, d)) /\ (Pushes(u, d) => local'[u].number = local[u].number)
  BY <1>5, <1>6 DEF Pushes, Alone
<1>7. ASSUME NEW d \in Conns, d # c, NEW k, Progress(d, k) PROVE Progress(d, k)'
  <2>1. stream'[d] = stream[d]
    BY <1>2, <1>7 DEF TypeOK
  <2> QED BY <1>3, <1>6, <1>7, <2>1 DEF Progress
<1>8. ASSUME c \notin torn' \cup stale, NEW k \in Nat, Progress(c, k) PROVE Progress(c, k + 1)'
  <2>1. n = 2 /\ Len(stream[c]) >= 2 /\ Len(stream[c]) \in Nat /\ stream[c] \in Seq(Halves)
    BY <1>2, <1>8, LenProperties DEF Sizes, TypeOK
  <2>2. stream[c][1] = 2 * k + 1 /\ stream[c][2] = 2 * k + 2
    BY <1>8, <2>1 DEF Progress
  <2>3. Decoded(stream[c]) = k + 1
    <3>1. (2 * k + 2) % 2 = 0 /\ (2 * k + 2) \div 2 = k + 1
      OBVIOUS
    <3> QED BY <2>2, <3>1 DEF Decoded
  <2>4. pc' = [pc EXCEPT ![t] = "push"] /\ local' = [local EXCEPT ![t].conn = c, ![t].number = k + 1]
    BY <1>2, <2>1, <2>3
  <2>5. pc'[t] = "push" /\ local'[t].number = k + 1 /\ local'[t].conn = c
    <3>1. pc'[t] = "push"
      BY <2>4 DEF TypeOK
    <3>2. local[t] \in Locals
      BY DEF TypeOK, Locals
    <3>3. local'[t].number = k + 1 /\ local'[t].conn = c
      BY <2>4, <3>2 DEF TypeOK, Locals
    <3> QED BY <3>1, <3>3
  <2>6. \A u \in Threads : ~Pushes(u, c)
    BY <1>4, <1>5, <1>8 DEF Reading, OneReader, Reads, Holds, Pushes
  <2>7. \A u \in Threads : Pushes(u, c)' => u = t
    BY <2>6 DEF Pushes, Alone
  <2>8. Len(handled[c]) = k
    BY <1>8, <2>6 DEF Progress
  <2>9. stream'[c] = SubSeq(stream[c], 3, Len(stream[c]))
    BY <1>2, <2>1 DEF TypeOK
  <2>10. /\ Len(stream'[c]) = Len(stream[c]) - 2
         /\ \A i \in 1 .. Len(stream[c]) - 2 : stream'[c][i] = stream[c][i + 2]
    <3>1. \A i \in 3 .. Len(stream[c]) : stream[c][i] \in Halves
      BY <2>1, ElementOfSeq
    <3>2. /\ Len(SubSeq(stream[c], 3, Len(stream[c]))) =
                IF 3 <= Len(stream[c]) THEN Len(stream[c]) - 3 + 1 ELSE 0
          /\ \A i \in 1 .. Len(stream[c]) - 3 + 1 : SubSeq(stream[c], 3, Len(stream[c]))[i] = stream[c][3 + i - 1]
      BY <2>1, <3>1, SubSeqProperties
    <3> QED BY <2>1, <2>9, <3>2
  <2>11. /\ Len(stream'[c]) = 2 * (sent[c] - (k + 1))
         /\ \A i \in 1 .. Len(stream'[c]) : stream'[c][i] = 2 * (k + 1) + i
    <3>1. Len(stream[c]) = 2 * (sent[c] - k) /\ \A i \in 1 .. Len(stream[c]) : stream[c][i] = 2 * k + i
      BY <1>8 DEF Progress
    <3>2. sent[c] \in Nat
      BY DEF TypeOK
    <3>3. Len(stream'[c]) = 2 * (sent[c] - (k + 1))
      <4> DEFINE l == Len(stream[c])
                 l2 == Len(stream'[c])
                 m == sent[c]
      <4>1. l = 2 * (m - k) /\ l2 = l - 2 /\ m \in Nat
        BY <2>10, <3>1, <3>2
      <4> HIDE DEF l, l2, m
      <4>2. l2 = 2 * (m - (k + 1))
        BY <4>1
      <4> QED BY <4>2 DEF l2, m
    <3>4. ASSUME NEW i \in 1 .. Len(stream'[c]) PROVE stream'[c][i] = 2 * (k + 1) + i
      <4>1. i \in 1 .. Len(stream[c]) - 2 /\ i + 2 \in 1 .. Len(stream[c])
        BY <2>1, <2>10
      <4> QED BY <2>10, <3>1, <4>1
    <3> QED BY <3>3, <3>4
  <2> QED
    BY <1>3, <1>8, <2>5, <2>7, <2>8, <2>11 DEF Progress, Pushes
<1>9. \A d \in Conns \ (torn' \cup stale') : \E k \in Nat : Progress(d, k)'
  <2> SUFFICES ASSUME NEW d \in Conns \ (torn' \cup stale') PROVE \E k \in Nat : Progress(d, k)'
    OBVIOUS
  <2>1. PICK k \in Nat : Progress(d, k)
    BY <1>3 DEF Ordered
  <2>2. k + 1 \in Nat
    OBVIOUS
  <2> QED BY <1>3, <1>7, <1>8, <2>1, <2>2
<1> QED
  BY <1>3, <1>9 DEF Ordered

(* push() adds the command that was read. *)
LEMMA PushOrdered ==
  ASSUME TypeOK, Reading, Ordered, NEW t \in Threads, Alone(t), push(t)
  PROVE Ordered'
<1>1. PICK c \in Conns : c = local[t].conn
  BY DEF push, TypeOK
<1>2. /\ pc[t] = "push" /\ Pushes(t, c) /\ UNCHANGED <<stream, sent, torn, stale>>
      /\ handled' = [handled EXCEPT ![c] = Append(@, local[t].number)]
  BY <1>1 DEF push, clients, Pushes
<1>3. pc'[t] # "push"
  BY NextEventEffect, TypeParts DEF push
<1>4. /\ handled' \in [Conns -> Seq(Nat)] /\ handled'[c] = Append(handled[c], local[t].number)
      /\ \A d \in Conns \ {c} : handled'[d] = handled[d]
  BY <1>2 DEF Ordered, TypeOK
<1>5. ASSUME NEW d \in Conns, d # c, NEW k, Progress(d, k) PROVE Progress(d, k)'
  <2>1. \A u \in Threads : (Pushes(u, d)' <=> Pushes(u, d)) /\ (Pushes(u, d) => local'[u] = local[u])
    BY <1>1, <1>3, <1>5 DEF Pushes, Alone
  <2>2. UNCHANGED <<stream, sent>> /\ handled'[d] = handled[d]
    BY <1>2, <1>4, <1>5
  <2> QED BY <1>5, <2>1, <2>2 DEF Progress
<1>6. ASSUME c \notin torn \cup stale, NEW k \in Nat, Progress(c, k) PROVE Progress(c, k)'
  <2>1. local[t].number = k /\ Len(handled[c]) + 1 = k /\ handled[c] \in Seq(Nat)
    BY <1>2, <1>6 DEF Progress, Ordered
  <2>2. \A u \in Threads : ~Pushes(u, c)'
    <3>1. \A u \in Threads \ {t} : ~Pushes(u, c)
      BY <1>2, <1>6 DEF Reading, OneReader, Reads, Holds, Pushes
    <3> QED BY <1>3, <3>1 DEF Pushes, Alone
  <2>3. \A i \in DOMAIN handled[c] : handled[c][i] = i
    BY <1>6 DEF Progress
  <2>4. Len(handled'[c]) = k /\ \A i \in DOMAIN handled'[c] : handled'[c][i] = i
    <3> DEFINE h == handled[c]
    <3>1. h \in Seq(Nat) /\ Len(h) + 1 = k /\ \A i \in DOMAIN h : h[i] = i
      BY <2>1, <2>3
    <3>2. handled'[c] = Append(h, k)
      BY <1>4, <2>1
    <3> HIDE DEF h
    <3>3. /\ DOMAIN h = 1 .. Len(h) /\ DOMAIN Append(h, k) = 1 .. Len(h) + 1 /\ Len(h) \in Nat
          /\ Append(h, k)[Len(h) + 1] = k /\ Len(Append(h, k)) = Len(h) + 1
          /\ \A i \in 1 .. Len(h) : Append(h, k)[i] = h[i]
      BY <3>1
    <3>4. \A i \in 1 .. Len(h) + 1 : i \in 1 .. Len(h) \/ i = Len(h) + 1
      BY <3>3
    <3> QED BY <3>1, <3>2, <3>3, <3>4
  <2> QED BY <1>2, <1>6, <2>2, <2>4 DEF Progress
<1>7. \A d \in Conns \ (torn' \cup stale') : \E k \in Nat : Progress(d, k)'
  <2> SUFFICES ASSUME NEW d \in Conns \ (torn \cup stale) PROVE \E k \in Nat : Progress(d, k)'
    BY <1>2
  <2>1. PICK k \in Nat : Progress(d, k)
    BY DEF Ordered
  <2> QED BY <1>5, <1>6, <2>1
<1> QED
  BY <1>4, <1>7 DEF Ordered

(* A client adds the two halves of its next command to its stream.         *)
LEMMA SendOrdered ==
  ASSUME TypeOK, Ordered, NEW c \in Conns, ClientSend(c)
  PROVE Ordered'
<1>1. /\ sent' = [sent EXCEPT ![c] = @ + 1]
      /\ stream' = [stream EXCEPT ![c] = @ \o <<2 * sent[c] + 1, 2 * sent[c] + 2>>]
      /\ UNCHANGED <<pc, local, handled, torn, stale>>
  BY DEF ClientSend, threads, history
<1>2. /\ sent'[c] = sent[c] + 1 /\ stream'[c] = stream[c] \o <<2 * sent[c] + 1, 2 * sent[c] + 2>>
      /\ \A d \in Conns \ {c} : sent'[d] = sent[d] /\ stream'[d] = stream[d]
  BY <1>1 DEF TypeOK
<1>3. \A d : \A u \in Threads : (Pushes(u, d)' <=> Pushes(u, d)) /\ local'[u] = local[u]
  BY <1>1 DEF Pushes
<1>4. ASSUME NEW d \in Conns, d # c, NEW k, Progress(d, k) PROVE Progress(d, k)'
  BY <1>1, <1>2, <1>3, <1>4 DEF Progress
<1>5. ASSUME NEW k \in Nat, Progress(c, k) PROVE Progress(c, k)'
  <2> DEFINE s == stream[c]
             m == sent[c]
             new == <<2 * m + 1, 2 * m + 2>>
  <2>1. s \in Seq(Nat) /\ m \in Nat
    <3>1. stream[c] \in Seq(Halves) /\ Halves \subseteq Nat /\ sent[c] \in Nat
      BY DEF TypeOK, Halves
    <3> QED BY <3>1, SeqMonotonic
  <2>2. Len(s) = 2 * (m - k) /\ Len(s) \in Nat /\ \A i \in 1 .. Len(s) : s[i] = 2 * k + i
    BY <1>5, <2>1 DEF Progress
  <2>3. stream'[c] = s \o new /\ sent'[c] = m + 1
    BY <1>2
  <2> HIDE DEF s, m
  <2>4. new \in Seq(Nat) /\ Len(new) = 2 /\ new[1] = 2 * m + 1 /\ new[2] = 2 * m + 2
    BY <2>1
  <2> HIDE DEF new
  <2>5. /\ Len(s \o new) = Len(s) + 2
        /\ \A i \in 1 .. Len(s) + 2 : (s \o new)[i] = IF i <= Len(s) THEN s[i] ELSE new[i - Len(s)]
    <3>1. /\ Len(s \o new) = Len(s) + Len(new)
          /\ \A i \in 1 .. Len(s) + Len(new) : (s \o new)[i] = IF i <= Len(s) THEN s[i] ELSE new[i - Len(s)]
      BY <2>1, <2>4, ConcatProperties
    <3> QED BY <2>4, <3>1
  <2>6. ASSUME NEW i \in 1 .. Len(s) + 2 PROVE (s \o new)[i] = 2 * k + i
    <3>1. CASE i <= Len(s)
      <4>1. i \in 1 .. Len(s)
        BY <2>2, <3>1
      <4> QED BY <2>2, <2>5, <3>1, <4>1
    <3>2. CASE i = Len(s) + 1
      <4>1. (s \o new)[i] = new[1]
        BY <2>2, <2>5, <3>2
      <4> QED BY <2>1, <2>2, <2>4, <3>2, <4>1
    <3>3. CASE i = Len(s) + 2
      <4>1. (s \o new)[i] = new[2]
        BY <2>2, <2>5, <3>3
      <4> QED BY <2>1, <2>2, <2>4, <3>3, <4>1
    <3>4. i <= Len(s) \/ i = Len(s) + 1 \/ i = Len(s) + 2
      BY <2>2
    <3> QED BY <3>1, <3>2, <3>3, <3>4
  <2>7. Len(stream'[c]) = 2 * (sent'[c] - k) /\ \A i \in 1 .. Len(stream'[c]) : stream'[c][i] = 2 * k + i
    BY <2>1, <2>2, <2>3, <2>5, <2>6
  <2> QED BY <1>1, <1>3, <1>5, <2>7 DEF Progress
<1> QED
  BY <1>1, <1>4, <1>5 DEF Ordered

(* Every step: only recv(), push() and the client's send change the order. *)
LEMMA StepOrdered ==
  ASSUME TypeOK, TypeOK', Watching, Reading, Ordered, [Next]_vars
  PROVE Ordered'
<1> USE DEF kernel, clients, threads, history
<1>1. ASSUME NEW t \in Threads, handle_thread(t) PROVE Ordered'
  <2>0. Alone(t) /\ ThreadsOK
    BY <1>1, ThreadType, TypeParts
  <2>1. CASE recv_command(t)
    BY <2>0, <2>1, RecvOrdered
  <2>2. CASE push(t)
    BY <2>0, <2>2, PushOrdered
  <2>3. CASE epoll_wait(t) \/ count(t) \/ recv_block(t)
             \/ recv_nothing(t) \/ hangup_close(t) \/ hangup_delete(t)
    <3>1. /\ UNCHANGED <<stream, handled, sent, torn, stale>> /\ pc[t] # "push" /\ pc'[t] # "push"
      BY <2>3 DEF epoll_wait, Take, count, recv_block, recv_nothing, Receiving,
         hangup_close, hangup_delete, Goto, TypeOK
    <3> QED BY <2>0, <3>1, ThreadSameOrdered
  <2>4. CASE announce(t) \/ hangup_uncount(t)
    <3>1. UNCHANGED <<stream, handled, sent, torn, stale>> /\ pc[t] # "push" /\ NextEvent(t)
      BY <2>4 DEF announce, hangup_uncount
    <3>2. pc'[t] # "push"
      BY <2>0, <3>1, NextEventEffect
    <3> QED BY <2>0, <3>1, <3>2, ThreadSameOrdered
  <2>5. CASE accept(t)
    <3>1. UNCHANGED <<stream, handled, sent, torn>> /\ pc[t] # "push" /\ stale \subseteq stale'
      BY <2>5 DEF accept
    <3>2. pc'[t] # "push"
      <4>1. CASE NextEvent(t)
        BY <2>0, <4>1, NextEventEffect
      <4>2. CASE pc' = [pc EXCEPT ![t] = "choose"]
        BY <4>2 DEF TypeOK
      <4> QED BY <2>5, <4>1, <4>2 DEF accept
    <3> QED BY <2>0, <3>1, <3>2, ThreadSameOrdered
  <2>6. CASE epoll_ctl_add(t)
    <3>1. UNCHANGED <<stream, handled, sent, torn, stale>> /\ pc[t] # "push"
      BY <2>6 DEF epoll_ctl_add
    <3>2. pc'[t] # "push"
      BY <2>0, <2>6, NextEventEffect DEF epoll_ctl_add, Goto, TypeOK
    <3> QED BY <2>0, <3>1, <3>2, ThreadSameOrdered
  <2>7. CASE get_minimal_use_thread_number(t)
    <3>1. UNCHANGED <<stream, handled, sent, torn, stale>> /\ pc[t] # "push" /\ pc'[t] # "push"
      BY <2>0, <2>7, SearchEffect, TypeParts DEF clients, history
    <3> QED BY <2>0, <3>1, ThreadSameOrdered
  <2> QED BY <1>1, <2>1, <2>2, <2>3, <2>4, <2>5, <2>6, <2>7 DEF handle_thread
<1>2. ASSUME UNCHANGED <<stream, handled, sent, torn, stale, pc, local>> PROVE Ordered'
  BY <1>2, SameOrdered
<1>3. ASSUME NEW w \in Workers, Execute(w) \/ Refuse(w) \/ refused_close(w) PROVE Ordered'
  BY <1>2, <1>3 DEF Execute, Refuse, refused_close
<1>4. ASSUME NEW c \in Conns, connectToHost(c) \/ ClientSend(c) \/ ClientLeave(c) PROVE Ordered'
  <2>1. CASE connectToHost(c) \/ ClientLeave(c)
    BY <1>2, <2>1 DEF connectToHost, ClientLeave
  <2> QED BY <1>4, <2>1, SendOrdered
<1>5. CASE UNCHANGED vars
  BY <1>2, <1>5 DEF vars
<1> QED
  BY <1>1, <1>3, <1>4, <1>5 DEF Next

(* Two epoll threads never mix up the commands of a connection: they are   *)
(* pushed as they were sent, none lost before a later one, as long as      *)
(* recv() returned no part of one and the descriptor was a clean one.      *)
THEOREM PushedInOrder == Spec => []InOrder
<1>1. Init => TypeOK /\ Watching /\ Reading /\ Ordered
  BY InitType, InitWatching, InitReading, InitOrdered
<1>2. TypeOK /\ Watching /\ Reading /\ Ordered /\ [Next]_vars => TypeOK' /\ Watching' /\ Reading' /\ Ordered'
  BY StepType, StepWatching, StepReading, StepOrdered
<1>3. Ordered => InOrder
  BY DEF Ordered, Progress, InOrder
<1> QED
  BY <1>1, <1>2, <1>3, PTL DEF Spec
====
