------------------------------ MODULE ServerHandle ------------------------------
(***************************************************************************)
(* The network front end (Server_Handle::handle_thread): epoll threads     *)
(* that wait for events on their own sets of descriptors.  One of them     *)
(* also accepts connections and hands each to the thread with the least    *)
(* usage.  What they see they turn into commands of the queue.  The        *)
(* kernel's descriptor table, the clients' streams and the workers, which  *)
(* may close a descriptor too (user_work.cpp:598-604), are the             *)
(* environment.                                                            *)
(*                                                                         *)
(* A descriptor is a number that the kernel hands out again as soon as it  *)
(* was closed; events, commands and workers only know the number.  The     *)
(* connection behind it is known to the model, never to the code.          *)
(***************************************************************************)
EXTENDS Integers, Sequences, FiniteSetsExt

CONSTANTS Threads,       \* the epoll threads, numbered from 0
          Conns,         \* connections, numbered as clients connect
          Fds,           \* descriptors for accepted connections (numbers)
          Workers,       \* the threads that execute commands
          NoConn, NoFd,  \* "not open", "nothing to close"
          MainSocket,    \* the listening descriptor
          AcceptorLoad,  \* the usage thread 0 starts with, 500 in the code
          Modulus,       \* of unsigned int, 2^32 in the code
          MaxSent,       \* bound: commands sent, in all
          MaxLeft,       \* bound: clients that leave
          Refusing,      \* TRUE: workers may refuse a client's command
          AddFails,      \* TRUE: EPOLL_CTL_ADD may fail
          Splits         \* TRUE: recv() may return a part of a command

ASSUME FrontAssumption ==
  /\ Threads \subseteq Nat /\ 0 \in Threads /\ IsFiniteSet(Threads)
  /\ Fds \subseteq Nat /\ IsFiniteSet(Fds)
  /\ Conns \subseteq Nat /\ IsFiniteSet(Conns) /\ NoConn \notin Conns
  /\ NoFd \notin Fds \cup Threads /\ MainSocket \notin Fds
  /\ Modulus \in Nat \ {0} /\ AcceptorLoad \in 0 .. Modulus - 1
  /\ MaxSent \in Nat /\ MaxLeft \in Nat
  /\ {Refusing, AddFails, Splits} \subseteq BOOLEAN

VARIABLES table,     \* the kernel: descriptor to connection
          backlog,   \* connections that wait for accept(), in order
          client,    \* per connection: "new", "up" or "left"
          sent,      \* per connection: commands its client has sent
          stream,    \* per connection: half commands not read yet
          watched,   \* per thread: its epoll set
          events,    \* per thread: events of epoll_wait not looked at yet
          pc,        \* per thread: where it is in its loop
          local,     \* per thread: descriptor, search of a thread, command
          usage,     \* per thread: Thread_handle::usage
          commands,  \* queue_safe<Command>
          closing    \* per worker: the descriptor it is about to close

(* History, read by properties only. *)
VARIABLES handled,   \* per connection: the commands pushed for it
          refused,   \* connections a command of which was refused
          torn,      \* connections of which recv() returned a part
          dropped,   \* connections that EPOLL_CTL_ADD failed for
          stale,     \* connections on a descriptor still referred to
          drift      \* per thread: closes its usage does not know of

kernel == <<table, backlog, watched>>
clients == <<client, sent, stream>>
threads == <<events, pc, local, usage>>
history == <<handled, refused, torn, dropped, stale, drift>>
vars == <<table, backlog, watched, client, sent, stream, events, pc, local, usage, commands, closing,
          handled, refused, torn, dropped, stale, drift>>

NoLocal == [fd |-> NoFd, chosen |-> 0, next |-> 0, least |-> 0, number |-> 0, conn |-> NoConn]
Command(action, fd, conn) == [action |-> action, from |-> fd, conn |-> conn]

(* Halves 2k - 1 and 2k are the command k; 0 is a command nobody sent.     *)
Halves == Nat \ {0}

TypeOK ==
  /\ table \in [Fds -> Conns \cup {NoConn}] /\ backlog \in Seq(Conns)
  /\ watched \in [Threads -> SUBSET Fds]
  /\ client \in [Conns -> {"new", "up", "left"}]
  /\ sent \in [Conns -> Nat] /\ stream \in [Conns -> Seq(Halves)]
  /\ events \in [Threads -> SUBSET (Fds \cup {MainSocket})]
  /\ pc \in [Threads -> {"wait", "event", "choose", "add", "count", "announce",
                         "blocked", "push", "close", "delete", "uncount"}]
  /\ local \in [Threads -> [fd : Fds \cup {NoFd, MainSocket}, chosen : Threads, next : Threads,
                            least : 0 .. Modulus - 1, number : Nat, conn : Conns \cup {NoConn}]]
  /\ usage \in [Threads -> 0 .. Modulus - 1]
  /\ commands \in Seq([action : {"make_new_user", "delete_user", "user"}, from : Fds,
                       conn : Conns \cup {NoConn}])
  /\ closing \in [Workers -> Fds \cup {NoFd}]
  /\ \A t \in Threads :
       /\ pc[t] = "event" => local[t].fd \in Fds \cup {MainSocket}
       /\ pc[t] \notin {"wait", "event"} => local[t].fd \in Fds
       /\ pc[t] \in {"blocked", "push"} => local[t].conn \in Conns

Init ==
  /\ table = [fd \in Fds |-> NoConn] /\ backlog = <<>>
  /\ watched = [t \in Threads |-> {}]
  /\ client = [c \in Conns |-> "new"] /\ sent = [c \in Conns |-> 0]
  /\ stream = [c \in Conns |-> <<>>]
  /\ events = [t \in Threads |-> {}] /\ pc = [t \in Threads |-> "wait"]
  /\ local = [t \in Threads |-> NoLocal]
  /\ usage = [t \in Threads |-> IF t = 0 THEN AcceptorLoad ELSE 0]
  /\ commands = <<>> /\ closing = [w \in Workers |-> NoFd]
  /\ handled = [c \in Conns |-> <<>>] /\ refused = {}
  /\ torn = {} /\ dropped = {} /\ stale = {} /\ drift = [t \in Threads |-> 0]
--------------------------------------------------------------------------------
Goto(t, from, to) == pc[t] = from /\ pc' = [pc EXCEPT ![t] = to]

(* The thread turns to some event of the set. *)
Take(t, set) ==
  \E fd \in set : /\ events' = [events EXCEPT ![t] = set \ {fd}]
                  /\ pc' = [pc EXCEPT ![t] = "event"]
                  /\ local' = [local EXCEPT ![t] = [NoLocal EXCEPT !.fd = fd]]

(* The end of the loop body: the next event, or epoll_wait again. *)
NextEvent(t) ==
  \/ events[t] # {} /\ Take(t, events[t])
  \/ /\ events[t] = {} /\ UNCHANGED events
     /\ pc' = [pc EXCEPT ![t] = "wait"] /\ local' = [local EXCEPT ![t] = NoLocal]

Push(action, fd, conn) == commands' = Append(commands, Command(action, fd, conn))

(* epoll_wait returns all descriptors of the set that have something to    *)
(* read, in any order.                                                     *)
Readable(fd) == table[fd] # NoConn /\ (stream[table[fd]] # <<>> \/ client[table[fd]] = "left")

Ready(t) == {fd \in watched[t] : Readable(fd)} \cup (IF t = 0 /\ backlog # <<>> THEN {MainSocket} ELSE {})

epoll_wait(t) ==
  /\ pc[t] = "wait" /\ Take(t, Ready(t))
  /\ UNCHANGED <<kernel, clients, usage, commands, closing, history>>
--------------------------------------------------------------------------------
(* A connection: accept(), choice of a thread, EPOLL_CTL_ADD, usage++ and  *)
(* the announcement to the workers are steps of their own; the chosen      *)
(* thread may run between any two of them.                                 *)

(* What can still make somebody close the descriptor for another reason    *)
(* than what its next connection does.                                     *)
ReferredTo(fd) ==
  \/ \E t \in Threads : fd \in events[t] \/ (pc[t] \in {"event", "blocked", "push", "close"} /\ local[t].fd = fd)
  \/ \E w \in Workers : closing[w] = fd
  \/ \E i \in DOMAIN commands : commands[i].action = "user" /\ commands[i].from = fd

(* The kernel gives the lowest free number; without one, accept() fails.   *)
accept(t) ==
  LET free == {fd \in Fds : table[fd] = NoConn} IN
  /\ pc[t] = "event" /\ local[t].fd = MainSocket /\ backlog # <<>>
  /\ \/ /\ free = {} /\ NextEvent(t) /\ UNCHANGED <<kernel, stale>>
     \/ /\ free # {}
        /\ table' = [table EXCEPT ![Min(free)] = Head(backlog)] /\ backlog' = Tail(backlog)
        /\ stale' = IF ReferredTo(Min(free)) THEN stale \cup {Head(backlog)} ELSE stale
        /\ pc' = [pc EXCEPT ![t] = "choose"]
        /\ local' = [local EXCEPT ![t].fd = Min(free)]
        /\ UNCHANGED <<watched, events>>
  /\ UNCHANGED <<clients, usage, commands, closing, handled, refused, torn, dropped, drift>>

(* The usages are read one after the other while other threads change      *)
(* them; one that is less than the least so far is read a second time.     *)
get_minimal_use_thread_number(t) ==
  LET l == local[t]
      Proceed(least) ==
        IF l.next + 1 \in Threads
        THEN local' = [local EXCEPT ![t].next = l.next + 1, ![t].least = least] /\ UNCHANGED pc
        ELSE local' = [local EXCEPT ![t].next = 0, ![t].least = 0] /\ pc' = [pc EXCEPT ![t] = "add"]
  IN
  /\ pc[t] = "choose"
  /\ \/ l.next = l.chosen /\ Proceed(usage[l.chosen])
     \/ l.next # l.chosen /\ usage[l.next] >= l.least /\ Proceed(l.least)
     \/ /\ l.next # l.chosen /\ usage[l.next] < l.least
        /\ local' = [local EXCEPT ![t].chosen = l.next] /\ UNCHANGED pc
  /\ UNCHANGED <<kernel, clients, events, usage, commands, closing, history>>

(* Mistake AddedTwice: added to the set of the accepting thread as well. *)
AddedTwice(t) ==
  /\ pc[t] = "add" /\ table[local[t].fd] # NoConn
  /\ watched' = [watched EXCEPT ![local[t].chosen] = @ \cup {local[t].fd}, ![t] = @ \cup {local[t].fd}]
  /\ Goto(t, "add", "count")
  /\ UNCHANGED <<table, backlog, clients, events, local, usage, commands, closing, history>>

(* If it fails the descriptor is dropped, still open and in no epoll set.  *)
epoll_ctl_add(t) ==
  LET fd == local[t].fd IN
  /\ pc[t] = "add"
  /\ \/ /\ table[fd] # NoConn
        /\ watched' = [watched EXCEPT ![local[t].chosen] = @ \cup {fd}]
        /\ Goto(t, "add", "count") /\ UNCHANGED <<events, local, dropped>>
     \/ /\ AddFails \/ table[fd] = NoConn
        /\ dropped' = dropped \cup ({table[fd]} \ {NoConn})
        /\ NextEvent(t) /\ UNCHANGED watched
  /\ UNCHANGED <<table, backlog, clients, usage, commands, closing, handled, refused, torn, stale, drift>>

(* Mistake NotCounted: the usage is not incremented. *)
NotCounted(t) ==
  /\ Goto(t, "count", "announce")
  /\ UNCHANGED <<kernel, clients, events, local, usage, commands, closing, history>>

count(t) ==
  /\ Goto(t, "count", "announce")
  /\ usage' = [usage EXCEPT ![local[t].chosen] = (@ + 1) % Modulus]
  /\ UNCHANGED <<kernel, clients, events, local, commands, closing, history>>

announce(t) ==
  /\ pc[t] = "announce"
  /\ Push("make_new_user", local[t].fd, NoConn) /\ NextEvent(t)
  /\ UNCHANGED <<kernel, clients, usage, closing, history>>
--------------------------------------------------------------------------------
(* An event of a client's descriptor: recv(), and then push() or the end   *)
(* of the connection.                                                      *)

(* There may be nothing to read any more: recv() waits, and what it waits  *)
(* for is the connection that had the descriptor when it was called.       *)
recv_block(t) ==
  LET c == table[local[t].fd] IN
  /\ Goto(t, "event", "blocked") /\ local[t].fd # MainSocket
  /\ c # NoConn /\ stream[c] = <<>> /\ client[c] # "left"
  /\ local' = [local EXCEPT ![t].conn = c]
  /\ UNCHANGED <<kernel, clients, events, usage, commands, closing, history>>

Receiving(t) == pc[t] = "blocked" \/ (pc[t] = "event" /\ local[t].fd # MainSocket)
Source(t) == IF pc[t] = "blocked" THEN local[t].conn ELSE table[local[t].fd]

(* How many half commands recv() finds. *)
Sizes(s) == {n \in 1 .. 2 : n <= Len(s) /\ (n = 1 => Splits \/ Len(s) = 1)}

(* The command made of these bytes; 0 if they belong to two.               *)
Decoded(s) == IF s[2] = s[1] + 1 /\ s[2] % 2 = 0 THEN s[2] \div 2 ELSE 0

(* A part is dropped, and so is a whole command whose action is negative,  *)
(* as it can be after a part was dropped.                                  *)
recv_command(t) ==
  LET c == Source(t) IN
  /\ Receiving(t) /\ c # NoConn
  /\ \E n \in Sizes(stream[c]) :
       /\ stream' = [stream EXCEPT ![c] = SubSeq(@, n + 1, Len(@))]
       /\ torn' = IF n = 1 THEN torn \cup {c} ELSE torn
       /\ \/ (n = 2 => Decoded(stream[c]) = 0) /\ NextEvent(t)
          \/ /\ n = 2 /\ pc' = [pc EXCEPT ![t] = "push"]
             /\ local' = [local EXCEPT ![t].conn = c, ![t].number = Decoded(stream[c])]
             /\ UNCHANGED events
  /\ UNCHANGED <<kernel, client, sent, usage, commands, closing, handled, refused, dropped, stale, drift>>

push(t) ==
  LET c == local[t].conn IN
  /\ pc[t] = "push"
  /\ Push("user", local[t].fd, c) /\ NextEvent(t)
  /\ handled' = [handled EXCEPT ![c] = Append(@, local[t].number)]
  /\ UNCHANGED <<kernel, clients, usage, closing, refused, torn, dropped, stale, drift>>

(* Mistake ShortIsGone: less than a command means that the user left. *)
ShortIsGone(t) ==
  /\ Receiving(t)
  /\ \/ Source(t) = NoConn
     \/ stream[Source(t)] = <<>> /\ client[Source(t)] = "left"
     \/ Splits /\ stream[Source(t)] # <<>>
  /\ pc' = [pc EXCEPT ![t] = "close"]
  /\ UNCHANGED <<kernel, clients, events, local, usage, commands, closing, history>>

(* Mistake ZeroIsNothing: only an error ends the connection (< 0). *)
ZeroIsNothing(t) ==
  /\ Receiving(t)
  /\ \/ Source(t) = NoConn /\ pc' = [pc EXCEPT ![t] = "close"] /\ UNCHANGED <<events, local>>
     \/ Source(t) # NoConn /\ stream[Source(t)] = <<>> /\ client[Source(t)] = "left" /\ NextEvent(t)
  /\ UNCHANGED <<kernel, clients, usage, commands, closing, history>>

(* recv() returns 0, or -1 for a descriptor that is closed by now. *)
recv_nothing(t) ==
  LET c == Source(t) IN
  /\ Receiving(t) /\ (c # NoConn => stream[c] = <<>> /\ client[c] = "left")
  /\ pc' = [pc EXCEPT ![t] = "close"]
  /\ UNCHANGED <<kernel, clients, events, local, usage, commands, closing, history>>

(* close() frees the number, and the kernel takes it out of every set.     *)
Close(fd) ==
  /\ table' = [table EXCEPT ![fd] = NoConn]
  /\ watched' = [t \in Threads |-> watched[t] \ {fd}]
  /\ UNCHANGED backlog

(* Closes that usage does not follow: of a watched descriptor by somebody  *)
(* else, or by the thread itself of one it does not watch.                 *)
Drift(t, fd, closer) ==
  drift[t] + (IF fd \in watched[t] THEN 1 ELSE 0) - (IF closer = t THEN 1 ELSE 0)

hangup_close(t) ==
  /\ Goto(t, "close", "delete") /\ Close(local[t].fd)
  /\ drift' = [u \in Threads |-> Drift(u, local[t].fd, t)]
  /\ UNCHANGED <<clients, events, local, usage, commands, closing, handled, refused, torn, dropped, stale>>

hangup_delete(t) ==
  /\ Goto(t, "delete", "uncount")
  /\ Push("delete_user", local[t].fd, NoConn)
  /\ UNCHANGED <<kernel, clients, events, local, usage, closing, history>>

(* Mistake Signed: usage is a signed number and passes below zero. *)
Signed(t) ==
  /\ pc[t] = "uncount" /\ NextEvent(t)
  /\ usage' = [usage EXCEPT ![t] = @ - 1]
  /\ UNCHANGED <<kernel, clients, commands, closing, history>>

hangup_uncount(t) ==
  /\ pc[t] = "uncount" /\ NextEvent(t)
  /\ usage' = [usage EXCEPT ![t] = (@ - 1) % Modulus]
  /\ UNCHANGED <<kernel, clients, commands, closing, history>>
--------------------------------------------------------------------------------
(* Workers and clients *)

(* A worker takes a command and is done with it, ... *)
Execute(w) ==
  /\ closing[w] = NoFd /\ commands # <<>>
  /\ commands' = Tail(commands)
  /\ UNCHANGED <<kernel, clients, threads, closing, history>>

(* ... or refuses it: delete_user is queued, then the descriptor closed.   *)
Refuse(w) ==
  LET c == Head(commands) IN
  /\ Refusing /\ closing[w] = NoFd /\ commands # <<>> /\ c.action = "user"
  /\ commands' = Append(Tail(commands), Command("delete_user", c.from, NoConn))
  /\ closing' = [closing EXCEPT ![w] = c.from]
  /\ refused' = refused \cup {c.conn}
  /\ UNCHANGED <<kernel, clients, threads, handled, torn, dropped, stale, drift>>

refused_close(w) ==
  /\ closing[w] # NoFd /\ Close(closing[w])
  /\ closing' = [closing EXCEPT ![w] = NoFd]
  /\ drift' = [t \in Threads |-> Drift(t, closing[w], NoFd)]
  /\ UNCHANGED <<clients, threads, commands, handled, refused, torn, dropped, stale>>

(* A closed connection lives on while recv() waits for it. *)
Open(c) == \/ c \in Range(backlog) \/ \E fd \in Fds : table[fd] = c
           \/ \E t \in Threads : pc[t] = "blocked" /\ local[t].conn = c
Sent == MapThenSumSet(LAMBDA c : sent[c], Conns)
Left == {c \in Conns : client[c] = "left"}

connectToHost(c) ==
  /\ client[c] = "new" /\ \A d \in Conns : client[d] = "new" => c <= d
  /\ client' = [client EXCEPT ![c] = "up"] /\ backlog' = Append(backlog, c)
  /\ UNCHANGED <<table, watched, sent, stream, threads, commands, closing, history>>

ClientSend(c) ==
  /\ client[c] = "up" /\ Open(c) /\ Sent < MaxSent
  /\ sent' = [sent EXCEPT ![c] = @ + 1]
  /\ stream' = [stream EXCEPT ![c] = @ \o <<2 * sent[c] + 1, 2 * sent[c] + 2>>]
  /\ UNCHANGED <<kernel, client, threads, commands, closing, history>>

ClientLeave(c) ==
  /\ client[c] = "up" /\ Cardinality(Left) < MaxLeft
  /\ client' = [client EXCEPT ![c] = "left"]
  /\ UNCHANGED <<kernel, sent, stream, threads, commands, closing, history>>
--------------------------------------------------------------------------------
handle_thread(t) ==
  \/ epoll_wait(t)
  \/ accept(t) \/ get_minimal_use_thread_number(t) \/ epoll_ctl_add(t) \/ count(t) \/ announce(t)
  \/ recv_block(t) \/ recv_command(t) \/ push(t)
  \/ recv_nothing(t) \/ hangup_close(t) \/ hangup_delete(t) \/ hangup_uncount(t)

Next ==
  \/ \E t \in Threads : handle_thread(t)
  \/ \E w \in Workers : Execute(w) \/ Refuse(w) \/ refused_close(w)
  \/ \E c \in Conns : connectToHost(c) \/ ClientSend(c) \/ ClientLeave(c)

Spec == Init /\ [][Next]_vars

(* An epoll thread runs on unless recv() blocks it; a worker that is about *)
(* to close does it.                                                       *)
Fairness ==
  /\ \A t \in Threads : WF_vars(handle_thread(t))
  /\ \A w \in Workers : WF_vars(refused_close(w))

FairSpec == Spec /\ Fairness
--------------------------------------------------------------------------------
(* usage (atomic, unsigned, updated in other steps than the set it stands  *)
(* for) is the size of the thread's epoll set up to its own steps under    *)
(* way, the acceptor's, and the closes it cannot know of.  It may wrap     *)
(* below zero in between, never for good.                                  *)
LoadIsAccounted ==
  \A t \in Threads :
    LET base == IF t = 0 THEN AcceptorLoad ELSE 0
        uncounted == Cardinality({u \in Threads : pc[u] = "count" /\ local[u].chosen = t})
        hangup == IF pc[t] \in {"delete", "uncount"} THEN 1 ELSE 0
    IN usage[t] = (base + Cardinality(watched[t]) + drift[t] + hangup - uncounted) % Modulus

(* An open connection is in exactly one epoll set, so that exactly one      *)
(* thread reads it, unless the acceptor is about to add it or could not.   *)
WatchedOnce ==
  \A fd \in Fds :
    LET watchers == {t \in Threads : fd \in watched[t]} IN
    table[fd] # NoConn /\ table[fd] \notin dropped =>
      \/ Cardinality(watchers) = 1
      \/ watchers = {} /\ \E t \in Threads : pc[t] \in {"choose", "add"} /\ local[t].fd = fd

(* The server closes a connection only because its client left or one of   *)
(* its commands was refused ("the user left the chat", server_handle.cpp   *)
(* :142), except one accepted on a number that was still referred to.      *)
ClosedForCause == [][
  \A fd \in Fds : table[fd] # NoConn /\ table'[fd] # table[fd] =>
    client[table[fd]] = "left" \/ table[fd] \in refused \cup stale ]_vars

(* The commands of a connection are pushed as its client sent them, none   *)
(* lost before a later one, as long as recv() never returned a part.       *)
InOrder ==
  \A c \in Conns \ (torn \cup stale) : \A i \in DOMAIN handled[c] : handled[c][i] = i

(* The descriptor of a client that left does not stay open, if it was      *)
(* added to an epoll set and no thread hangs in recv() for ever.           *)
LeftOpen(fd) == table[fd] \notin dropped \cup {NoConn} /\ client[table[fd]] = "left"

HangupsAreSeen ==
  (\A t \in Threads : []<>(pc[t] # "blocked")) => []<>(\A fd \in Fds : ~LeftOpen(fd))
================================================================================
