------------------------------- MODULE QueueSafe -------------------------------
(***************************************************************************)
(* queue_safe<Command> (Server/queue_safe.h): a std::queue behind one      *)
(* mutex and one condition variable.  push() appends and notifies every    *)
(* sleeper while it still holds the mutex; pop_with_check_and_wait()       *)
(* re-tests the queue in a loop after each wake-up, spurious ones          *)
(* included.  A thread runs its own code ("run") between two calls; the    *)
(* epoll threads only push, the workers pop and also push (the delete_user *)
(* of a rejected command, user_work.cpp:601).                              *)
(***************************************************************************)
EXTENDS Sequences, Naturals

CONSTANTS Threads,    \* epoll threads and workers
          Consumers,  \* the workers among them
          Commands,   \* the values that are queued
          NoCommand,  \* the default-constructed Command of a pop
          NoThread,   \* "the mutex is free"
          MaxPush     \* bound: calls of push() in one behaviour

ASSUME ThreadAssumption == Consumers \subseteq Threads /\ NoThread \notin Threads
ASSUME BoundAssumption == MaxPush \in Nat

VARIABLES current_queue,   \* std::queue<T>
          current_mutex,   \* the thread that owns the mutex, or NoThread
          pc,              \* per thread: where it is in the call it makes
          output_element,  \* per consumer: what its last pop returned
          pushes           \* calls of push() so far

vars == <<current_queue, current_mutex, pc, output_element, pushes>>

(* The program points at which a thread owns current_mutex. *)
Owning == {"push", "notify", "push_unlock", "test", "pop_unlock"}

TypeOK ==
  /\ current_queue \in Seq(Commands)
  /\ current_mutex \in Threads \cup {NoThread}
  /\ pc \in [Threads -> Owning \cup {"run", "wait", "relock"}]
  /\ \A t \in Threads : pc[t] \in {"test", "pop_unlock", "wait", "relock"} => t \in Consumers
  /\ output_element \in [Consumers -> Commands \cup {NoCommand}]
  /\ pushes \in 0 .. MaxPush

Init ==
  /\ current_queue = <<>>
  /\ current_mutex = NoThread
  /\ pc = [t \in Threads |-> "run"]
  /\ output_element = [c \in Consumers |-> NoCommand]
  /\ pushes = 0

Goto(t, from, to) == pc[t] = from /\ pc' = [pc EXCEPT ![t] = to]

Lock(t) == current_mutex = NoThread /\ current_mutex' = t

Unlock == current_mutex' = NoThread
--------------------------------------------------------------------------------
(* push *)

PushLock(t) ==
  /\ pushes < MaxPush
  /\ Goto(t, "run", "push") /\ Lock(t)
  /\ pushes' = pushes + 1
  /\ UNCHANGED <<current_queue, output_element>>

Push(t, value) ==
  /\ Goto(t, "push", "notify")
  /\ current_queue' = Append(current_queue, value)
  /\ UNCHANGED <<current_mutex, output_element, pushes>>

(* Mistake NotifyNobody: push without its notify_all. *)
NotifyNobody(t) ==
  /\ Goto(t, "notify", "push_unlock")
  /\ UNCHANGED <<current_queue, current_mutex, output_element, pushes>>

(* Every sleeper is woken; each must get the mutex back before it goes on. *)
NotifyAll(t) ==
  /\ pc[t] = "notify"
  /\ pc' = [u \in Threads |-> IF u = t THEN "push_unlock"
                              ELSE IF pc[u] = "wait" THEN "relock" ELSE pc[u]]
  /\ UNCHANGED <<current_queue, current_mutex, output_element, pushes>>

PushUnlock(t) ==
  /\ Goto(t, "push_unlock", "run") /\ Unlock
  /\ UNCHANGED <<current_queue, output_element, pushes>>
--------------------------------------------------------------------------------
(* pop_with_check_and_wait *)

(* Mistake PopByAnyThread: an epoll thread waits for commands as well. *)
PopByAnyThread(t) ==
  /\ Goto(t, "run", "test") /\ Lock(t)
  /\ UNCHANGED <<current_queue, output_element, pushes>>

PopLock(t) ==
  /\ t \in Consumers
  /\ Goto(t, "run", "test") /\ Lock(t)
  /\ UNCHANGED <<current_queue, output_element, pushes>>

(* Mistake WaitHoldingTheMutex: sleep without giving the mutex back. *)
WaitHoldingTheMutex(t) ==
  /\ current_queue = <<>>
  /\ Goto(t, "test", "wait")
  /\ UNCHANGED <<current_queue, current_mutex, output_element, pushes>>

(* cond_var.wait: the mutex is released and the thread sleeps, in one step. *)
Wait(t) ==
  /\ current_queue = <<>>
  /\ Goto(t, "test", "wait") /\ Unlock
  /\ UNCHANGED <<current_queue, output_element, pushes>>

SpuriousWake(t) ==
  /\ Goto(t, "wait", "relock")
  /\ UNCHANGED <<current_queue, current_mutex, output_element, pushes>>

Relock(t) ==
  /\ Goto(t, "relock", "test") /\ Lock(t)
  /\ UNCHANGED <<current_queue, output_element, pushes>>

(* Mistake TakeWithoutPop: front() without pop(). *)
TakeWithoutPop(t) ==
  /\ current_queue # <<>>
  /\ Goto(t, "test", "pop_unlock")
  /\ output_element' = [output_element EXCEPT ![t] = Head(current_queue)]
  /\ UNCHANGED <<current_queue, current_mutex, pushes>>

Take(t) ==
  /\ current_queue # <<>>
  /\ Goto(t, "test", "pop_unlock")
  /\ output_element' = [output_element EXCEPT ![t] = Head(current_queue)]
  /\ current_queue' = Tail(current_queue)
  /\ UNCHANGED <<current_mutex, pushes>>

PopUnlock(t) ==
  /\ Goto(t, "pop_unlock", "run") /\ Unlock
  /\ UNCHANGED <<current_queue, output_element, pushes>>
--------------------------------------------------------------------------------
(* The steps a running thread takes once it is in a call, and a worker's   *)
(* next pop: its loop (server_work.cpp:35) always comes back for one.      *)
Step(t) ==
  \/ \E value \in Commands : Push(t, value)
  \/ NotifyAll(t) \/ PushUnlock(t)
  \/ PopLock(t) \/ Wait(t) \/ Relock(t) \/ Take(t) \/ PopUnlock(t)

Next == \E t \in Threads : Step(t) \/ PushLock(t) \/ SpuriousWake(t)

Spec == Init /\ [][Next]_vars

(* The operating system runs every thread; nothing promises that a caller  *)
(* pushes again or that a wait wakes up on its own.                        *)
FairSpec == Spec /\ \A t \in Threads : WF_vars(Step(t))
--------------------------------------------------------------------------------
(* The mutex is owned by exactly the thread that is between a lock and the *)
(* matching unlock of push or pop_with_check_and_wait (a wait gives it     *)
(* back), so two threads never touch the std::queue together.              *)
MutexOwner == \A t \in Threads : pc[t] \in Owning <=> current_mutex = t

(* No lost wake-up: commands wait in the queue while a worker sleeps only  *)
(* in the short time between the append and the notify_all of one push.    *)
NoLostWakeup ==
  (current_queue # <<>> /\ \E c \in Consumers : pc[c] = "wait")
    => \E t \in Threads : pc[t] = "notify"

(* The queue with its mutex and condition variable is a FIFO that delivers *)
(* each command once and leaves none behind (CommandQueue!FairSpec).       *)
Abstract == INSTANCE CommandQueue
              WITH queue <- current_queue, output <- output_element

ImplementsFifo == Abstract!FairSpec
================================================================================
