----------------------------- MODULE CommandQueue -----------------------------
(***************************************************************************)
(* What the server expects of the queue between its epoll threads and its  *)
(* workers (Server_Handle::commands, Server_Work::commands): every pushed  *)
(* command is handed to exactly one consumer, in the order of the pushes,  *)
(* and no command is left behind while consumers still ask for one.        *)
(* QueueSafe is the implementation with its mutex and condition variable.  *)
(***************************************************************************)
EXTENDS Sequences

CONSTANTS Commands,   \* the values that are queued
          Consumers,  \* the threads that pop
          NoCommand   \* what a consumer holds before its first command

VARIABLES queue,      \* the pushed commands nobody has taken yet
          output      \* per consumer: the last command it took

vars == <<queue, output>>

Init == queue = <<>> /\ output = [c \in Consumers |-> NoCommand]

Push(value) == queue' = Append(queue, value) /\ UNCHANGED output

Pop(c) ==
  /\ queue # <<>>
  /\ output' = [output EXCEPT ![c] = Head(queue)]
  /\ queue' = Tail(queue)

Next == (\E value \in Commands : Push(value)) \/ (\E c \in Consumers : Pop(c))

Spec == Init /\ [][Next]_vars

(* Some consumer takes the head whenever there is one. *)
FairSpec == Spec /\ WF_vars(\E c \in Consumers : Pop(c))
===============================================================================
