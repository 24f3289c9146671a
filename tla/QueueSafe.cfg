\* The queue with its mutex and condition variable is a FIFO between one epoll
\* thread and two workers: exclusive, without a lost wake-up, and every pushed
\* command is taken.
SPECIFICATION FairSpec
CONSTANTS
  Threads = {handler, worker1, worker2}
  Consumers = {worker1, worker2}
  Commands = {c1, c2}
  NoCommand = NoCommand
  NoThread = NoThread
  MaxPush = 3
INVARIANTS
  TypeOK
  MutexOwner
  NoLostWakeup
PROPERTIES
  ImplementsFifo
