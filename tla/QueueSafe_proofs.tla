---------------------------- MODULE QueueSafe_proofs ----------------------------
(***************************************************************************)
(* The safety of queue_safe for any number of threads, any commands and    *)
(* any number of pushes: mutual exclusion, no lost wake-up, and the steps  *)
(* of the mutex and condition variable as steps of a FIFO.                 *)
(***************************************************************************)
EXTENDS QueueSafe, TLAPS

(* NoLostWakeup is inductive together with the ownership of the mutex:     *)
(* while one thread takes a command no other is in the middle of a push.   *)
IInv == TypeOK /\ MutexOwner /\ NoLostWakeup

LEMMA InitIInv == Init => IInv
BY ThreadAssumption, BoundAssumption DEF Init, IInv, TypeOK, MutexOwner, NoLostWakeup, Owning

(* Each step of each thread keeps the invariant. *)
LEMMA NextIInv == IInv /\ [Next]_vars => IInv'
<1> SUFFICES ASSUME IInv, [Next]_vars PROVE IInv'
  OBVIOUS
<1> USE ThreadAssumption, BoundAssumption DEF IInv, TypeOK, MutexOwner, NoLostWakeup, Owning, Goto, Lock, Unlock
<1>1. ASSUME NEW t \in Threads, PushLock(t) PROVE IInv'
  BY <1>1 DEF PushLock
<1>2. ASSUME NEW t \in Threads, NEW value \in Commands, Push(t, value) PROVE IInv'
  BY <1>2 DEF Push
<1>3. ASSUME NEW t \in Threads, NotifyAll(t) PROVE IInv'
  BY <1>3 DEF NotifyAll
<1>4. ASSUME NEW t \in Threads, PushUnlock(t) PROVE IInv'
  BY <1>4 DEF PushUnlock
<1>5. ASSUME NEW t \in Threads, PopLock(t) PROVE IInv'
  BY <1>5 DEF PopLock
<1>6. ASSUME NEW t \in Threads, Wait(t) PROVE IInv'
  BY <1>6 DEF Wait
<1>7. ASSUME NEW t \in Threads, SpuriousWake(t) PROVE IInv'
  BY <1>7 DEF SpuriousWake
<1>8. ASSUME NEW t \in Threads, Relock(t) PROVE IInv'
  BY <1>8 DEF Relock
<1>9. ASSUME NEW t \in Threads, Take(t) PROVE IInv'
  BY <1>9 DEF Take
<1>10. ASSUME NEW t \in Threads, PopUnlock(t) PROVE IInv'
  BY <1>10 DEF PopUnlock
<1>11. CASE UNCHANGED vars
  BY <1>11 DEF vars
<1> QED
  BY <1>1, <1>2, <1>3, <1>4, <1>5, <1>6, <1>7, <1>8, <1>9, <1>10, <1>11 DEF Next, Step

(* The inductive invariant holds throughout every behaviour of queue_safe. *)
THEOREM Invariance == Spec => []IInv
<1>1. Init => IInv
  BY InitIInv
<1>2. IInv /\ [Next]_vars => IInv'
  BY NextIInv
<1> QED
  BY <1>1, <1>2, PTL DEF Spec

(* queue_safe.h: only the workers ever test, wait for or pop the queue.    *)
THEOREM TypeCorrect == Spec => []TypeOK
<1>1. IInv => TypeOK
  BY DEF IInv
<1> QED
  BY <1>1, Invariance, PTL

(* queue_safe.h: only the owner of current_mutex touches the std::queue. *)
THEOREM MutualExclusion == Spec => []MutexOwner
<1>1. IInv => MutexOwner
  BY DEF IInv
<1> QED
  BY <1>1, Invariance, PTL

(* queue_safe.h: a push never leaves a worker asleep beside its command. *)
THEOREM WakeupsAreNotLost == Spec => []NoLostWakeup
<1>1. IInv => NoLostWakeup
  BY DEF IInv
<1> QED
  BY <1>1, Invariance, PTL

(* queue_safe.h implements the FIFO of CommandQueue: every step is the     *)
(* append of one push, the removal of the head by one worker, or invisible.*)
THEOREM Refinement == Spec => Abstract!Spec
<1>1. Init => Abstract!Init
  BY DEF Init, Abstract!Init
<1>2. IInv /\ [Next]_vars => [Abstract!Next]_(Abstract!vars)
  <2> SUFFICES ASSUME IInv, [Next]_vars PROVE [Abstract!Next]_(Abstract!vars)
    OBVIOUS
  <2> USE DEF Abstract!vars
  <2>1. ASSUME NEW t \in Threads, NEW value \in Commands, Push(t, value)
        PROVE Abstract!Next
    BY <2>1 DEF Push, Abstract!Next, Abstract!Push
  <2>2. ASSUME NEW t \in Threads, Take(t) PROVE Abstract!Next
    BY <2>2 DEF IInv, TypeOK, Take, Goto, Abstract!Next, Abstract!Pop
  <2>3. ASSUME NEW t \in Threads,
               \/ PushLock(t) \/ NotifyAll(t) \/ PushUnlock(t) \/ PopLock(t)
               \/ Wait(t) \/ SpuriousWake(t) \/ Relock(t) \/ PopUnlock(t)
        PROVE UNCHANGED Abstract!vars
    BY <2>3 DEF PushLock, NotifyAll, PushUnlock, PopLock, Wait, SpuriousWake, Relock, PopUnlock
  <2>4. CASE UNCHANGED vars
    BY <2>4 DEF vars
  <2> QED
    BY <2>1, <2>2, <2>3, <2>4 DEF Next, Step
<1> QED
  BY <1>1, <1>2, Invariance, PTL DEF Spec, Abstract!Spec
=================================================================================
