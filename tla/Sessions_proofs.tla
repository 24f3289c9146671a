----------------------------- MODULE Sessions_proofs -----------------------------
(***************************************************************************)
(* The abstract sessions keep dialogues symmetric and waits free of        *)
(* circles, for any set of logins.                                         *)
(***************************************************************************)
EXTENDS Sessions, TLAPS

IInv == TypeOK /\ DialogueSymmetric

(* A step starts or ends a dialogue for both partners.                     *)
LEMMA SymmetryStep ==
  ASSUME NoLogin \notin Logins, IInv, [Next]_session
  PROVE  IInv'
<1> USE DEF IInv, TypeOK, DialogueSymmetric, Offline, Menu, Waiting, Talking
<1>1. ASSUME NEW a \in Logins, LogIn(a) PROVE IInv'
  <2>1. TypeOK'
    BY <1>1 DEF LogIn
  <2>2. DialogueSymmetric'
    BY <1>1 DEF LogIn
  <2> QED
    BY <2>1, <2>2
<1>2. ASSUME NEW a \in Logins, LogOut(a) PROVE IInv'
  <2>1. TypeOK'
    BY <1>2 DEF LogOut
  <2>2. DialogueSymmetric'
    BY <1>2 DEF LogOut
  <2> QED
    BY <2>1, <2>2
<1>3. ASSUME NEW a \in Logins, Withdraw(a) PROVE IInv'
  BY <1>3 DEF Withdraw
<1>4. ASSUME NEW a \in Logins, Close(a) PROVE IInv'
  BY <1>4 DEF Close
<1>5. ASSUME NEW a \in Logins, NEW b \in Logins, Ask(a, b) PROVE IInv'
  BY <1>5 DEF Ask
<1>6. ASSUME NEW a \in Logins, NEW b \in Logins, Accept(a, b) PROVE IInv'
  BY <1>6 DEF Accept
<1>7. CASE UNCHANGED session
  BY <1>7
<1> QED
  BY <1>1, <1>2, <1>3, <1>4, <1>5, <1>6, <1>7 DEF Next

(* A dialogue starts and ends for both partners in the same step.          *)
THEOREM Symmetry ==
  ASSUME NoLogin \notin Logins
  PROVE  Spec => []IInv
<1>1. Init => IInv
  BY DEF Init, IInv, TypeOK, DialogueSymmetric, Offline, Menu, Talking
<1>2. IInv /\ [Next]_session => IInv'
  BY SymmetryStep
<1> QED
  BY <1>1, <1>2, PTL DEF Spec

(* Whoever talks is talked to (the promise behind user_work.cpp:337-338).  *)
THEOREM DialoguesAreSymmetric ==
  ASSUME NoLogin \notin Logins
  PROVE  Spec => []DialogueSymmetric
<1>1. IInv => DialogueSymmetric
  BY DEF IInv
<1> QED
  BY <1>1, Symmetry, PTL

(* No circle of waiting users: the last one to start waiting asked a user  *)
(* who was in the menu, and that user would have to be waiting as well.    *)
THEOREM WaitsAreNotCircular ==
  ASSUME NoLogin \notin Logins
  PROVE  Spec => []NoCircularWait
<1> DEFINE Waits(a, C) == session[a].mode = "in_wait" /\ session[a].with \in C
<1>1. Init => NoCircularWait
  BY DEF Init, NoCircularWait, Offline, Menu
<1>2. TypeOK /\ NoCircularWait /\ [Next]_session => NoCircularWait'
  <2> SUFFICES ASSUME TypeOK, NoCircularWait, [Next]_session, NEW C \in SUBSET Logins, C # {}
               PROVE \E a \in C : ~Waits(a, C)'
    BY DEF NoCircularWait
  <2>1. PICK w \in C : ~Waits(w, C)
    BY DEF NoCircularWait
  <2>2. ASSUME NEW a \in Logins, LogIn(a) \/ LogOut(a) \/ Withdraw(a) PROVE ~Waits(w, C)'
    BY <2>1, <2>2 DEF TypeOK, LogIn, LogOut, Withdraw, Offline, Menu, Talking
  <2>3. ASSUME NEW a \in Logins, Close(a) PROVE ~Waits(w, C)'
    BY <2>1, <2>3 DEF TypeOK, Close, Offline, Menu
  <2>4. ASSUME NEW a \in Logins, NEW b \in Logins, Accept(a, b) PROVE ~Waits(w, C)'
    BY <2>1, <2>4 DEF TypeOK, Accept, Talking
  <2>5. ASSUME NEW a \in Logins, NEW b \in Logins, Ask(a, b) PROVE \E v \in C : ~Waits(v, C)'
    <3>1. CASE b \in C
      BY <3>1, <2>5 DEF TypeOK, Ask, Menu
    <3>2. CASE b \notin C
      BY <3>2, <2>1, <2>5 DEF TypeOK, Ask, Menu, Waiting
    <3> QED
      BY <3>1, <3>2
  <2>6. CASE UNCHANGED session
    BY <2>1, <2>6
  <2> QED
    BY <2>1, <2>2, <2>3, <2>4, <2>5, <2>6 DEF Next
<1>3. IInv => TypeOK
  BY DEF IInv
<1> QED
  BY <1>1, <1>2, <1>3, Symmetry, PTL DEF Spec
==================================================================================
