-------------------------------- MODULE Sessions --------------------------------
(***************************************************************************)
(* What the server promises its users about each other, one step per       *)
(* promise: who is on line, who waits for whose answer, and who talks to   *)
(* whom.  A dialogue starts for both at once and ends for both at once.    *)
(* UserWork is the implementation, with its workers, locks and tables.     *)
(***************************************************************************)
CONSTANTS Logins, NoLogin

VARIABLE session  \* per login: its mode and, in_wait or in_dialogue, with whom

Offline == [mode |-> "offline", with |-> NoLogin]
Menu == [mode |-> "in_menu", with |-> NoLogin]
Waiting(b) == [mode |-> "in_wait", with |-> b]
Talking(b) == [mode |-> "in_dialogue", with |-> b]

TypeOK ==
  session \in [Logins -> {Offline, Menu} \cup [mode : {"in_wait", "in_dialogue"}, with : Logins]]

Init == session \in [Logins -> {Offline, Menu}]

LogIn(a) == session[a] = Offline /\ session' = [session EXCEPT ![a] = Menu]

(* Leaving, by log-off or by a lost connection, releases the partner. *)
LogOut(a) ==
  /\ session[a] # Offline
  /\ session' = [b \in Logins |-> IF b = a THEN Offline
                                  ELSE IF session[a] = Talking(b) THEN Menu ELSE session[b]]

(* Only a user who is free in the menu can be asked. *)
Ask(a, b) ==
  /\ a # b /\ session[a] = Menu /\ session[b] = Menu
  /\ session' = [session EXCEPT ![a] = Waiting(b)]

(* The asker gives up, is refused, or the asked user is gone. *)
Withdraw(a) == session[a].mode = "in_wait" /\ session' = [session EXCEPT ![a] = Menu]

Accept(b, a) ==
  /\ session[b] = Menu /\ session[a] = Waiting(b)
  /\ session' = [session EXCEPT ![a] = Talking(b), ![b] = Talking(a)]

Close(a) ==
  /\ session[a].mode = "in_dialogue"
  /\ session' = [session EXCEPT ![a] = Menu, ![session[a].with] = Menu]

Next ==
  \/ \E a \in Logins : LogIn(a) \/ LogOut(a) \/ Withdraw(a) \/ Close(a)
  \/ \E a, b \in Logins : Ask(a, b) \/ Accept(a, b)

Spec == Init /\ [][Next]_session
--------------------------------------------------------------------------------
(* Whoever is in a dialogue has a partner who is in a dialogue with him.   *)
DialogueSymmetric ==
  \A a, b \in Logins : session[a] = Talking(b) => a # b /\ session[b] = Talking(a)

(* There is no circle of users each waiting for the next one's answer:     *)
(* in every group somebody is not waiting for a member of the group.       *)
NoCircularWait ==
  \A C \in SUBSET Logins : C # {} =>
    \E a \in C : ~(session[a].mode = "in_wait" /\ session[a].with \in C)
================================================================================
