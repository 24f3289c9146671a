------------------------------- MODULE MCUserWork -------------------------------
(* Instances of UserWork for TLC. *)
EXTENDS UserWorkProperties, TLC

CONSTANTS anna, boris, vera,   \* logins
          fd1, fd2, fd3        \* descriptors

(* Everybody is everybody's friend. *)
AllPairs == {p \in Logins \X Logins : p[1] # p[2]}

(* Everybody's window offers the next one only. *)
Ring == {<<anna, boris>>, <<boris, vera>>, <<vera, anna>>}

(* Everybody but boris and vera. *)
AllButOne == AllPairs \ {<<boris, vera>>, <<vera, boris>>}

(* Each connection has a login of its own, *)
Own(fd) == CASE fd = fd1 -> anna [] fd = fd2 -> boris [] OTHER -> vera
OwnAccount == [fd \in Fds |-> {Own(fd)}]

(* or all connections try the same logins. *)
SharedAccounts == [fd \in Fds |-> Logins]

(* The menu, with the friends list shown already. *)
ChatWindows == [FreshWindows EXCEPT !.screen = "chat", !.dialog = "friends"]

(* Every client is logged in and sees the menu. *)
LoggedIn ==
  /\ users = [fd \in Fds |-> [New_user EXCEPT !.login = Own(fd)]]
  /\ login_to_socket = [login \in {users[fd].login : fd \in Fds} |-> CHOOSE fd \in Fds : users[fd].login = login]
  /\ commands = <<>> /\ pending = {}
  /\ sockets = Fds /\ win = [fd \in Fds |-> ChatWindows]
  /\ pc = [w \in Workers |-> "idle"] /\ cmd = [w \in Workers |-> NoCommand]
  /\ held = [w \in Workers |-> NoCopies] /\ out = [w \in Workers |-> <<>>]

LoggedInSpec == LoggedIn /\ [][Next]_vars

WorkerSymmetry == Permutations(Workers)
=================================================================================
