------------------------------- MODULE MCDarkChat -------------------------------
(* Instances of DarkChat for TLC. *)
EXTENDS DarkChat, TLC

CONSTANTS anna, boris, vera,   \* logins
          fd1, fd2, fd3        \* descriptors

AllPairs == {p \in Logins \X Logins : p[1] # p[2]}

Own(fd) == CASE fd = fd1 -> anna [] fd = fd2 -> boris [] OTHER -> vera
OwnAccount == [fd \in Fds |-> {Own(fd)}]

(* The menu, with the friends list shown already. *)
ChatWindows == [FreshWindows EXCEPT !.screen = "chat", !.dialog = "friends"]

(* Every client is logged in and sees the menu. *)
LoggedIn ==
  /\ users = [fd \in Fds |-> [New_user EXCEPT !.login = Own(fd)]]
  /\ login_to_socket = [login \in {users[fd].login : fd \in Fds} |-> CHOOSE fd \in Fds : users[fd].login = login]
  /\ commands = <<>> /\ pending = {}
  /\ sockets = Fds /\ win = [fd \in Fds |-> ChatWindows]
  /\ pc = [w \in Workers |-> "idle"] /\ cmd = [w \in Workers |-> NoCommand]
  /\ held = [w \in Workers |-> NoCopies] /\ out = [w \in Workers |-> <<>>]
  /\ NoneUnderWay /\ crossed = {} /\ overtaken = {}

LoggedInSpec == LoggedIn /\ [][NextTransmit]_allVars

WorkerSymmetry == Permutations(Workers)
=================================================================================
