---------------------------------- MODULE User ----------------------------------
(***************************************************************************)
(* The server's record of one connection (Server/user.h, user.cpp) and the *)
(* access rules applied to it (User_work::authorization).  Operators only. *)
(*                                                                         *)
(* is_authenticated, db_id and privilege are set together with the login   *)
(* (user_work.cpp:94-95) and cleared together with it (log_off), so the    *)
(* login stands for all four; usr_socket is the key of the users map.      *)
(***************************************************************************)
EXTENDS FiniteSets

CONSTANTS Logins,     \* the registered logins
          NoLogin,    \* the login of a connection that is not authenticated
          Privileged  \* the logins whose "Privilege" column is true

ASSUME UserAssumption == NoLogin \notin Logins /\ Privileged \subseteq Logins

LoginOrNone == Logins \cup {NoLogin}

Users == [login : LoginOrNone, status : {"in_menu", "in_wait", "in_dialogue"},
          correspondent_login : LoginOrNone]

New_user == [login |-> NoLogin, status |-> "in_menu", correspondent_login |-> NoLogin]

Authenticated(u) == u.login # NoLogin

set_db_data(u, login) == [u EXCEPT !.login = login]

change_to_response_waiting_mode(u, login) ==
  [u EXCEPT !.status = "in_wait", !.correspondent_login = login]

change_to_dialogue_mode(u, login) ==
  [u EXCEPT !.status = "in_dialogue", !.correspondent_login = login]

(* Mistake ForgetCorrespondent: the empty argument overwrites the correspondent. *)
ForgetCorrespondent(u) == [u EXCEPT !.status = "in_dialogue", !.correspondent_login = NoLogin]

(* change_to_dialogue_mode(""): the user already waits for this correspondent. *)
keep_correspondent_in_dialogue(u) == [u EXCEPT !.status = "in_dialogue"]

(* Mistake KeepTheMode: the correspondent is forgotten, the mode is not. *)
KeepTheMode(u) == [u EXCEPT !.correspondent_login = NoLogin]

change_to_menu_mode(u) == [u EXCEPT !.status = "in_menu", !.correspondent_login = NoLogin]

(* Mistake KeepTheLogin: logging off leaves the login in the record. *)
KeepTheLogin(u) == [New_user EXCEPT !.login = u.login]

log_off(u) == New_user
---------------------------------------------------------------------------------
(* enum User_moves.  A communication_response carries '1' or '0' in front  *)
(* of the login; the two answers are two moves here.  "unknown" is any     *)
(* action that is no member of the enum.                                   *)
ListMoves == {"get_friends_list", "get_friends_requests"}
FriendMoves == ListMoves \cup {"accept_friendship", "discard_friendship", "make_friend_request"}
Answers == {"response_yes", "response_no"}
UserMoves == {"authentication", "registration", "communication_request", "send_message",
              "exit_dialog", "leave_from_account", "unknown"} \cup Answers \cup FriendMoves

(* Mistake NoWayOut: a user who waits may not even give up. *)
NoWayOut(u, action) ==
  /\ ~Authenticated(u) => action \in {"authentication", "registration"}
  /\ u.login \notin Privileged => action # "unknown"
  /\ u.status = "in_dialogue" => action \in {"send_message", "exit_dialog"}
  /\ u.status # "in_wait"

(* Which command a user of this record may have executed; any other one    *)
(* costs the user the connection.                                          *)
Authorized(u, action) ==
  /\ ~Authenticated(u) => action \in {"authentication", "registration"}
  /\ u.login \notin Privileged => action # "unknown"
  /\ u.status = "in_dialogue" => action \in {"send_message", "exit_dialog"}
  /\ u.status = "in_wait" => action = "exit_dialog"
=================================================================================
