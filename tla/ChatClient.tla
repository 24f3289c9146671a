------------------------------- MODULE ChatClient -------------------------------
(***************************************************************************)
(* The part of the Qt client (Connect, Menu, Dialog_window) that decides   *)
(* which commands its windows offer and what a server command changes on   *)
(* the screen.  Operators on one client's windows:                         *)
(*   screen  which window is up: "login" (enabled), "submitted" (disabled  *)
(*           after the form was sent) or "chat" (the Menu window)          *)
(*   mode    how Menu is set up: "menu", "wait" or "dialogue"              *)
(*   dialog  what the one Dialog_window shows ("none": it is hidden or     *)
(*           shows a text).  It is not modal: it stays open while the      *)
(*           other windows change, and its buttons keep working            *)
(*   caller  whose session request it shows, NoLogin if it shows none      *)
(***************************************************************************)
EXTENDS User

Dialogs == {"none", "friends", "requests", "request_form", "prompt"}

Windows == [screen : {"login", "submitted", "chat"}, mode : {"menu", "wait", "dialogue"},
            dialog : Dialogs, caller : LoginOrNone]

FreshWindows == [screen |-> "login", mode |-> "menu", dialog |-> "none", caller |-> NoLogin]

(* enum Server_responses.  A reply to the friends' commands that is a text *)
(* for the user (an error, an empty list, "done") is one message here, as  *)
(* are the two to a registration.  "no_action" is the command with action  *)
(* 0 (user_work.cpp:371).                                                  *)
Responses == {"authentication_successful", "authentication_error", "registration_reply",
              "friends_list", "friends_requests", "friends_reply",
              "communication_request_from_server", "session_accepted",
              "session_refused", "session_establishment_error", "dialog_closed",
              "new_message", "no_action"}

(* The commands that the buttons of the dialog send. *)
DialogMoves == Answers \cup {"communication_request", "make_friend_request",
                             "accept_friendship", "discard_friendship"}

OffersMenu(win) == win.screen = "chat" /\ win.mode = "menu"

(* The commands that the visible widgets can send (client keeps to its     *)
(* windows).                                                               *)
Offers(win, action, login) ==
  \/ action \in {"authentication", "registration"} /\ win.screen = "login"
  \/ action \in ListMoves \cup {"leave_from_account"} /\ OffersMenu(win)
  \/ action = "communication_request" /\ win.dialog = "friends"
  \/ action \in {"accept_friendship", "discard_friendship"} /\ win.dialog = "requests"
  \/ action = "make_friend_request" /\ win.dialog = "request_form"
  \/ action \in Answers /\ win.dialog = "prompt" /\ win.caller = login
  \/ action = "send_message" /\ win.screen = "chat" /\ win.mode = "dialogue"
  \/ action = "exit_dialog" /\ win.screen = "chat" /\ win.mode \in {"wait", "dialogue"}

Show(win, dialog) == [win EXCEPT !.dialog = dialog, !.caller = NoLogin]

(* What pressing the button changes before any answer arrives: a button of *)
(* the dialog closes it.  Calling disables the menu's buttons, but not the *)
(* ones of a dialogue that goes on behind the list.                        *)
AfterSending(win, action) ==
  CASE action \in {"authentication", "registration"} -> [win EXCEPT !.screen = "submitted"]
    [] action = "communication_request" ->
         [Show(win, "none") EXCEPT !.mode = IF @ = "dialogue" THEN @ ELSE "wait"]
    [] action \in DialogMoves \ {"communication_request"} -> Show(win, "none")
    [] action = "leave_from_account" -> [Show(win, "none") EXCEPT !.screen = "login"]
    [] action = "exit_dialog" -> [win EXCEPT !.mode = "menu"]
    [] OTHER -> win

(* What a server command changes.  Most of them show their text in the     *)
(* Dialog_window and replace whatever it was showing.                      *)
AfterReceiving(win, message, login) ==
  CASE message = "authentication_successful" -> [win EXCEPT !.screen = "chat"]
    [] message \in {"authentication_error", "registration_reply"} ->
         [Show(win, "none") EXCEPT !.screen = IF @ = "submitted" THEN "login" ELSE @]
    [] message \in {"session_refused", "session_establishment_error", "dialog_closed"} ->
         [Show(win, "none") EXCEPT !.mode = "menu"]
    [] message = "session_accepted" -> [win EXCEPT !.mode = "dialogue"]
    [] message = "communication_request_from_server" ->
         [win EXCEPT !.dialog = "prompt", !.caller = login]
    [] message = "friends_list" -> Show(win, "friends")
    [] message = "friends_requests" -> Show(win, "requests")
    [] message = "friends_reply" -> Show(win, "none")
    [] OTHER -> win
=================================================================================
