------------------------------- MODULE Friendship -------------------------------
(***************************************************************************)
(* The persistent half of the server: the tables "Users" and               *)
(* "Friendship_requests", the stored procedures of dark_chat.backup, and   *)
(* the calls of Database_Handle that run them.  Every call holds db_mutex  *)
(* (database_handle.cpp:36, 56), so one procedure runs at a time.  A call  *)
(* fails when pqxx throws: before anything happened, or in the commit,     *)
(* when the transaction may already be durable; the client is told "error" *)
(* both times.                                                             *)
(*                                                                         *)
(* The caller is the account whose db_id the worker copied under the lock  *)
(* before the call; NoLogin is the db_id -1 of a connection that has       *)
(* logged off in between (user.cpp:70).                                    *)
(***************************************************************************)
EXTENDS Sequences, Naturals

CONSTANTS Logins,   \* the logins a user may register
          NoLogin,  \* "nobody"
          DbFails   \* TRUE: a call of the database may fail

ASSUME LoginAssumption == NoLogin \notin Logins
ASSUME DbAssumption == DbFails \in BOOLEAN

VARIABLES accounts,  \* the rows of "Users"
          friends,   \* "Users"."Friends" (bigint[], NULL as <<>>)
          requests,  \* the rows <<"Sender", "Reciever">> of "Friendship_requests"
          reply      \* what the last call made the server answer

db == <<accounts, friends, requests>>
vars == <<accounts, friends, requests, reply>>

Callers == Logins \cup {NoLogin}
Replies == [operation : {"registration", "make", "accept", "discard"},
            caller : Callers, login : Callers, success : BOOLEAN]

(* The columns, the foreign keys and the primary key of the two tables.    *)
TypeOK ==
  /\ accounts \subseteq Logins
  /\ friends \in [Logins -> Seq(Logins)]
  /\ \A a \in Logins \ accounts : friends[a] = <<>>
  /\ requests \subseteq accounts \X accounts
  /\ \A r, s \in requests : r[1] = s[1] => r = s
  /\ reply \in Replies

(* The dump starts with mutual friendships and no requests; its rows are   *)
(* reachable from empty tables, so the model starts there.                 *)
Init ==
  /\ accounts = {}
  /\ friends = [a \in Logins |-> <<>>]
  /\ requests = {}
  /\ reply = [operation |-> "registration", caller |-> NoLogin, login |-> NoLogin, success |-> FALSE]
--------------------------------------------------------------------------------
(* "Check_friend": b = ANY("Friends") of a. *)
Check_friend(a, b) == \E i \in DOMAIN friends[a] : friends[a][i] = b

(* A transaction that committed and returned true; when the database fails *)
(* in the commit the client hears of an error although it took effect.     *)
Committed(operation, caller, login) ==
  \E success \in {TRUE} \cup (IF DbFails THEN {FALSE} ELSE {}) :
    reply' = [operation |-> operation, caller |-> caller, login |-> login, success |-> success]

(* A procedure that returned 0, or a call that threw before its commit. *)
Refused(operation, caller, login) ==
  /\ reply' = [operation |-> operation, caller |-> caller, login |-> login, success |-> FALSE]
  /\ UNCHANGED db
--------------------------------------------------------------------------------
Register(login) ==
  /\ accounts' = accounts \cup {login}
  /\ friends' = [friends EXCEPT ![login] = <<>>]
  /\ UNCHANGED requests
  /\ Committed("registration", NoLogin, login)

(* Mistake RegisterAgain: the COUNT of equal logins is dropped. *)
RegisterAgain(login) == Register(login)

Registration(login) ==
  \/ login \notin accounts /\ Register(login)
  \/ (login \in accounts \/ DbFails) /\ Refused("registration", NoLogin, login)

(* Mistake MayRequestCrossing: only the caller's direction is looked up. *)
MayRequestCrossing(caller, login) ==
  /\ caller \in accounts /\ login \in accounts /\ login # caller
  /\ ~Check_friend(caller, login)
  /\ <<caller, login>> \notin requests

(* "Make_friendship_request": both exist, differ, are not friends, and no  *)
(* request is pending between them in either direction ...                 *)
MayRequest(caller, login) ==
  /\ caller \in accounts /\ login \in accounts /\ login # caller
  /\ ~Check_friend(caller, login)
  /\ <<caller, login>> \notin requests /\ <<login, caller>> \notin requests

(* Mistake SenderIsNoKey: the primary key is the pair of both columns. *)
SenderIsNoKey(caller) == FALSE

(* ... and the INSERT meets the primary key, which is "Sender" alone: it   *)
(* throws while the sender has any other request pending.                  *)
SenderHasARequest(caller) == \E r \in requests : r[1] = caller

Make_friendship_request(caller, login) ==
  \/ /\ MayRequest(caller, login) /\ ~SenderHasARequest(caller)
     /\ requests' = requests \cup {<<caller, login>>}
     /\ UNCHANGED <<accounts, friends>>
     /\ Committed("make", caller, login)
  \/ /\ ~MayRequest(caller, login) \/ SenderHasARequest(caller) \/ DbFails
     /\ Refused("make", caller, login)

(* "SELECT COUNT( * ) ... Friendship_requests" of the answering procedures. *)
Pending(sender, reciever) == <<sender, reciever>> \in requests

(* Mistake AcceptUnasked: the answering procedures do not look the request *)
(* up.                                                                     *)
AcceptUnasked(caller, login) ==
  /\ caller \in accounts /\ login \in accounts
  /\ friends' = [friends EXCEPT ![login] = Append(@, caller), ![caller] = Append(@, login)]
  /\ requests' = requests \ {<<login, caller>>}
  /\ UNCHANGED accounts
  /\ Committed("accept", caller, login)

(* array_append to both rows, then DELETE of the request. *)
Accept_friendship(caller, login) ==
  \/ /\ Pending(login, caller)
     /\ friends' = [friends EXCEPT ![login] = Append(@, caller), ![caller] = Append(@, login)]
     /\ requests' = requests \ {<<login, caller>>}
     /\ UNCHANGED accounts
     /\ Committed("accept", caller, login)
  \/ (~Pending(login, caller) \/ DbFails) /\ Refused("accept", caller, login)

Discard_friendship_request(caller, login) ==
  \/ /\ Pending(login, caller)
     /\ requests' = requests \ {<<login, caller>>}
     /\ UNCHANGED <<accounts, friends>>
     /\ Committed("discard", caller, login)
  \/ (~Pending(login, caller) \/ DbFails) /\ Refused("discard", caller, login)

Next == \E login \in Logins :
  \/ Registration(login)
  \/ \E caller \in Callers :
       \/ Make_friendship_request(caller, login)
       \/ Accept_friendship(caller, login)
       \/ Discard_friendship_request(caller, login)

Spec == Init /\ [][Next]_vars
--------------------------------------------------------------------------------
(* Friendship is mutual, never with oneself, and listed once: two rows are *)
(* updated by each accept, in doubt commits included, and Check_friend     *)
(* asks only one of them (user_work.cpp:237).                              *)
FriendsAreMutual ==
  \A a, b \in Logins :
    /\ Check_friend(a, b) => Check_friend(b, a) /\ a # b
    /\ \A i, j \in DOMAIN friends[a] : friends[a][i] = friends[a][j] => i = j

(* A pending request is one its receiver can still answer: it is not       *)
(* between friends, not to oneself and not crossed by another, so an       *)
(* accept never adds a friend twice.                                       *)
RequestsAreOpen ==
  \A r \in requests : /\ r[1] # r[2]
                      /\ ~Check_friend(r[1], r[2])
                      /\ <<r[2], r[1]>> \notin requests

(* Nobody becomes or stops being a friend unless one asked and the other   *)
(* accepted, not even when calls fail half-way.                            *)
FriendsByConsent == [][
  \A a, b \in Logins : Check_friend(a, b)' # Check_friend(a, b) =>
    /\ Check_friend(a, b)'
    /\ reply'.operation = "accept"
    /\ \/ reply'.caller = a /\ <<b, a>> \in requests
       \/ reply'.caller = b /\ <<a, b>> \in requests ]_vars
================================================================================
