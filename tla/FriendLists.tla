------------------------------- MODULE FriendLists -------------------------------
(***************************************************************************)
(* The friends list and the list of friendship requests, from the tables   *)
(* of Friendship to the buttons of the client: get_friends_list and        *)
(* get_friends_requests make a text of the rows, Command carries it in an  *)
(* array of DataSize bytes, friends_list_show and friends_requests_show    *)
(* take it apart again.                                                    *)
(*                                                                         *)
(* A login is a CHAR(15) column: its letters, filled up with blanks.  A    *)
(* text is a sequence of one-letter strings.                               *)
(***************************************************************************)
EXTENDS Friendship, SequencesExt

CONSTANTS Letters,    \* per login: what its owner typed
          LoginSize,  \* columns of a login, 15
          DataSize,   \* bytes of Command::data, 500
          EmptyLimit, \* superfluous blanks a list of requests may have, 15
          Garbage     \* what may lie behind Command::data in memory

(* Characters that registration accepts (64 to 126, connect.cpp:499) and   *)
(* the lists do not show (65 to 125, connect.cpp:397, 453): '@' and '~'.   *)
Unshown == {"@", "~"}
Visible(c) == c \notin {" ", "+"} \cup Unshown

ASSUME LettersAssumption ==
  /\ DOMAIN Letters = Logins
  /\ \A l \in Logins : Len(Letters[l]) \in 0 .. LoginSize /\ ~Contains(Letters[l], " ")
ASSUME SizeAssumption ==
  /\ LoginSize \in Nat /\ EmptyLimit \in Nat /\ DataSize > 0
  /\ \A g \in Garbage : ToSet(g) \subseteq {" ", "+"} \cup Unshown \cup UNION {ToSet(Letters[l]) : l \in Logins}

(* send_auth_data_slot and communication_request_processing fill a name up *)
(* to the width of the column.                                             *)
Padded(name) == name \o [i \in 1 .. LoginSize - Len(name) |-> " "]

Column(login) == Padded(Letters[login])
--------------------------------------------------------------------------------
(* The SELECTs return their rows in no particular order. *)
Get_friends_list(caller) == SetToSeqs({l \in accounts : Check_friend(caller, l)})
Get_friendship_requests(caller) == SetToSeqs({l \in accounts : <<l, caller>> \in requests})

(* A friend in login_to_socket gets a '+'. *)
get_friends_list(rows, online) ==
  FlattenSeq([i \in DOMAIN rows |-> <<IF rows[i] \in online THEN "+" ELSE " ">> \o Column(rows[i])])

get_friends_requests(rows) == FlattenSeq([i \in DOMAIN rows |-> Column(rows[i])])

(* set_data, transform_command, set_command, get_data: strncpy ends a text *)
(* that is shorter than the array with zeros.  It cuts a longer one off    *)
(* without an end, and get_data reads on behind the array.                 *)
get_data(text) ==
  IF Len(text) < DataSize THEN {text} ELSE {SubSeq(text, 1, DataSize) \o g : g \in Garbage}

(* Mistake LastColumnLost: the columns are counted from the status on. *)
LastColumnLost(data) ==
  LET width == LoginSize + 1
      Cell(i) == SubSeq(data, width * (i - 1) + 1, IF width * i < Len(data) THEN width * i - 1 ELSE Len(data))
  IN [i \in 1 .. (Len(data) + LoginSize) \div width |->
        [login |-> SelectSeq(Tail(Cell(i)), Visible), online |-> Head(Cell(i)) = "+"]]

(* The loop looks for the end of the text behind a cell's status only: a   *)
(* text that ends with a status is read beyond its end, for ever.          *)
Ends(data) == Len(data) % (LoginSize + 1) # 1

(* One button per cell of status and login; LoginSize columns are never    *)
(* more than EmptyLimit blanks, so every cell makes a button.              *)
friends_list_show(data) ==
  LET width == LoginSize + 1
      Cell(i) == SubSeq(data, width * (i - 1) + 1, IF width * i < Len(data) THEN width * i ELSE Len(data))
  IN [i \in 1 .. (Len(data) + LoginSize) \div width |->
        [login |-> SelectSeq(Tail(Cell(i)), Visible), online |-> Head(Cell(i)) = "+"]]

(* Mistake StopAtTheLimit: as many blanks as the limit are too many. *)
StopAtTheLimit(empty) == empty >= EmptyLimit

Stop(empty) == empty > EmptyLimit

(* A name ends at the first blank behind it.  The other blanks are counted *)
(* over the whole text and end the list when they are too many; a name     *)
(* without a blank behind it runs into the next one or is lost.            *)
friends_requests_show(data) ==
  LET scan[j \in 0 .. Len(data)] ==
        IF j = 0 THEN [requests |-> <<>>, buf |-> <<>>, empty |-> 0]
        ELSE LET s == scan[j - 1] IN
             CASE Stop(s.empty) -> s
               [] Visible(data[j]) -> [s EXCEPT !.buf = Append(@, data[j])]
               [] data[j] = " " /\ s.buf # <<>> -> [s EXCEPT !.requests = Append(@, s.buf), !.buf = <<>>]
               [] data[j] = " " /\ s.buf = <<>> -> [s EXCEPT !.empty = @ + 1]
               [] OTHER -> s
  IN scan[Len(data)].requests
--------------------------------------------------------------------------------
(* A login whose characters are all shown. *)
Clean(login) == \A i \in DOMAIN Letters[login] : Visible(Letters[login][i])

(* As many columns of the given width as arrive whole. *)
Whole(rows, width) == IF Len(rows) * width < DataSize THEN Len(rows) ELSE DataSize \div width

(* Whoever asks for his friends gets a button for each whose cell arrives  *)
(* whole, whatever order the rows come in and whoever is on line: in that  *)
(* order, enabled for those on line, and addressing that friend.  Nobody   *)
(* else gets a button as long as the text fits (friends_list_show).        *)
FriendsListExact ==
  \A caller \in accounts : \A rows \in Get_friends_list(caller) : \A online \in SUBSET ToSet(rows) :
    \A data \in get_data(get_friends_list(rows, online)) : Ends(data) =>
      LET shown == friends_list_show(data) whole == Whole(rows, LoginSize + 1) IN
        /\ \A i \in 1 .. whole :
             /\ shown[i].online <=> rows[i] \in online
             /\ Clean(rows[i]) => Padded(shown[i].login) = Column(rows[i])
        /\ whole = Len(rows) => Len(shown) = Len(rows)

(* The blanks behind a login beyond the one that ends it. *)
Blanks(login) == LoginSize - Len(Letters[login]) - 1

Plain(login) == Clean(login) /\ Letters[login] # <<>> /\ Blanks(login) >= 0

(* Whoever asks for the requests to him gets a button for the first two    *)
(* and for all whose predecessors leave no more than EmptyLimit blanks, in *)
(* order and addressing the sender: by answering them he gets to the rest. *)
(* Senders with an empty, a full or an unshown login spoil the list from   *)
(* there on (friends_requests_show).                                       *)
RequestsListed ==
  \A caller \in accounts : \A rows \in Get_friendship_requests(caller) :
    \A data \in get_data(get_friends_requests(rows)) :
      LET shown == friends_requests_show(data) IN
        \A n \in 1 .. Whole(rows, LoginSize) : (\A i \in 1 .. n : Plain(rows[i])) =>
          /\ n <= Len(shown) => Padded(shown[n]) = Column(rows[n])
          /\ n <= 2 \/ FoldLeft(LAMBDA sum, l : sum + Blanks(l), 0, SubSeq(rows, 1, n - 1)) <= EmptyLimit
               => n <= Len(shown)
================================================================================
