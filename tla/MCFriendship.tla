------------------------------ MODULE MCFriendship -------------------------------
(***************************************************************************)
(* Friendship with the lists its accounts are shown, for TLC.  VIEW is db: *)
(* the last reply takes part in action properties only, which TLC checks   *)
(* on every step.                                                          *)
(***************************************************************************)
EXTENDS FriendLists

CONSTANTS anna, boris, vera, gleb

(* The shortest login, two that together leave as many blanks as allowed,  *)
(* and one that fills its column.                                          *)
Typed ==
  [l \in Logins |->
     CASE l = anna -> <<"a">>
       [] l = boris -> <<"b", "o", "r", "i", "s", "o", "v">>
       [] l = vera -> <<"v", "e", "r", "a", "v", "e">>
       [] OTHER -> <<"g", "l", "e", "b", "s", "e", "r", "g", "e", "e", "v", "i", "c", "h", "b">>]

(* Nothing, the start of another cell, or a few letters. *)
Leftovers == {<<>>, <<"+", "a">>, <<"r", "a">>}
==================================================================================
