---------------------------- MODULE Friendship_proofs ----------------------------
(***************************************************************************)
(* For any set of logins and with failing commits allowed: the tables keep *)
(* their keys, friendship stays mutual and listed once, pending requests   *)
(* stay answerable, and a friendship only comes from an accepted request.  *)
(***************************************************************************)
EXTENDS Friendship, TLAPS

(* y = ANY(s) *)
Lists(s, y) == \E i \in DOMAIN s : s[i] = y

(* Appending to the "Friends" array adds exactly the appended friend.      *)
LEMMA AppendMembers ==
  ASSUME NEW S, NEW s \in Seq(S), NEW x \in S
  PROVE \A y : Lists(Append(s, x), y) <=> Lists(s, y) \/ y = x
<1>1. /\ DOMAIN s = 1 .. Len(s) /\ DOMAIN Append(s, x) = 1 .. Len(s) + 1
      /\ Append(s, x)[Len(s) + 1] = x /\ Len(s) \in Nat
      /\ \A i \in 1 .. Len(s) : Append(s, x)[i] = s[i]
  OBVIOUS
<1>2. \A i \in 1 .. Len(s) + 1 : i \in 1 .. Len(s) \/ i = Len(s) + 1
  BY <1>1
<1>3. 1 .. Len(s) \subseteq 1 .. Len(s) + 1 /\ Len(s) + 1 \in 1 .. Len(s) + 1
  BY <1>1
<1> QED
  BY <1>1, <1>2, <1>3 DEF Lists

(* Appending somebody who is not in the array keeps its entries distinct.  *)
LEMMA AppendDistinct ==
  ASSUME NEW S, NEW s \in Seq(S), NEW x \in S,
         \A i, j \in DOMAIN s : s[i] = s[j] => i = j,
         \A i \in DOMAIN s : s[i] # x
  PROVE \A i, j \in DOMAIN Append(s, x) : Append(s, x)[i] = Append(s, x)[j] => i = j
<1>1. /\ DOMAIN s = 1 .. Len(s) /\ DOMAIN Append(s, x) = 1 .. Len(s) + 1
      /\ Append(s, x)[Len(s) + 1] = x /\ Len(s) \in Nat
      /\ \A i \in 1 .. Len(s) : Append(s, x)[i] = s[i]
  OBVIOUS
<1>2. \A i \in 1 .. Len(s) + 1 : i \in 1 .. Len(s) \/ i = Len(s) + 1
  BY <1>1
<1> QED
  BY <1>1, <1>2

(* Mutual friends alone is not inductive: an accept keeps it because the   *)
(* request it consumes was still open.                                     *)
IInv == TypeOK /\ FriendsAreMutual /\ RequestsAreOpen

LEMMA InitIInv == Init => IInv
BY LoginAssumption DEF Init, IInv, TypeOK, FriendsAreMutual, RequestsAreOpen, Check_friend, Replies, Callers

(* The reply record of every call is well formed. *)
LEMMA ReplyType ==
  ASSUME NEW operation \in {"registration", "make", "accept", "discard"},
         NEW caller \in Callers, NEW login \in Callers,
         Committed(operation, caller, login) \/ Refused(operation, caller, login)
  PROVE reply' \in Replies
<1>1. \E success \in BOOLEAN :
        reply' = [operation |-> operation, caller |-> caller, login |-> login, success |-> success]
  BY DbAssumption DEF Committed, Refused
<1> QED
  BY <1>1 DEF Replies

(* What one accept does to both "Friends" columns. *)
LEMMA AcceptEffect ==
  ASSUME IInv, NEW caller \in Logins, NEW login \in Logins, caller # login,
         friends' = [friends EXCEPT ![login] = Append(@, caller), ![caller] = Append(@, login)]
  PROVE /\ friends' \in [Logins -> Seq(Logins)]
        /\ friends'[login] = Append(friends[login], caller)
        /\ friends'[caller] = Append(friends[caller], login)
        /\ \A a \in Logins \ {caller, login} : friends'[a] = friends[a]
        /\ \A a, b \in Logins : Check_friend(a, b)' <=>
             Check_friend(a, b) \/ <<a, b>> = <<caller, login>> \/ <<a, b>> = <<login, caller>>
<1>1. friends \in [Logins -> Seq(Logins)]
  BY DEF IInv, TypeOK
<1>2. friends' \in [Logins -> Seq(Logins)]
  <2>1. Append(friends[login], caller) \in Seq(Logins) /\ Append(friends[caller], login) \in Seq(Logins)
    BY <1>1
  <2>2. \A a \in Logins : friends'[a] = IF a = caller THEN Append(friends[caller], login)
                                    ELSE IF a = login THEN Append(friends[login], caller) ELSE friends[a]
    BY <1>1
  <2>3. DOMAIN friends' = Logins /\ friends' = [a \in Logins |-> friends'[a]]
    BY <1>1
  <2> QED
    BY <1>1, <2>1, <2>2, <2>3
<1>3. /\ friends'[login] = Append(friends[login], caller)
      /\ friends'[caller] = Append(friends[caller], login)
      /\ \A a \in Logins \ {caller, login} : friends'[a] = friends[a]
  BY <1>1
<1>4. ASSUME NEW a \in Logins, NEW b \in Logins
      PROVE Check_friend(a, b)' <=>
             Check_friend(a, b) \/ <<a, b>> = <<caller, login>> \/ <<a, b>> = <<login, caller>>
  <2>1. CASE a = caller
    <3>1. friends[a] \in Seq(Logins)
      BY <1>1
    <3>2. Lists(Append(friends[a], login), b) <=> Lists(friends[a], b) \/ b = login
      BY <3>1, AppendMembers
    <3> QED
      BY <2>1, <1>3, <3>2 DEF Check_friend, Lists
  <2>2. CASE a = login
    <3>1. friends[a] \in Seq(Logins)
      BY <1>1
    <3>2. Lists(Append(friends[a], caller), b) <=> Lists(friends[a], b) \/ b = caller
      BY <3>1, AppendMembers
    <3> QED
      BY <2>2, <1>3, <3>2 DEF Check_friend, Lists
  <2>3. CASE a \notin {caller, login}
    BY <2>3, <1>3 DEF Check_friend
  <2> QED
    BY <2>1, <2>2, <2>3
<1> QED
  BY <1>2, <1>3, <1>4

(* A call that leaves both "Friends" alone and adds no request is harmless.*)
LEMMA Harmless ==
  ASSUME IInv, UNCHANGED <<accounts, friends>>, requests' \subseteq requests, reply' \in Replies
  PROVE IInv'
<1>1. TypeOK'
  BY DEF IInv, TypeOK
<1>2. \A a, b : Check_friend(a, b)' <=> Check_friend(a, b)
  BY DEF Check_friend
<1>3. FriendsAreMutual'
  BY <1>2 DEF IInv, FriendsAreMutual
<1>4. RequestsAreOpen'
  BY <1>2 DEF IInv, RequestsAreOpen
<1> QED
  BY <1>1, <1>3, <1>4 DEF IInv

(* Each procedure keeps the invariant, whether its call fails or not.      *)
LEMMA NextIInv == IInv /\ [Next]_vars => IInv'
<1> SUFFICES ASSUME IInv, [Next]_vars PROVE IInv'
  OBVIOUS
<1>1. ASSUME NEW operation \in {"registration", "make", "accept", "discard"},
             NEW caller \in Callers, NEW login \in Logins, Refused(operation, caller, login)
      PROVE IInv'
  <2>1. reply' \in Replies
    BY <1>1, ReplyType DEF Callers
  <2> QED
    BY <1>1, <2>1, Harmless DEF Refused, db
<1>2. ASSUME NEW login \in Logins, login \notin accounts, Register(login) PROVE IInv'
  <2>1. reply' \in Replies
    BY <1>2, ReplyType DEF Register, Callers
  <2>2. friends' = friends
    <3>1. friends' = [friends EXCEPT ![login] = <<>>]
      BY <1>2 DEF Register
    <3>2. friends \in [Logins -> Seq(Logins)] /\ friends[login] = <<>>
      BY <1>2 DEF IInv, TypeOK
    <3> QED
      BY <3>1, <3>2
  <2>3. TypeOK'
    BY <1>2, <2>1, <2>2 DEF Register, IInv, TypeOK
  <2>4. \A a, b : Check_friend(a, b)' <=> Check_friend(a, b)
    BY <2>2 DEF Check_friend
  <2>5. requests' = requests
    BY <1>2 DEF Register
  <2> QED
    BY <2>2, <2>3, <2>4, <2>5 DEF IInv, FriendsAreMutual, RequestsAreOpen
<1>3. ASSUME NEW caller \in Callers, NEW login \in Logins,
             MayRequest(caller, login), ~SenderHasARequest(caller),
             requests' = requests \cup {<<caller, login>>}, UNCHANGED <<accounts, friends>>,
             Committed("make", caller, login)
      PROVE IInv'
  <2>1. reply' \in Replies
    BY <1>3, ReplyType DEF Callers
  <2>2. TypeOK'
    <3>1. \A r, s \in requests' : r[1] = s[1] => r = s
      BY <1>3 DEF IInv, TypeOK, SenderHasARequest
    <3>2. requests' \subseteq accounts \X accounts
      BY <1>3 DEF IInv, TypeOK, MayRequest
    <3> QED
      BY <1>3, <2>1, <3>1, <3>2 DEF IInv, TypeOK
  <2>3. FriendsAreMutual'
    BY <1>3 DEF IInv, FriendsAreMutual, Check_friend
  <2>4. \A a, b : Check_friend(a, b)' <=> Check_friend(a, b)
    BY <1>3 DEF Check_friend
  <2>5. \A r \in requests : r \in Logins \X Logins
    BY DEF IInv, TypeOK
  <2>6. ASSUME NEW r \in requests' PROVE r[1] # r[2] /\ ~Check_friend(r[1], r[2]) /\ <<r[2], r[1]>> \notin requests'
    <3>1. CASE r \in requests
      BY <3>1, <1>3, <2>5 DEF IInv, RequestsAreOpen, MayRequest
    <3>2. CASE r = <<caller, login>>
      BY <3>2, <1>3 DEF MayRequest
    <3> QED
      BY <3>1, <3>2, <1>3
  <2>7. RequestsAreOpen'
    BY <2>4, <2>6 DEF RequestsAreOpen
  <2> QED
    BY <2>2, <2>3, <2>7 DEF IInv
<1>4. ASSUME NEW caller \in Callers, NEW login \in Logins, Pending(login, caller),
             friends' = [friends EXCEPT ![login] = Append(@, caller), ![caller] = Append(@, login)],
             requests' = requests \ {<<login, caller>>}, UNCHANGED accounts,
             Committed("accept", caller, login)
      PROVE IInv'
  <2>1. /\ caller \in accounts /\ login \in accounts /\ caller # login
        /\ ~Check_friend(login, caller) /\ ~Check_friend(caller, login)
    BY <1>4 DEF Pending, IInv, TypeOK, RequestsAreOpen, FriendsAreMutual
  <2>2. caller \in Logins
    BY <2>1 DEF IInv, TypeOK
  <2>3. /\ friends' \in [Logins -> Seq(Logins)]
        /\ friends'[login] = Append(friends[login], caller)
        /\ friends'[caller] = Append(friends[caller], login)
        /\ \A a \in Logins \ {caller, login} : friends'[a] = friends[a]
        /\ \A a, b \in Logins : Check_friend(a, b)' <=>
             Check_friend(a, b) \/ <<a, b>> = <<caller, login>> \/ <<a, b>> = <<login, caller>>
    BY <1>4, <2>1, <2>2, AcceptEffect
  <2>4. reply' \in Replies
    BY <1>4, ReplyType DEF Callers
  <2>5. TypeOK'
    BY <1>4, <2>1, <2>2, <2>3, <2>4 DEF IInv, TypeOK
  <2>6. \A a, b \in Logins : Check_friend(a, b)' => Check_friend(b, a)' /\ a # b
    BY <2>1, <2>3 DEF IInv, FriendsAreMutual
  <2>7. ASSUME NEW a \in Logins
        PROVE \A i, j \in DOMAIN friends'[a] : friends'[a][i] = friends'[a][j] => i = j
    <3>1. CASE a \notin {caller, login}
      BY <3>1, <2>3 DEF IInv, FriendsAreMutual
    <3>2. CASE a = caller
      <4>1. friends[a] \in Seq(Logins) /\ friends'[a] = Append(friends[a], login)
        BY <3>2, <2>3 DEF IInv, TypeOK
      <4>2. \A i, j \in DOMAIN friends[a] : friends[a][i] = friends[a][j] => i = j
        BY DEF IInv, FriendsAreMutual
      <4>3. \A i \in DOMAIN friends[a] : friends[a][i] # login
        BY <3>2, <2>1 DEF Check_friend
      <4> QED
        BY <4>1, <4>2, <4>3, <2>2, AppendDistinct
    <3>3. CASE a = login
      <4>1. friends[a] \in Seq(Logins) /\ friends'[a] = Append(friends[a], caller)
        BY <3>3, <2>3 DEF IInv, TypeOK
      <4>2. \A i, j \in DOMAIN friends[a] : friends[a][i] = friends[a][j] => i = j
        BY DEF IInv, FriendsAreMutual
      <4>3. \A i \in DOMAIN friends[a] : friends[a][i] # caller
        BY <3>3, <2>1 DEF Check_friend
      <4> QED
        BY <4>1, <4>2, <4>3, <2>2, AppendDistinct
    <3> QED
      BY <3>1, <3>2, <3>3
  <2>8. ASSUME NEW r \in requests'
        PROVE r[1] # r[2] /\ ~Check_friend(r[1], r[2])' /\ <<r[2], r[1]>> \notin requests'
    <3>1. /\ r \in requests /\ r # <<login, caller>> /\ <<r[2], r[1]>> \notin requests
          /\ r[1] # r[2] /\ ~Check_friend(r[1], r[2])
      BY <1>4 DEF IInv, RequestsAreOpen
    <3>2. r = <<r[1], r[2]>> /\ r[1] \in Logins /\ r[2] \in Logins
      BY <3>1 DEF IInv, TypeOK
    <3>3. <<r[1], r[2]>> # <<caller, login>>
      BY <3>1, <3>2, <1>4 DEF Pending
    <3>4. ~Check_friend(r[1], r[2])'
      BY <3>1, <3>2, <3>3, <2>3
    <3> QED
      BY <3>1, <3>4, <1>4
  <2>9. RequestsAreOpen'
    BY <2>8 DEF RequestsAreOpen
  <2> QED
    BY <2>5, <2>6, <2>7, <2>9 DEF IInv, FriendsAreMutual
<1>5. ASSUME NEW caller \in Callers, NEW login \in Logins, Pending(login, caller),
             requests' = requests \ {<<login, caller>>}, UNCHANGED <<accounts, friends>>,
             Committed("discard", caller, login)
      PROVE IInv'
  <2>1. reply' \in Replies
    BY <1>5, ReplyType DEF Callers
  <2> QED
    BY <1>5, <2>1, Harmless
<1>6. CASE UNCHANGED vars
  BY <1>6, Harmless DEF vars, IInv, TypeOK
<1> QED
  BY <1>1, <1>2, <1>3, <1>4, <1>5, <1>6 DEF Next, Registration, Make_friendship_request,
     Accept_friendship, Discard_friendship_request, Callers

(* The inductive invariant holds in every state the procedures can reach.  *)
THEOREM Invariance == Spec => []IInv
<1> QED
  BY InitIInv, NextIInv, PTL DEF Spec

(* The keys of the two tables: requests join existing accounts, each of    *)
(* which has at most one, and only accounts have lists of friends.         *)
THEOREM TypeCorrect == Spec => []TypeOK
<1>1. IInv => TypeOK
  BY DEF IInv
<1> QED
  BY <1>1, Invariance, PTL

(* "Friends" of any two users agree with each other and list each friend   *)
(* once, so Check_friend may ask either of the two.                        *)
THEOREM FriendshipIsMutual == Spec => []FriendsAreMutual
<1>1. IInv => FriendsAreMutual
  BY DEF IInv
<1> QED
  BY <1>1, Invariance, PTL

(* Every pending request can still be accepted without damage. *)
THEOREM RequestsStayOpen == Spec => []RequestsAreOpen
<1>1. IInv => RequestsAreOpen
  BY DEF IInv
<1> QED
  BY <1>1, Invariance, PTL

(* Nobody becomes a friend unasked, and no call ends a friendship.         *)
THEOREM FriendshipNeedsConsent == Spec => FriendsByConsent
<1> DEFINE Asked(a, b) == /\ Check_friend(a, b)'
                          /\ reply'.operation = "accept"
                          /\ \/ reply'.caller = a /\ <<b, a>> \in requests
                             \/ reply'.caller = b /\ <<a, b>> \in requests
<1>1. ASSUME IInv, [Next]_vars, NEW a \in Logins, NEW b \in Logins, Check_friend(a, b)' # Check_friend(a, b)
      PROVE Asked(a, b)
  <2>1. friends' # friends
    BY <1>1 DEF Check_friend
  <2>2. PICK caller \in Callers, login \in Logins :
          /\ Pending(login, caller) /\ Committed("accept", caller, login)
          /\ friends' = [friends EXCEPT ![login] = Append(@, caller), ![caller] = Append(@, login)]
    <3>1. ASSUME NEW login \in Logins, login \notin accounts, Register(login) PROVE FALSE
      <4>1. friends' = [friends EXCEPT ![login] = <<>>]
        BY <3>1 DEF Register
      <4>2. friends \in [Logins -> Seq(Logins)] /\ friends[login] = <<>>
        BY <1>1, <3>1 DEF IInv, TypeOK
      <4> QED
        BY <2>1, <4>1, <4>2
    <3> QED
      BY <1>1, <2>1, <3>1 DEF Next, vars, db, Refused, Registration, Make_friendship_request,
         Accept_friendship, Discard_friendship_request
  <2>3. caller \in Logins /\ caller # login
    BY <1>1, <2>2 DEF Pending, IInv, TypeOK, RequestsAreOpen
  <2>4. Check_friend(a, b)' /\ (<<a, b>> = <<caller, login>> \/ <<a, b>> = <<login, caller>>)
    <3>1. Check_friend(a, b)' <=> ~Check_friend(a, b)
      BY <1>1 DEF Check_friend
    <3>2. Check_friend(a, b)' <=>
            Check_friend(a, b) \/ <<a, b>> = <<caller, login>> \/ <<a, b>> = <<login, caller>>
      BY <1>1, <2>2, <2>3, AcceptEffect
    <3> QED
      BY <3>1, <3>2
  <2>5. reply'.operation = "accept" /\ reply'.caller = caller
    BY <2>2 DEF Committed
  <2> QED
    BY <2>2, <2>4, <2>5 DEF Pending
<1>2. IInv /\ [Next]_vars =>
        [\A a, b \in Logins : Check_friend(a, b)' # Check_friend(a, b) => Asked(a, b)]_vars
  BY <1>1
<1> QED
  BY <1>2, Invariance, PTL DEF Spec, FriendsByConsent
==================================================================================
