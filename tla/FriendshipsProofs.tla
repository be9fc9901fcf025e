--------------------------- MODULE FriendshipsProofs ---------------------------
(***************************************************************************)
(* What an address book keeps for every number of people and requests: one   *)
(* row for two people, friends who accepted this very request, overviews     *)
(* that list nobody twice and leave nobody out, and invitations to a meeting *)
(* for friends only.                                                         *)
(***************************************************************************)
EXTENDS FriendInvitations, FiniteSetTheorems, TLAPS

BookTyped ==
    /\ rows \in [Ids -> Row \cup {None}]
    /\ Rows \subseteq used /\ used \subseteq Ids
    /\ accepts \subseteq Users \X Ids
    /\ \A i \in Rows : rows[i].requester # rows[i].addressee

(* A withdrawn, declined or ended request does not come back.                *)
Book == BookTyped /\ FriendsAgreed

(* The ways in which the table changes: a row is added, accepted, or gone.   *)
Adds(u, v, i) == /\ u # v /\ ~Taken(u, v) /\ i \in Ids \ used
                 /\ rows' = InsertFriendRequest(u, v, i) /\ used' = used \cup {i}
                 /\ accepts' = accepts
Accepts(u, i) == /\ <<u, i>> \in accepts /\ AcceptFriendRequest(u, i)
                 /\ rows' = [rows EXCEPT ![i].status = "accepted"]
                 /\ used' = used /\ accepts' = accepts
Removes(S) == /\ \A i \in Ids : rows'[i] = IF i \in S THEN None ELSE rows[i]
              /\ rows' \in [Ids -> Row \cup {None}]
              /\ used' = used /\ accepts' = accepts
Keeps == rows' = rows /\ used' = used /\ accepts \subseteq accepts' /\ accepts' \subseteq Users \X Ids

(* Only rows of S change, and no row that is there changes its people.       *)
SparesBut(S) ==
    /\ Rows' \subseteq Rows \cup (Ids \ used)
    /\ \A i \in Rows' : i \in used =>
         /\ rows'[i].requester = rows[i].requester /\ rows'[i].addressee = rows[i].addressee
         /\ rows[i].status = "accepted" => rows'[i].status = "accepted"
    /\ \A i \in Rows \ S : i \in Rows' /\ rows'[i] = rows[i]
    /\ used \subseteq used'
    /\ IsFiniteSet(Rows) => IsFiniteSet(Rows')

LEMMA RowsAreRows ==
  ASSUME FriendshipsAssumption, BookTyped
  PROVE  /\ \A i \in Rows : i \in Ids /\ rows[i] \in Row /\ rows[i] # None
         /\ \A i \in Ids \ Rows : rows[i] = None
  BY DEF BookTyped, Rows

LEMMA AddsKeeps ==
  ASSUME FriendshipsAssumption, Book, NEW u \in Users, NEW v \in Users, NEW i, Adds(u, v, i)
  PROVE  Book' /\ SparesBut({})
  <1> DEFINE row == [requester |-> u, addressee |-> v, status |-> "pending"]
  <1>1. row \in Row /\ row # None
    BY DEF Row, FriendshipsAssumption
  <1>2. /\ rows' \in [Ids -> Row \cup {None}] /\ rows'[i] = row
        /\ \A j \in Ids \ {i} : rows'[j] = rows[j]
    BY <1>1 DEF Adds, InsertFriendRequest, Book, BookTyped
  <1>3. Rows' = Rows \cup {i} /\ i \notin Rows /\ i \in Ids
    BY <1>1, <1>2 DEF Rows, Adds, Book, BookTyped
  <1>4. BookTyped'
    BY <1>2, <1>3, RowsAreRows DEF Adds, Book, BookTyped
  <1>5. Pair(i)' = {u, v} /\ \A j \in Rows : Pair(j)' = Pair(j) /\ Pair(j) # {u, v}
    BY <1>2, <1>3, RowsAreRows DEF Pair, Adds, Taken, Book
  <1>6. FriendsAgreed'
    <2>1. \A j, k \in Rows' : Pair(j)' = Pair(k)' => j = k
      BY <1>3, <1>5 DEF Book, FriendsAgreed
    <2>2. \A j \in Rows' : rows'[j].status = "accepted" => <<rows'[j].addressee, j>> \in accepts'
      BY <1>2, <1>3, RowsAreRows DEF Book, FriendsAgreed, Adds
    <2>3. QED
      BY <2>1, <2>2 DEF FriendsAgreed
  <1>7. SparesBut({})
    BY <1>2, <1>3, RowsAreRows, FS_AddElement DEF SparesBut, Adds, Book, BookTyped
  <1>8. QED
    BY <1>4, <1>6, <1>7 DEF Book

LEMMA AcceptsKeeps ==
  ASSUME FriendshipsAssumption, Book, NEW u, NEW i, Accepts(u, i)
  PROVE  Book' /\ SparesBut({i})
  <1>1. i \in Ids /\ rows[i] \in Row /\ rows[i].addressee = u /\ i \in Rows
    BY RowsAreRows DEF Accepts, AcceptFriendRequest, Book
  <1>2. /\ rows' \in [Ids -> Row \cup {None}]
        /\ rows'[i] = [rows[i] EXCEPT !.status = "accepted"] /\ rows'[i] \in Row
        /\ \A j \in Ids \ {i} : rows'[j] = rows[j]
    BY <1>1 DEF Accepts, Book, BookTyped, Row
  <1>3. Rows' = Rows
    BY <1>1, <1>2 DEF Rows, FriendshipsAssumption
  <1>4. \A j \in Rows : /\ rows'[j].requester = rows[j].requester
                        /\ rows'[j].addressee = rows[j].addressee
                        /\ rows'[j].status = IF j = i THEN "accepted" ELSE rows[j].status
    BY <1>1, <1>2, RowsAreRows DEF Row, Book
  <1>5. BookTyped'
    BY <1>2, <1>3, <1>4 DEF Accepts, Book, BookTyped
  <1>6. FriendsAgreed'
    BY <1>1, <1>3, <1>4 DEF Book, FriendsAgreed, Pair, Accepts
  <1>7. SparesBut({i})
    BY <1>2, <1>3, <1>4, RowsAreRows DEF SparesBut, Accepts, Book
  <1>8. QED
    BY <1>5, <1>6, <1>7 DEF Book

LEMMA RemovesKeeps ==
  ASSUME FriendshipsAssumption, Book, NEW S, Removes(S)
  PROVE  Book' /\ SparesBut(S)
  <1>1. Rows' \subseteq Rows /\ (Rows \ S) \subseteq Rows' /\ \A j \in Rows' : rows'[j] = rows[j]
    BY DEF Removes, Rows
  <1>2. BookTyped' /\ FriendsAgreed'
    BY <1>1 DEF Removes, Book, BookTyped, FriendsAgreed, Pair
  <1>3. SparesBut(S)
    BY <1>1, FS_Subset DEF SparesBut, Removes
  <1>4. QED
    BY <1>2, <1>3 DEF Book

LEMMA KeepsKeeps ==
  ASSUME FriendshipsAssumption, Book, Keeps
  PROVE  Book' /\ SparesBut({})
  BY DEF Keeps, Book, BookTyped, FriendsAgreed, Pair, Rows, SparesBut

(* Every step changes the table in one of these ways, and takes what it      *)
(* changes out of steady.                                                    *)
Disturbs(S) == view' = [view EXCEPT !.steady = @ \ S]

LEMMA ChangeSteps ==
  ASSUME FriendshipsAssumption, Book, Change
  PROVE  Book' /\ \E S : SparesBut(S) /\ (Disturbs(S) \/ (S = {} /\ view' = view))
  <1>1. ASSUME NEW u \in Users, NEW v \in Users, Send(u, v)
        PROVE  Book' /\ SparesBut({}) /\ view' = view
    BY <1>1, AddsKeeps DEF Send, Adds
  <1>2. ASSUME NEW u \in Users, NEW v \in Users, RemoveFriend(u, v)
        PROVE  Book' /\ \E S : SparesBut(S) /\ Disturbs(S)
    <2> DEFINE S == DeleteAcceptedFriendship(u, v)
    <2>1. rows' = [i \in Ids |-> IF i \in S THEN None ELSE rows[i]]
      BY <1>2 DEF RemoveFriend
    <2>2. Removes(S)
      <3> HIDE DEF S
      <3>1. QED
        BY <2>1, <1>2 DEF RemoveFriend, Removes, Book, BookTyped
    <2>3. QED
      BY <1>2, <2>2, RemovesKeeps DEF RemoveFriend, Disturb, Disturbs
  <1>3. ASSUME NEW u \in Users, NEW i \in Ids, AskAccept(u, i)
        PROVE  Book' /\ SparesBut({}) /\ view' = view
    <2>1. Keeps
      BY <1>3 DEF AskAccept, Keeps, Book, BookTyped
    <2>2. QED
      BY <1>3, <2>1, KeepsKeeps DEF AskAccept
  <1>4. ASSUME NEW u \in Users, NEW i \in Ids, Accept(u, i)
        PROVE  Book' /\ \E S : SparesBut(S) /\ Disturbs(S)
    BY <1>4, AcceptsKeeps DEF Accept, Accepts, Disturb, Disturbs
  <1>5. ASSUME NEW u \in Users, NEW i \in Ids, DeleteRequest(u, i)
        PROVE  Book' /\ \E S : SparesBut(S) /\ Disturbs(S)
    <2>1. Removes({i})
      BY <1>5 DEF DeleteRequest, Removes, Book, BookTyped
    <2>2. QED
      BY <1>5, <2>1, RemovesKeeps DEF DeleteRequest, Disturb, Disturbs
  <1>6. QED
    BY <1>1, <1>2, <1>3, <1>4, <1>5 DEF Change

------------------------------------------------------------------------------
(* The overview.                                                             *)

ViewTyped == view \in [at : 0..7, total : [Kinds -> Nat], items : [Kinds -> SUBSET Ids],
                       steady : SUBSET Ids]

(* The step at which a list is read, just after it was counted.              *)
ReadAt == [k \in Kinds |-> CASE k = "friend" -> 2 [] k = "incoming" -> 4 [] k = "outgoing" -> 6]

(* What was read of the lists, though it may be gone by now.                 *)
ItemsSound ==
    /\ \A k \in Kinds : view.items[k] \subseteq used
    /\ \A k \in Kinds : view.at <= ReadAt[k] => view.items[k] = {}
    /\ \A i \in view.items["friend"] : i \in Rows => rows[i].status = "accepted"
    /\ \A i \in view.items["incoming"] : i \in Rows => rows[i].addressee = Reader
    /\ \A j, k \in Kinds : j # k => view.items[j] \cap view.items[k] = {}

Steady(k) == view.steady \cap Listed(k, Reader)

SteadySound ==
    /\ view.steady \subseteq Rows /\ IsFiniteSet(Rows)
    /\ \A k \in Kinds : view.at > ReadAt[k] => Steady(k) \subseteq view.items[k]
    /\ \A k \in Kinds : view.at >= ReadAt[k] => Cardinality(Steady(k)) <= view.total[k]

Overview == ViewTyped /\ ItemsSound /\ SteadySound

LEMMA ListedOf ==
  ASSUME NEW u
  PROVE  /\ Listed("friend", u) = ListFriends(u)
         /\ Listed("incoming", u) = ListIncoming(u)
         /\ Listed("outgoing", u) = ListOutgoing(u)
         /\ \A k \in Kinds : Listed(k, u) \subseteq Rows
  BY DEF Listed, Kinds, ListFriends, ListIncoming, ListOutgoing

(* What others do meanwhile.                                                 *)
LEMMA ChangeLeaves ==
  ASSUME FriendshipsAssumption, Book, Book', Overview, NEW S, SparesBut(S),
         Disturbs(S) \/ (S = {} /\ view' = view)
  PROVE  Overview'
  <1>1. /\ view'.at = view.at /\ view'.total = view.total /\ view'.items = view.items
        /\ view'.steady = view.steady \ S /\ ViewTyped'
    BY DEF Overview, ViewTyped, Disturbs
  <1>2. ItemsSound'
    <2>1. ASSUME NEW k \in Kinds, NEW i \in view.items[k], i \in Rows'
          PROVE  /\ i \in Rows /\ rows'[i].addressee = rows[i].addressee
                 /\ rows[i].status = "accepted" => rows'[i].status = "accepted"
      BY <2>1 DEF Overview, ItemsSound, SparesBut
    <2>2. "friend" \in Kinds /\ "incoming" \in Kinds
      BY DEF Kinds
    <2>3. QED
      BY <1>1, <2>1, <2>2 DEF Overview, ItemsSound, SparesBut
  <1>3. \A k \in Kinds : Steady(k)' \subseteq Steady(k)
    <2>1. \A i \in view'.steady : i \in Rows /\ i \in Rows' /\ rows'[i] = rows[i] /\ i \in view.steady
      BY <1>1 DEF Overview, SteadySound, SparesBut
    <2>2. \A i \in view'.steady, k \in Kinds : i \in Listed(k, Reader)' => i \in Listed(k, Reader)
      BY <2>1 DEF Listed, ListFriends, ListIncoming, ListOutgoing, Pair, Kinds
    <2>3. QED
      BY <2>1, <2>2 DEF Steady
  <1>4. \A k \in Kinds : /\ IsFiniteSet(Steady(k))
                         /\ Cardinality(Steady(k)) \in Nat /\ Cardinality(Steady(k)') \in Nat
                         /\ Cardinality(Steady(k)') <= Cardinality(Steady(k))
    <2>1. \A k \in Kinds : IsFiniteSet(Steady(k))
      BY FS_Subset DEF Steady, Overview, SteadySound
    <2>2. \A k \in Kinds : IsFiniteSet(Steady(k)')
      BY <1>3, <2>1, FS_Subset
    <2>3. QED
      BY <1>3, <2>1, <2>2, FS_Subset, FS_CardinalityType
  <1>5. SteadySound'
    <2>1. view'.steady \subseteq Rows' /\ IsFiniteSet(Rows')
      BY <1>1 DEF Overview, SteadySound, SparesBut
    <2>2. \A k \in Kinds : view'.at > ReadAt[k] => Steady(k)' \subseteq view'.items[k]
      BY <1>1, <1>3 DEF Overview, SteadySound
    <2>3. \A k \in Kinds : view'.at >= ReadAt[k] => Cardinality(Steady(k)') <= view'.total[k]
      BY <1>1, <1>4 DEF Overview, SteadySound, ViewTyped
    <2>4. QED
      BY <2>1, <2>2, <2>3 DEF SteadySound
  <1>6. QED
    BY <1>1, <1>2, <1>5 DEF Overview

LEMMA OpenSound ==
  ASSUME FriendshipsAssumption, Book, Overview, OpenOverview
  PROVE  Overview'
  <1>1. /\ view.at = 0 /\ view'.at = 1 /\ view'.total = view.total /\ view'.items = view.items
        /\ view'.steady \subseteq Rows /\ UNCHANGED <<rows, used>> /\ Rows' = Rows
    BY DEF OpenOverview, Overview, ViewTyped, SearchUsersByNickname, ListFriends, ListIncoming,
           ListOutgoing, Rows
  <1>2. ViewTyped'
    <2>1. SearchUsersByNickname(Reader) \in SUBSET Ids
      BY DEF SearchUsersByNickname, ListFriends, ListIncoming, ListOutgoing, Rows
    <2>2. view' = [at |-> 1, total |-> view.total, items |-> view.items,
                   steady |-> SearchUsersByNickname(Reader)]
      BY DEF OpenOverview, Overview, ViewTyped
    <2>3. QED
      BY <2>1, <2>2 DEF Overview, ViewTyped
  <1>3. ItemsSound' /\ SteadySound'
    BY <1>1 DEF Overview, ItemsSound, SteadySound, ReadAt, Kinds
  <1>4. QED
    BY <1>2, <1>3 DEF Overview

(* The list of each pair of steps.                                           *)
LEMMA ListOrder ==
  /\ ListRead(1) = "friend" /\ ListRead(2) = "friend"
  /\ ListRead(3) = "incoming" /\ ListRead(4) = "incoming"
  /\ ListRead(5) = "outgoing" /\ ListRead(6) = "outgoing"
  BY DEF ListRead, Lists

LEMMA CountSound ==
  ASSUME FriendshipsAssumption, Book, Overview, CountList
  PROVE  Overview'
  <1> DEFINE list == ListRead(view.at)
             count == Cardinality(Listed(list, Reader))
  <1>1. list \in Kinds /\ ReadAt[list] = view.at + 1 /\ view.at \in {1, 3, 5}
    BY ListOrder DEF CountList, Kinds, ReadAt
  <1>2. IsFiniteSet(Listed(list, Reader)) /\ count \in Nat
    BY <1>1, ListedOf, FS_Subset, FS_CardinalityType DEF Overview, SteadySound
  <1>3. view' = [view EXCEPT !.at = @ + 1, !.total[list] = count] /\ UNCHANGED <<rows, used, accepts>>
    BY DEF CountList
  <1> HIDE DEF list, count
  <1>4. /\ view'.at = view.at + 1 /\ view'.items = view.items /\ view'.steady = view.steady
        /\ view'.total[list] = count /\ view'.total \in [Kinds -> Nat]
        /\ \A k \in Kinds : k # list => view'.total[k] = view.total[k]
        /\ ViewTyped'
    <2>1. view.at + 1 \in 0..7 /\ [view.total EXCEPT ![list] = count] \in [Kinds -> Nat]
      BY <1>1, <1>2 DEF Overview, ViewTyped
    <2>2. view' = [at |-> view.at + 1, total |-> [view.total EXCEPT ![list] = count],
                   items |-> view.items, steady |-> view.steady]
      BY <1>3 DEF Overview, ViewTyped
    <2>3. QED
      BY <1>1, <2>1, <2>2 DEF Overview, ViewTyped
  <1>5. Rows' = Rows /\ \A k \in Kinds : Listed(k, Reader)' = Listed(k, Reader)
    BY <1>3 DEF Rows, Listed, ListFriends, ListIncoming, ListOutgoing, Pair
  <1>6. \A k \in Kinds : Steady(k)' = Steady(k)
    BY <1>4, <1>5 DEF Steady
  <1>7. Cardinality(Steady(list)) <= count
    BY <1>2, FS_Subset DEF Steady, count
  <1>8. \A k \in Kinds : k # list => (view'.at >= ReadAt[k] <=> view.at >= ReadAt[k])
    BY <1>1, <1>4, ListOrder DEF ReadAt, Kinds, list
  <1>9. \A k \in Kinds : (view'.at > ReadAt[k] <=> view.at > ReadAt[k])
                         /\ (view'.at <= ReadAt[k] <=> view.at <= ReadAt[k])
    BY <1>1, <1>4 DEF ReadAt, Kinds
  <1>10. ItemsSound'
    BY <1>3, <1>4, <1>5, <1>9 DEF Overview, ItemsSound
  <1>11. SteadySound'
    BY <1>4, <1>5, <1>6, <1>7, <1>8, <1>9 DEF Overview, SteadySound
  <1>12. QED
    BY <1>4, <1>10, <1>11 DEF Overview

LEMMA ReadSound ==
  ASSUME FriendshipsAssumption, Book, Overview, ReadList
  PROVE  Overview'
  <1> DEFINE list == ListRead(view.at)
             found == Listed(list, Reader)
  <1>1. list \in Kinds /\ ReadAt[list] = view.at /\ view.at \in {2, 4, 6}
    BY ListOrder DEF ReadList, Kinds, ReadAt
  <1>2. found \subseteq Rows /\ Rows \subseteq Ids /\ Rows \subseteq used
    BY <1>1, ListedOf DEF Rows, Book, BookTyped
  <1>3. view' = [view EXCEPT !.at = @ + 1, !.items[list] = found] /\ UNCHANGED <<rows, used, accepts>>
    BY DEF ReadList
  <1> HIDE DEF list, found
  <1>4. /\ view'.at = view.at + 1 /\ view'.total = view.total /\ view'.steady = view.steady
        /\ view'.items[list] = found /\ view'.items \in [Kinds -> SUBSET Ids]
        /\ \A k \in Kinds : k # list => view'.items[k] = view.items[k]
        /\ ViewTyped'
    <2>1. view.at + 1 \in 0..7 /\ [view.items EXCEPT ![list] = found] \in [Kinds -> SUBSET Ids]
      BY <1>1, <1>2 DEF Overview, ViewTyped
    <2>2. view' = [at |-> view.at + 1, total |-> view.total,
                   items |-> [view.items EXCEPT ![list] = found], steady |-> view.steady]
      BY <1>3 DEF Overview, ViewTyped
    <2>3. QED
      BY <1>1, <2>1, <2>2 DEF Overview, ViewTyped
  <1>5. Rows' = Rows /\ \A k \in Kinds : Listed(k, Reader)' = Listed(k, Reader)
    BY <1>3 DEF Rows, Listed, ListFriends, ListIncoming, ListOutgoing, Pair
  <1>6. \A k \in Kinds : Steady(k)' = Steady(k)
    BY <1>4, <1>5 DEF Steady
  <1>7. \A k \in Kinds : k # list =>
            /\ view'.at > ReadAt[k] <=> view.at > ReadAt[k]
            /\ view'.at <= ReadAt[k] <=> view.at <= ReadAt[k]
    BY <1>1, <1>4, ListOrder DEF ReadAt, Kinds, list
  <1>8. \A k \in Kinds : view'.at >= ReadAt[k] <=> view.at >= ReadAt[k]
    BY <1>1, <1>4 DEF ReadAt, Kinds
  <1>9. \A k \in Kinds : k # list => view.items[k] \cap found = {}
    <2>1. CASE list = "friend"
      <3>1. view.items["incoming"] = {} /\ view.items["outgoing"] = {}
        BY <1>1, <2>1 DEF Overview, ItemsSound, ReadAt, Kinds
      <3>2. QED
        BY <2>1, <3>1 DEF Kinds
    <2>2. CASE list = "incoming"
      <3>1. view.items["outgoing"] = {} /\ view.items["friend"] \cap found = {}
        BY <1>1, <1>2, <2>2, ListedOf DEF Overview, ItemsSound, ReadAt, Kinds, ListIncoming, found
      <3>2. QED
        BY <2>2, <3>1 DEF Kinds
    <2>3. CASE list = "outgoing"
      <3>1. found = ListOutgoing(Reader)
        BY <2>3, ListedOf DEF found
      <3>2. view.items["friend"] \cap found = {} /\ view.items["incoming"] \cap found = {}
        BY <3>1 DEF Overview, ItemsSound, ListOutgoing, Book, BookTyped
      <3>3. QED
        BY <2>3, <3>2 DEF Kinds
    <2>4. QED
      BY <1>1, <2>1, <2>2, <2>3 DEF Kinds
  <1>10. ItemsSound'
    <2>1. \A k \in Kinds : view'.items[k] \subseteq used'
      BY <1>2, <1>3, <1>4 DEF Overview, ItemsSound
    <2>2. \A k \in Kinds : view'.at <= ReadAt[k] => view'.items[k] = {}
      BY <1>1, <1>4, <1>7 DEF Overview, ItemsSound, ViewTyped
    <2>3. \A i \in view'.items["friend"] : i \in Rows' => rows'[i].status = "accepted"
      <3>1. CASE list = "friend"
        BY <3>1, <1>3, <1>4, ListedOf DEF found, ListFriends
      <3>2. CASE list # "friend"
        BY <3>2, <1>3, <1>4, <1>5 DEF Overview, ItemsSound, Kinds
      <3>3. QED
        BY <3>1, <3>2
    <2>4. \A i \in view'.items["incoming"] : i \in Rows' => rows'[i].addressee = Reader
      <3>1. CASE list = "incoming"
        BY <3>1, <1>3, <1>4, ListedOf DEF found, ListIncoming
      <3>2. CASE list # "incoming"
        BY <3>2, <1>3, <1>4, <1>5 DEF Overview, ItemsSound, Kinds
      <3>3. QED
        BY <3>1, <3>2
    <2>5. \A j, k \in Kinds : j # k => view'.items[j] \cap view'.items[k] = {}
      <3> SUFFICES ASSUME NEW j \in Kinds, NEW k \in Kinds, j # k
                   PROVE  view'.items[j] \cap view'.items[k] = {}
        OBVIOUS
      <3>1. CASE j = list
        BY <3>1, <1>4, <1>9
      <3>2. CASE k = list
        BY <3>2, <1>4, <1>9
      <3>3. CASE j # list /\ k # list
        BY <3>3, <1>4 DEF Overview, ItemsSound
      <3>4. QED
        BY <3>1, <3>2, <3>3
    <2>6. QED
      BY <2>1, <2>2, <2>3, <2>4, <2>5 DEF ItemsSound
  <1>11. SteadySound'
    <2>1. Steady(list) \subseteq found
      BY DEF Steady, found
    <2>2. \A k \in Kinds : view'.at > ReadAt[k] => Steady(k)' \subseteq view'.items[k]
      BY <1>4, <1>6, <1>7, <2>1 DEF Overview, SteadySound
    <2>3. QED
      BY <1>4, <1>5, <1>6, <1>8, <2>2 DEF Overview, SteadySound
  <1>12. QED
    BY <1>4, <1>10, <1>11 DEF Overview

------------------------------------------------------------------------------
LEMMA Inductive == FriendshipsAssumption => (Spec => [](Book /\ Overview))
  <1> SUFFICES ASSUME FriendshipsAssumption PROVE Spec => [](Book /\ Overview)
    OBVIOUS
  <1>1. Init => Book /\ Overview
    <2> SUFFICES ASSUME Init PROVE Book /\ Overview
      OBVIOUS
    <2>1. Rows = {} /\ Book
      BY DEF Init, Book, BookTyped, Rows, FriendsAgreed
    <2>2. ViewTyped /\ ItemsSound
      BY <2>1 DEF Init, ViewTyped, ItemsSound, Kinds
    <2>3. SteadySound
      BY <2>1, FS_EmptySet DEF Init, SteadySound, ReadAt, Kinds
    <2>4. QED
      BY <2>1, <2>2, <2>3 DEF Overview
  <1>2. ASSUME Book, Overview, [Next]_friendVars PROVE Book' /\ Overview'
    <2>1. CASE Change
      BY <1>2, <2>1, ChangeSteps, ChangeLeaves
    <2>2. CASE OpenOverview \/ CountList \/ ReadList
      <3>1. Keeps
        BY <1>2, <2>2 DEF OpenOverview, CountList, ReadList, Keeps, Book, BookTyped
      <3>2. QED
        BY <1>2, <2>2, <3>1, KeepsKeeps, OpenSound, CountSound, ReadSound
    <2>3. CASE UNCHANGED friendVars
      <3>1. Keeps /\ view' = view
        BY <1>2, <2>3 DEF friendVars, Keeps, Book, BookTyped
      <3>2. QED
        BY <1>2, <3>1, KeepsKeeps, ChangeLeaves
    <2>4. QED
      BY <1>2, <2>1, <2>2, <2>3 DEF Next
  <1>3. QED
    BY <1>1, <1>2, PTL DEF Spec

(* Rows are of their type and of two different people, with an id given away. *)
THEOREM BookIsTyped == FriendshipsAssumption => (Spec => []TypeOK)
  <1>1. Book /\ Overview => TypeOK
    BY DEF Book, BookTyped, Overview, ViewTyped, SteadySound, TypeOK
  <1>2. QED
    BY <1>1, Inductive, PTL

(* Two people have one row between them, and friends are only people of whom *)
(* the one who was asked accepted this very request                          *)
(* (friendships_user_pair_key, Accept).                                      *)
THEOREM FriendsHaveAgreed == FriendshipsAssumption => (Spec => []FriendsAgreed)
  <1>1. Book => FriendsAgreed
    BY DEF Book
  <1>2. QED
    BY <1>1, Inductive, PTL

(* No row is in two lists of one overview, and a row nobody touched is in    *)
(* its list and counted (Overview).                                          *)
THEOREM OverviewsAreSound == FriendshipsAssumption => (Spec => []OverviewSound)
  <1>1. ASSUME Book, Overview PROVE OverviewSound
    BY <1>1 DEF Overview, ItemsSound, SteadySound, OverviewSound, Steady, ReadAt, Kinds
  <1>2. QED
    BY <1>1, Inductive, PTL

------------------------------------------------------------------------------
(* Invitations.                                                              *)

(* Whom a batch has taken up was a friend during it.                         *)
BatchSound == batch # None => batch.new \subseteq befriended

Invited == invitation \in [Guests -> Statuses] /\ BatchSound

(* What a step may do to one invitation.                                     *)
Lawful(u) ==
    \/ invitation[u] = "none" /\ invitation'[u] = "pending" /\ u \in befriended
    \/ invitation[u] = "pending" /\ invitation'[u] \in {"accepted", "declined"}

LEMMA InvitationStep ==
  ASSUME Invited, [FriendInvitationsNext]_vars
  PROVE  Invited' /\ \A u \in Guests : invitation'[u] # invitation[u] => Lawful(u)
  <1> USE DEF Invited
  <1>1. CASE UNCHANGED vars
    BY <1>1 DEF vars, meetingVars, BatchSound
  <1>2. CASE AddressBook
    BY <1>2 DEF AddressBook, Tracked, BatchSound
  <1>3. CASE Candidates \/ End
    BY <1>3 DEF Candidates, End, BatchSound
  <1>4. ASSUME NEW chosen, BeginBatch(chosen)
        PROVE  Invited' /\ invitation' = invitation
    BY <1>4 DEF BeginBatch, BatchSound
  <1>5. ASSUME NEW u \in Guests, Insert(u)
        PROVE  Invited' /\ invitation' = invitation
    <2>1. /\ batch # None /\ UNCHANGED <<friendVars, invitation>> /\ Tracked
          /\ batch' = [todo |-> batch.todo \ {u},
                       new |-> IF Invites(u) THEN batch.new \cup {u} ELSE batch.new]
      BY <1>5 DEF Insert
    <2>2. batch.new \subseteq befriended /\ (Invites(u) => u \in Friends)
      BY <2>1 DEF BatchSound, Invites
    <2>3. Friends' = Friends
      BY <2>1 DEF Friends, ListFriends, Rows, Pair, friendVars
    <2>4. batch' # None => befriended' = befriended \cup Friends
      BY <2>1, <2>3 DEF Tracked
    <2>5. batch'.new \subseteq batch.new \cup Friends
      BY <2>1, <2>2
    <2>6. BatchSound'
      BY <2>2, <2>4, <2>5 DEF BatchSound
    <2>7. QED
      BY <2>1, <2>6
  <1>6. CASE CommitBatch
    <2>1. batch # None /\ batch' = None /\ invitation' = Inserted(batch.new)
      BY <1>6 DEF CommitBatch
    <2>2. invitation' \in [Guests -> Statuses] /\ BatchSound'
      BY <2>1 DEF Inserted, Statuses, BatchSound
    <2>3. ASSUME NEW u \in Guests, invitation'[u] # invitation[u] PROVE Lawful(u)
      BY <2>1, <2>3 DEF Inserted, BatchSound, Lawful
    <2>4. QED
      BY <2>2, <2>3
  <1>7. CASE RollBack
    BY <1>7 DEF RollBack, BatchSound
  <1>8. ASSUME NEW u \in Guests, AcceptInvitation(u) \/ DeclineInvitation(u)
        PROVE  Invited' /\ \A w \in Guests : invitation'[w] # invitation[w] => Lawful(w)
    BY <1>8 DEF AcceptInvitation, DeclineInvitation, Open, Marked, Statuses, BatchSound, Lawful
  <1>9. ASSUME NEW u \in Guests, JoinByLink(u) PROVE Invited' /\ invitation' = invitation
    BY <1>9 DEF JoinByLink, BatchSound
  <1>10. QED
    BY <1>1, <1>2, <1>3, <1>4, <1>5, <1>6, <1>7, <1>8, <1>9
    DEF FriendInvitationsNext, AddressBook, Candidates, End, RollBack, vars, meetingVars

(* However old the list is from which the owner chose, an invitation that a  *)
(* batch commits is for someone who was a friend during it, and an answer    *)
(* stands (Send, Accept, Decline).                                           *)
THEOREM InvitedHadBeenFriends == FriendInvitationsSpec => InvitedWereFriends
  <1>1. FriendInvitationsInit => Invited
    BY DEF FriendInvitationsInit, Invited, BatchSound, Statuses
  <1>2. Invited /\ [FriendInvitationsNext]_vars => Invited'
    BY InvitationStep
  <1>3. Invited /\ [FriendInvitationsNext]_vars =>
            [\A u \in Guests : invitation'[u] # invitation[u] => Lawful(u)]_vars
    BY InvitationStep
  <1>4. InvitedWereFriends <=> [][\A u \in Guests : invitation'[u] # invitation[u] => Lawful(u)]_vars
    BY PTL DEF InvitedWereFriends, Lawful
  <1>5. QED
    BY <1>1, <1>2, <1>3, <1>4, PTL DEF FriendInvitationsSpec

(* Invitations leave the address book to its own operations.                 *)
THEOREM InvitationsKeepTheBook == FriendInvitationsSpec => Spec
  <1>1. FriendInvitationsInit => Init
    BY DEF FriendInvitationsInit
  <1>2. [FriendInvitationsNext]_vars => [Next]_friendVars
    BY DEF FriendInvitationsNext, AddressBook, Candidates, End, BeginBatch, Insert, CommitBatch,
       RollBack, AcceptInvitation, DeclineInvitation, JoinByLink, vars, Next
  <1>3. QED
    BY <1>1, <1>2, PTL DEF FriendInvitationsSpec, Spec

(* So whatever batches and answers run beside it, friends have agreed        *)
(* (friendships_user_pair_key, Accept).                                      *)
THEOREM FriendsAgreeBesideMeetings ==
  FriendshipsAssumption => (FriendInvitationsSpec => []FriendsAgreed)
  BY InvitationsKeepTheBook, FriendsHaveAgreed

(* Friends are other people.                                                 *)
LEMMA FriendsAreGuests == TypeOK => Friends \subseteq Guests
  <1> SUFFICES ASSUME TypeOK, NEW u \in Friends PROVE u \in Guests
    OBVIOUS
  <1>1. PICK i \in ListFriends(Owner) : u \in Pair(i) /\ u # Owner
    BY DEF Friends
  <1>2. rows[i] \in Row
    BY DEF TypeOK, Rows, ListFriends
  <1>3. QED
    BY <1>1, <1>2 DEF Pair, Row, Guests

(* Invitations, participants and batches are of their types, and only guests *)
(* are taken up, invited and admitted by link (Send, Accept, Decline).       *)
THEOREM InvitationsAreTyped ==
  FriendshipsAssumption /\ OwnerAssumption => (FriendInvitationsSpec => []InvitationsTypeOK)
  <1> SUFFICES ASSUME FriendshipsAssumption, OwnerAssumption
               PROVE  FriendInvitationsSpec => []InvitationsTypeOK
    OBVIOUS
  <1> USE OwnerAssumption DEF OwnerAssumption
  <1>0. TypeOK' => (Friends \subseteq Guests)'
    BY FriendsAreGuests, PTL
  <1>1. FriendInvitationsInit => InvitationsTypeOK
    BY DEF FriendInvitationsInit, InvitationsTypeOK, Statuses, Guests
  <1>2. ASSUME TypeOK, TypeOK', InvitationsTypeOK, [FriendInvitationsNext]_vars
        PROVE  InvitationsTypeOK'
    <2> USE <1>2 DEF InvitationsTypeOK
    <2>1. Friends \subseteq Guests /\ Friends' \subseteq Guests
      BY FriendsAreGuests, <1>0, <1>2 DEF Guests
    <2>2. Tracked => befriended' \subseteq Guests
      BY <2>1 DEF Tracked
    <2>3. CASE AddressBook \/ Candidates \/ End \/ RollBack
      BY <2>1, <2>2, <2>3 DEF AddressBook, Candidates, End, RollBack
    <2>4. CASE CommitBatch
      BY <2>2, <2>4 DEF CommitBatch, Inserted, Statuses
    <2>5. ASSUME NEW chosen \in SUBSET page, BeginBatch(chosen) PROVE InvitationsTypeOK'
      BY <2>2, <2>5 DEF BeginBatch
    <2>6. ASSUME NEW u \in Guests, Insert(u) PROVE InvitationsTypeOK'
      BY <2>1, <2>2, <2>6 DEF Insert, Invites
    <2>7. ASSUME NEW u \in Guests, AcceptInvitation(u) \/ DeclineInvitation(u) \/ JoinByLink(u)
          PROVE  InvitationsTypeOK'
      BY <2>7 DEF AcceptInvitation, DeclineInvitation, JoinByLink, Marked, Statuses, Guests
    <2>8. CASE UNCHANGED vars
      BY <2>8 DEF vars, meetingVars
    <2>9. QED
      BY <1>2, <2>3, <2>4, <2>5, <2>6, <2>7, <2>8 DEF FriendInvitationsNext
  <1>3. FriendInvitationsSpec => []TypeOK
    BY InvitationsKeepTheBook, BookIsTyped
  <1>4. QED
    BY <1>1, <1>2, <1>3, PTL DEF FriendInvitationsSpec
==============================================================================
