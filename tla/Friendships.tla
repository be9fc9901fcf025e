------------------------------ MODULE Friendships ------------------------------
(***************************************************************************)
(* The address book: requests between accounts, their acceptance and end,    *)
(* and the overview of one account, which six statements read one after      *)
(* another while the others go on.                                           *)
(*                                                                          *)
(* A person means one request by its id.  What a browser was told to accept   *)
(* may be handled at any later time, and more than once.  The limits of a     *)
(* page are left out: the lists are short enough.                             *)
(***************************************************************************)
EXTENDS Naturals, FiniteSets

CONSTANTS
    Users,
    Ids,      \* uuids of friendships; one is never used again
    Reader,   \* the account whose overview is modelled
    None

Row == [requester : Users, addressee : Users, status : {"pending", "accepted"}]

FriendshipsAssumption == None \notin Ids \cup Row /\ Reader \in Users

VARIABLES
    rows,     \* friendships, by id
    used,     \* ids given away so far
    accepts,  \* history: who asked to accept which request
    view      \* the overview under way or shown

friendVars == <<rows, used, accepts, view>>

Lists == <<"friend", "incoming", "outgoing">>
Kinds == {"friend", "incoming", "outgoing"}

Rows == {i \in Ids : rows[i] # None}
Pair(i) == {rows[i].requester, rows[i].addressee}

(* Plausible mistakes in the operators below; no action uses them.           *)
PendingRow(u, i) == i \in Rows /\ u \in Pair(i) /\ rows[i].status = "pending"
OutgoingFirst(n) == Lists[4 - (n + 1) \div 2]

------------------------------------------------------------------------------
(* The statements.                                                           *)

(* friendships_user_pair_key: one row for two people, whoever asked.         *)
Taken(u, v) == \E i \in Rows : Pair(i) = {u, v}

InsertFriendRequest(u, v, i) ==
    [rows EXCEPT ![i] = [requester |-> u, addressee |-> v, status |-> "pending"]]

AcceptFriendRequest(u, i) ==
    i \in Rows /\ rows[i].addressee = u /\ rows[i].status = "pending"

DeletePendingFriendRequest(u, i) ==
    i \in Rows /\ u \in Pair(i) /\ rows[i].status = "pending"

DeleteAcceptedFriendship(u, v) ==
    {i \in Rows : Pair(i) = {u, v} /\ rows[i].status = "accepted"}

ListFriends(u) == {i \in Rows : u \in Pair(i) /\ rows[i].status = "accepted"}
ListIncoming(u) == {i \in Rows : rows[i].addressee = u /\ rows[i].status = "pending"}
ListOutgoing(u) == {i \in Rows : rows[i].requester = u /\ rows[i].status = "pending"}

Listed(kind, u) ==
    CASE kind = "friend" -> ListFriends(u)
      [] kind = "incoming" -> ListIncoming(u)
      [] kind = "outgoing" -> ListOutgoing(u)

(* The request a search offers beside a person, of either direction.         *)
SearchUsersByNickname(u) == ListFriends(u) \cup ListIncoming(u) \cup ListOutgoing(u)

------------------------------------------------------------------------------
Init ==
    /\ rows = [i \in Ids |-> None]
    /\ used = {} /\ accepts = {}
    /\ view = [at |-> 0, total |-> [k \in Kinds |-> 0], items |-> [k \in Kinds |-> {}],
               steady |-> {}]

(* steady is history: the rows nobody changed since the overview began.      *)
Disturb(S) == view' = [view EXCEPT !.steady = @ \ S]

(* A request to oneself is refused by the service; one between two people    *)
(* who have a row already changes nothing.                                   *)
Send(u, v) ==
    /\ u # v /\ ~Taken(u, v)
    /\ \E i \in Ids \ used :
        /\ rows' = InsertFriendRequest(u, v, i)
        /\ used' = used \cup {i}
    /\ UNCHANGED <<accepts, view>>

(* A button of the dialog, or any other client of the two people.            *)
AskAccept(u, i) ==
    /\ i \in SearchUsersByNickname(u)
    /\ accepts' = accepts \cup {<<u, i>>}
    /\ UNCHANGED <<rows, used, view>>

Accept(u, i) ==
    /\ <<u, i>> \in accepts
    /\ AcceptFriendRequest(u, i)
    /\ rows' = [rows EXCEPT ![i].status = "accepted"]
    /\ Disturb({i}) /\ UNCHANGED <<used, accepts>>

(* Cancelled by its sender or declined by its addressee.                     *)
DeleteRequest(u, i) ==
    /\ DeletePendingFriendRequest(u, i)
    /\ rows' = [rows EXCEPT ![i] = None]
    /\ Disturb({i}) /\ UNCHANGED <<used, accepts>>

RemoveFriend(u, v) ==
    /\ u # v
    /\ DeleteAcceptedFriendship(u, v) # {}
    /\ rows' = [i \in Ids |-> IF i \in DeleteAcceptedFriendship(u, v) THEN None ELSE rows[i]]
    /\ Disturb(DeleteAcceptedFriendship(u, v))
    /\ UNCHANGED <<used, accepts>>

------------------------------------------------------------------------------
(* The overview: of each list first the total, then the rows.                *)

ListRead(n) == Lists[(n + 1) \div 2]

OpenOverview ==
    /\ view.at = 0
    /\ view' = [view EXCEPT !.at = 1, !.steady = SearchUsersByNickname(Reader)]
    /\ UNCHANGED <<rows, used, accepts>>

CountList ==
    /\ view.at \in {1, 3, 5}
    /\ view' = [view EXCEPT !.at = @ + 1,
                            !.total[ListRead(view.at)] =
                                Cardinality(Listed(ListRead(view.at), Reader))]
    /\ UNCHANGED <<rows, used, accepts>>

ReadList ==
    /\ view.at \in {2, 4, 6}
    /\ view' = [view EXCEPT !.at = @ + 1,
                            !.items[ListRead(view.at)] = Listed(ListRead(view.at), Reader)]
    /\ UNCHANGED <<rows, used, accepts>>

Change ==
    \/ \E u, v \in Users : Send(u, v) \/ RemoveFriend(u, v)
    \/ \E u \in Users, i \in Ids : AskAccept(u, i) \/ Accept(u, i) \/ DeleteRequest(u, i)

Next == Change \/ OpenOverview \/ CountList \/ ReadList

Spec == Init /\ [][Next]_friendVars

------------------------------------------------------------------------------
(* Rows are of their type and of two different people, with an id given away. *)
TypeOK ==
    /\ rows \in [Ids -> Row \cup {None}]
    /\ Rows \subseteq used /\ used \subseteq Ids
    /\ accepts \subseteq Users \X Ids
    /\ view.at \in 0..7
    /\ \A k \in Kinds : view.total[k] \in Nat /\ view.items[k] \subseteq Ids
    /\ view.steady \subseteq Rows
    /\ \A i \in Rows : rows[i].requester # rows[i].addressee

(* Two people who ask each other at once, and whoever asks again after a     *)
(* removal, still have one row between them (friendships_user_pair_key); and *)
(* friends are only people of whom the one who was asked accepted this very  *)
(* request: an acceptance that comes late or twice, after the request was    *)
(* withdrawn or the friendship removed and asked for anew, makes no friends  *)
(* (Accept looks the request up by id under a lock).                         *)
FriendsAgreed ==
    /\ \A i, j \in Rows : Pair(i) = Pair(j) => i = j
    /\ \A i \in Rows : rows[i].status = "accepted" => <<rows[i].addressee, i>> \in accepts

(* Because friends are read before requests, no row is in two lists of one   *)
(* overview, whatever is accepted meanwhile; and a row nobody touched is in  *)
(* its list and counted in its total (Overview).                             *)
OverviewSound ==
    view.at = 7 =>
        /\ \A j, k \in Kinds : j # k => view.items[j] \cap view.items[k] = {}
        /\ \A k \in Kinds :
            /\ view.steady \cap Listed(k, Reader) \subseteq view.items[k]
            /\ Cardinality(view.steady \cap Listed(k, Reader)) <= view.total[k]
=============================================================================
