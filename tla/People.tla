------------------------------- MODULE People --------------------------------
(***************************************************************************)
(* Accounts beside a meeting: refresh sessions, the address book, and the    *)
(* address book with the invitations that depend on it.  Sessions share no   *)
(* table with the others, and invitations are explored with an address book  *)
(* of their own, so a behaviour is one of one of them, with the others at    *)
(* rest.                                                                     *)
(***************************************************************************)
EXTENDS Sessions

CONSTANTS
    People, Owner,
    Ids

VARIABLES
    part,  \* the component that moves
    rows, used, accepts, view,
    friendships, given, asked, overview,
    invitation, participants, active, friendPage, batch, linked, befriended

bookVars == <<rows, used, accepts, view>>
inviteVars == <<friendships, given, asked, overview,
                invitation, participants, active, friendPage, batch, linked, befriended>>

Book == INSTANCE Friendships WITH Users <- People, Reader <- Owner

Invite == INSTANCE FriendInvitations WITH Users <- People, Reader <- Owner,
    rows <- friendships, used <- given, accepts <- asked, view <- overview,
    page <- friendPage

ASSUME BookAssumed == Book!FriendshipsAssumption
ASSUME InviteAssumed == Invite!FriendshipsAssumption /\ Invite!OwnerAssumption

PeopleInit ==
    /\ part \in {"sessions", "book", "invitations"}
    /\ Init /\ Book!Init /\ Invite!FriendInvitationsInit

PeopleNext ==
    /\ UNCHANGED part
    /\ \/ part = "sessions" /\ Next /\ UNCHANGED <<bookVars, inviteVars>>
       \/ part = "book" /\ Book!Next /\ UNCHANGED <<vars, inviteVars>>
       \/ /\ part = "invitations" /\ Invite!FriendInvitationsNext
          /\ UNCHANGED <<vars, bookVars>>

PeopleSpec == PeopleInit /\ [][PeopleNext]_<<part, vars, bookVars, inviteVars>>

------------------------------------------------------------------------------
(* The three are of their types.                                             *)
PeopleTypeOK == TypeOK /\ Book!TypeOK /\ Invite!TypeOK /\ Invite!InvitationsTypeOK

(* Two people have one row between them, and friends are only who accepted   *)
(* this very request (Friendships).                                          *)
FriendsAgreed == Book!FriendsAgreed

(* No row is in two lists of one overview, and a row nobody touched is in    *)
(* its list (Friendships).                                                   *)
OverviewSound == Book!OverviewSound

(* A batch invites only who was a friend during it, and answers stand        *)
(* (FriendInvitations).                                                      *)
InvitedWereFriends == Invite!InvitedWereFriends
==============================================================================
