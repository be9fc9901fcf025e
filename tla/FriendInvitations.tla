--------------------------- MODULE FriendInvitations ---------------------------
(***************************************************************************)
(* Invitations of friends to one meeting, composed with the address book:    *)
(* the owner's page lists the friends it may invite, sends a batch of them   *)
(* in one transaction, and meanwhile friendships come and go.  Each insert   *)
(* of the batch sees what is committed when it executes.  The batch and the  *)
(* answers lock the meeting, so they exclude each other.                     *)
(***************************************************************************)
EXTENDS Friendships

CONSTANT Owner

OwnerAssumption == Owner \in Users

VARIABLES
    invitation,    \* meeting_friend_invitations, by invitee
    participants,  \* active meeting_participants
    active,        \* the meeting is not over, or not long ago
    page,          \* the friends the owner's dialog lets choose
    batch,         \* the transaction of Send, None without one
    linked,        \* history: who came by the link of the meeting
    befriended     \* history: the owner's friends of any time since the batch began

meetingVars == <<invitation, participants, active, page, batch, linked, befriended>>
vars == <<friendVars, meetingVars>>

Statuses == {"none", "pending", "accepted", "declined"}
Guests == Users \ {Owner}

Friends == (UNION {Pair(i) : i \in ListFriends(Owner)}) \ {Owner}
Tracked == befriended' = (IF batch' = None THEN {} ELSE befriended \cup Friends')

(* Plausible mistakes in the operators below; no action uses them.           *)
Acquainted == (UNION {Pair(i) : i \in SearchUsersByNickname(Owner)}) \ {Owner}
InvitesAcquainted(u) == u \in Acquainted /\ u \notin participants

------------------------------------------------------------------------------
FriendInvitationsInit ==
    /\ Init
    /\ invitation = [u \in Guests |-> "none"]
    /\ participants = {Owner} /\ active = TRUE
    /\ page = {} /\ batch = None
    /\ linked = {} /\ befriended = {}

AddressBook ==
    /\ Change /\ UNCHANGED <<invitation, participants, active, page, batch, linked>>
    /\ Tracked

(* The dialog loads: friends who neither take part nor were ever invited.    *)
Candidates ==
    /\ active
    /\ page' = {u \in Friends : u \notin participants /\ invitation[u] = "none"}
    /\ UNCHANGED <<friendVars, invitation, participants, active, batch, linked, befriended>>

------------------------------------------------------------------------------
(* Send.                                                                     *)

(* The lock of the meeting is granted.                                       *)
BeginBatch(chosen) ==
    /\ batch = None /\ active
    /\ chosen # {}
    /\ batch' = [todo |-> chosen, new |-> {}]
    /\ UNCHANGED <<friendVars, invitation, participants, active, page, linked>>
    /\ Tracked

Invites(u) == u \in Friends /\ u \notin participants

(* ON CONFLICT DO NOTHING leaves an answer, or an open invitation, alone.    *)
Insert(u) ==
    /\ batch # None /\ u \in batch.todo
    /\ batch' = [todo |-> batch.todo \ {u},
                 new |-> IF Invites(u) THEN batch.new \cup {u} ELSE batch.new]
    /\ UNCHANGED <<friendVars, invitation, participants, active, page, linked>>
    /\ Tracked

Inserted(new) ==
    [u \in Guests |-> IF u \in new /\ invitation[u] = "none" THEN "pending" ELSE invitation[u]]

CommitBatch ==
    /\ batch # None /\ batch.todo = {}
    /\ invitation' = Inserted(batch.new)
    /\ batch' = None
    /\ UNCHANGED <<friendVars, participants, active, page, linked>>
    /\ Tracked

(* A statement fails, the client goes away or the process dies.              *)
RollBack ==
    /\ batch # None
    /\ batch' = None
    /\ UNCHANGED <<friendVars, invitation, participants, active, page, linked>>
    /\ Tracked

------------------------------------------------------------------------------
(* Answers; repeating the same one changes nothing.                          *)

Open(u) == invitation[u] = "pending"

Marked(u, answer) == [invitation EXCEPT ![u] = answer]

AcceptInvitation(u) ==
    /\ batch = None
    /\ Open(u) /\ active
    /\ participants' = participants \cup {u}
    /\ invitation' = Marked(u, "accepted")
    /\ UNCHANGED <<friendVars, active, page, batch, linked, befriended>>

(* Also of a meeting that is over.                                           *)
DeclineInvitation(u) ==
    /\ batch = None
    /\ Open(u)
    /\ invitation' = Marked(u, "declined")
    /\ UNCHANGED <<friendVars, participants, active, page, batch, linked, befriended>>

------------------------------------------------------------------------------
(* The rest of the meeting (Meeting.tla): someone joins by its link, and it  *)
(* ends or grows old.                                                        *)
JoinByLink(u) ==
    /\ batch = None /\ active /\ u \notin participants
    /\ participants' = participants \cup {u} /\ linked' = linked \cup {u}
    /\ UNCHANGED <<friendVars, invitation, active, page, batch, befriended>>

End ==
    /\ active' = FALSE
    /\ UNCHANGED <<friendVars, invitation, participants, page, batch, linked, befriended>>

FriendInvitationsNext ==
    \/ AddressBook \/ Candidates \/ CommitBatch \/ RollBack \/ End
    \/ \E chosen \in SUBSET page : BeginBatch(chosen)
    \/ \E u \in Guests :
        Insert(u) \/ AcceptInvitation(u) \/ DeclineInvitation(u) \/ JoinByLink(u)

FriendInvitationsSpec == FriendInvitationsInit /\ [][FriendInvitationsNext]_vars

------------------------------------------------------------------------------
(* The tables are of their types, and a batch holds guests.                  *)
InvitationsTypeOK ==
    /\ invitation \in [Guests -> Statuses]
    /\ Owner \in participants /\ participants \subseteq Users
    /\ active \in BOOLEAN
    /\ page \subseteq Guests
    /\ batch # None => batch.todo \subseteq Guests /\ batch.new \subseteq Guests
    /\ linked \subseteq Guests /\ befriended \subseteq Guests

(* However old the list is from which the owner chose, an invitation that a  *)
(* batch commits is for someone who was a friend during it; and an answer    *)
(* stands: inviting again after it, or answering otherwise from a second     *)
(* device, changes nothing (Send, Accept, Decline).                          *)
InvitedWereFriends ==
    [][\A u \in Guests :
          invitation'[u] # invitation[u] =>
              \/ invitation[u] = "none" /\ invitation'[u] = "pending" /\ u \in befriended
              \/ invitation[u] = "pending" /\ invitation'[u] \in {"accepted", "declined"}]_vars
=============================================================================
