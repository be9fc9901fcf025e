----------------------------- MODULE Preparation -----------------------------
(***************************************************************************)
(* internal/preparation: what has to be brought to a scheduled meeting, who *)
(* has claimed how much of it, and how that holds up the completion of the  *)
(* meeting (meeting.Complete).                                              *)
(*                                                                          *)
(* Every request locks the row of the meeting first, so each is one action. *)
(* A row of requirements is named by its idempotency key; requests that are *)
(* refused, replayed or change nothing are stuttering steps.                *)
(***************************************************************************)
EXTENDS Naturals, FiniteSets, FiniteSetsExt

CONSTANTS
    Users, Owner,
    Items,       \* idempotency keys of requirements
    Names,       \* lower(name), unique within the meeting
    Amount,      \* largest quantity: 100000 in the code
    Limit,       \* requirements of a meeting: 50 in the code
    MaxVersion,  \* bound of the model on the version counter
    None

Row == [name : Names, needed : 1..Amount, status : {"open", "completed"}]

PreparationAssumption ==
    /\ Owner \in Users /\ IsFiniteSet(Users)
    /\ Amount \in Nat \ {0} /\ Limit \in Nat \ {0} /\ MaxVersion \in Nat \ {0}
    /\ None \notin Row

VARIABLES
    state,    \* meetings.state, from the moment it is scheduled
    version,  \* meetings.version, counted from there
    members,  \* active participants
    rows,     \* requirements by key
    claims    \* requirement_claims.quantity by key and user, 0 without a row

vars == <<state, version, members, rows, claims>>

Listed == {i \in Items : rows[i] # None}
Claimed(i) == MapThenSumSet(LAMBDA u : claims[i][u], Users)
Open == {i \in Listed : rows[i].status = "open"}

(* Plausible mistakes in the operators below; no action uses them.           *)
RoomForEach(i, u, quantity) == quantity <= rows[i].needed
NobodyOpen == TRUE

------------------------------------------------------------------------------
(* The meeting has just been scheduled; nothing could be listed before.      *)
Init ==
    /\ state = "scheduled" /\ version = 1
    /\ members = {Owner}
    /\ rows = [i \in Items |-> None]
    /\ claims = [i \in Items |-> [u \in Users |-> 0]]

(* TouchMeeting.                                                             *)
Touch == version < MaxVersion /\ version' = version + 1

Editable == state = "scheduled"
IsOpen(i) == i \in Open
FreeName(i, name) == \A j \in Listed \ {i} : rows[j].name # name

Create(i, name, needed) ==
    /\ Editable
    /\ i \notin Listed /\ Cardinality(Listed) < Limit
    /\ FreeName(i, name)
    /\ rows' = [rows EXCEPT ![i] = [name |-> name, needed |-> needed, status |-> "open"]]
    /\ Touch
    /\ UNCHANGED <<state, members, claims>>

(* input.RequiredQuantity < claimed                                          *)
CoversClaims(i, needed) == needed >= Claimed(i)

Update(i, name, needed) ==
    /\ Editable /\ IsOpen(i)
    /\ CoversClaims(i, needed)
    /\ FreeName(i, name)
    /\ <<name, needed>> # <<rows[i].name, rows[i].needed>>
    /\ rows' = [rows EXCEPT ![i].name = name, ![i].needed = needed]
    /\ Touch
    /\ UNCHANGED <<state, members, claims>>

HasNoClaims(i) == Claimed(i) = 0

(* The claims of a deleted row go with it: ON DELETE CASCADE.                *)
Delete(i) ==
    /\ Editable /\ IsOpen(i)
    /\ HasNoClaims(i)
    /\ rows' = [rows EXCEPT ![i] = None]
    /\ claims' = [claims EXCEPT ![i] = [u \in Users |-> 0]]
    /\ Touch
    /\ UNCHANGED <<state, members>>

(* total - current + quantity <= required_quantity                           *)
Fits(i, u, quantity) == Claimed(i) - claims[i][u] + quantity <= rows[i].needed

Participates(u) == u \in members

(* UpsertRequirementClaim, and DeleteRequirementClaim for 0.                 *)
StoreClaim(i, u, quantity) == claims' = [claims EXCEPT ![i][u] = quantity]

SetClaim(i, u, quantity) ==
    /\ Editable /\ Participates(u) /\ IsOpen(i)
    /\ quantity # claims[i][u]
    /\ Fits(i, u, quantity)
    /\ StoreClaim(i, u, quantity)
    /\ Touch
    /\ UNCHANGED <<state, members, rows>>

FullyClaimed(i) == Claimed(i) = rows[i].needed

SetStatus(i, status) ==
    /\ Editable /\ i \in Listed
    /\ status # rows[i].status
    /\ status = "completed" => FullyClaimed(i)
    /\ rows' = [rows EXCEPT ![i].status = status]
    /\ Touch
    /\ UNCHANGED <<state, members, claims>>

(* A friend invitation accepted, or the link of a fixed meeting used.        *)
Join(u) ==
    /\ Editable /\ u \notin members
    /\ members' = members \cup {u}
    /\ Touch
    /\ UNCHANGED <<state, rows, claims>>

(* CountOpenRequirements                                                     *)
NothingOpen == Open = {}

Complete ==
    /\ state = "scheduled" /\ NothingOpen
    /\ state' = "completed"
    /\ Touch
    /\ UNCHANGED <<members, rows, claims>>

Cancel ==
    /\ state = "scheduled"
    /\ state' = "cancelled"
    /\ Touch
    /\ UNCHANGED <<members, rows, claims>>

Next ==
    \/ \E i \in Items, name \in Names, needed \in 1..Amount :
         Create(i, name, needed) \/ Update(i, name, needed)
    \/ \E i \in Items : Delete(i)
    \/ \E i \in Items, u \in Users, quantity \in 0..Amount : SetClaim(i, u, quantity)
    \/ \E i \in Items, status \in {"open", "completed"} : SetStatus(i, status)
    \/ \E u \in Users : Join(u)
    \/ Complete \/ Cancel

Spec == Init /\ [][Next]_vars

------------------------------------------------------------------------------
TypeOK ==
    /\ state \in {"scheduled", "completed", "cancelled"} /\ version \in 1..MaxVersion
    /\ members \subseteq Users
    /\ rows \in [Items -> Row \cup {None}]
    /\ claims \in [Items -> [Users -> 0..Amount]]

(* However claims, retractions and edits of the amount interleave, nobody    *)
(* is asked to bring more of a thing than is needed, only participants are   *)
(* asked, for what is on the list, and what is marked as completed is        *)
(* claimed in full, to the unit, until it is opened again.                   *)
ClaimsFit ==
    /\ \A i \in Listed : IF rows[i].status = "completed" THEN Claimed(i) = rows[i].needed
                                                        ELSE Claimed(i) <= rows[i].needed
    /\ \A i \in Items, u \in Users : claims[i][u] > 0 => i \in Listed /\ u \in members

(* A completed meeting left nothing undone: every requirement of it is       *)
(* completed and covered, and stays so.                                      *)
CompletedMeetingIsReady ==
    state = "completed" =>
        \A i \in Listed : rows[i].status = "completed" /\ Claimed(i) = rows[i].needed

(* Each change of the list or of a claim moves the version by one.           *)
VersionTracksList ==
    [][<<rows, claims, members, state>>' # <<rows, claims, members, state>> =>
         version' = version + 1]_vars
==============================================================================
