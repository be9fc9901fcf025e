------------------------------- MODULE Meeting -------------------------------
(***************************************************************************)
(* One meeting: the row of "meetings" and the rows that hang from it        *)
(* (options, link invitations, friend invitations, participants, plan       *)
(* votes, availability and attendance answers).                             *)
(*                                                                          *)
(* Every mutating request runs in one READ COMMITTED transaction whose      *)
(* first statement locks the row of the meeting (FOR UPDATE), so requests   *)
(* on one meeting are serialised and each is one action here.  A request    *)
(* the code refuses, and a retry it answers from what is already stored,    *)
(* change nothing: they are stuttering steps.                               *)
(*                                                                          *)
(* A row of plan_options, time_options or invitations is named by its       *)
(* idempotency key, which the schema makes unique within the meeting.       *)
(***************************************************************************)
EXTENDS Naturals, FiniteSets

CONSTANTS
    Users,        \* accounts, the owner of the meeting among them
    Owner,
    PlanIds,      \* idempotency keys of plan options
    TimeIds,      \* idempotency keys of time options
    FixedPlan,    \* key of the plan option Create stores for a fixed meeting
    FixedTime,    \* key of the time option Create stores for a fixed meeting
    Texts,        \* titles, descriptions and locations, as opaque values
    Slots,        \* (starts_at, ends_at) pairs
    Links,        \* idempotency keys of link invitations, one secret each
    Answers,      \* availability statuses other than unanswered
    Replies,      \* attendance statuses other than unanswered
    OptionLimit,  \* generate_series(0, 19): 20 positions in the code
    MaxVersion,   \* bound of the model on the version counter
    None          \* NULL: no row, no answer, no scope

LinkStates == {"active", "expired", "revoked"}
InviteStates == {"pending", "accepted", "declined"}
TimeRow == [plan : PlanIds \cup {None}, slot : Slots]

ASSUME MeetingAssumption ==
    /\ Owner \in Users
    /\ FixedPlan \in PlanIds /\ FixedTime \in TimeIds
    /\ IsFiniteSet(PlanIds) /\ IsFiniteSet(TimeIds)
    /\ OptionLimit \in Nat \ {0} /\ MaxVersion \in Nat \ {0}
    /\ None \notin PlanIds \cup TimeIds \cup Texts \cup Slots
    /\ None \notin Answers \cup Replies \cup TimeRow
    /\ None \notin LinkStates \cup InviteStates

VARIABLES
    mode,        \* meetings.coordination_mode
    state,       \* meetings.state
    version,     \* meetings.version
    title,       \* the descriptive columns of meetings
    decision,    \* meetings.selected_plan_option_id, selected_time_option_id
    plans,       \* plan_options: text by key
    times,       \* time_options: scope and slot by key
    links,       \* invitations by key
    invited,     \* meeting_friend_invitations.status by invitee
    members,     \* active rows of meeting_participants
    votes,       \* plan_votes by user
    ballots,     \* new_plan_option_id of the last plan_vote_history row by user
    answers,     \* availability_votes by user and time option
    replies      \* attendance_responses by user

rowVars   == <<mode, state, version, title, decision>>
setupVars == <<plans, times>>
entryVars == <<links, invited, members>>
voteVars  == <<votes, ballots, answers, replies>>
vars == <<rowVars, setupVars, entryVars, voteVars>>

Modes  == {"planning", "fixed"}
States == {"draft", "collecting", "scheduled", "completed", "cancelled"}

Plans == {p \in PlanIds : plans[p] # None}
Times == {t \in TimeIds : times[t] # None}
Unrevoked == {l \in Links : links[l] \in {"active", "expired"}}

Undecided == [plan |-> None, time |-> None]
Content == <<state, title, decision, plans, times, members, votes, answers, replies>>

(* Plausible mistakes in the operators below; no action uses them.           *)
CompatibleAny(p, t) == TRUE
AtLeastOne(S) == S # {}
RevokeUnexpired == [l \in Links |-> IF links[l] = "active" THEN "revoked" ELSE links[l]]
CollectsStill == state \in {"collecting", "scheduled"}
AcceptsAfterCompletion == state \in {"draft", "collecting", "scheduled", "completed"}
RescheduledUnchecked(slot) ==
    [t \in TimeIds |-> IF t \in Times THEN [plan |-> None, slot |-> slot] ELSE None]
NeverTouch(u) == UNCHANGED version
AnyNotCancelled == state # "cancelled"
NoCascade(gone) == UNCHANGED <<times, answers>>

(* decision.compatible                                                       *)
Compatible(p, t) == times[t].plan \in {None, p}

(* planCount < 2 || timeCount < 2                                            *)
AtLeastTwo(S) == \E x, y \in S : x # y

------------------------------------------------------------------------------
(* PostgresRepository.Create: the first committed state of a meeting.  A     *)
(* fixed meeting is stored with its one plan and its one time.               *)
Init ==
    /\ mode \in Modes
    /\ state = "draft" /\ version = 1 /\ decision = Undecided
    /\ title \in Texts
    /\ \E slot \in Slots :
         /\ plans = [p \in PlanIds |->
                       IF mode = "fixed" /\ p = FixedPlan THEN title ELSE None]
         /\ times = [t \in TimeIds |->
                       IF mode = "fixed" /\ t = FixedTime
                       THEN [plan |-> None, slot |-> slot] ELSE None]
    /\ links = [l \in Links |-> None]
    /\ invited = [u \in Users |-> None]
    /\ members = {Owner}
    /\ votes = [u \in Users |-> None] /\ ballots = votes
    /\ answers = [u \in Users |-> [t \in TimeIds |-> None]]
    /\ replies = [u \in Users |-> None]

(* TouchMeeting, and the same "version = version + 1" of the statements that *)
(* change the row of the meeting itself.                                     *)
Touch == version < MaxVersion /\ version' = version + 1

------------------------------------------------------------------------------
(* The owner's requests while the meeting is being set up.                   *)

(* Update replaces the metadata; "slot" is the new time, None when starts_at *)
(* is absent.  Of a fixed meeting it also rewrites the text of the only plan *)
(* and, if a time is given, slot and scope of the only time.                 *)
Editable == state = "draft" \/ (mode = "fixed" /\ state = "scheduled")

Rescheduled(slot) ==
    IF slot = None THEN times
    ELSE [t \in TimeIds |-> IF t \in Times THEN [plan |-> None, slot |-> slot] ELSE None]

Update(expected, text, slot) ==
    /\ Editable
    /\ expected = version
    /\ slot # None => mode = "fixed" /\ \E t \in Times : Times = {t}
    /\ Touch
    /\ title' = text
    /\ plans' = IF mode = "fixed" /\ \E p \in Plans : Plans = {p}
                THEN [p \in PlanIds |-> IF p \in Plans THEN text ELSE None]
                ELSE plans
    /\ times' = Rescheduled(slot)
    /\ UNCHANGED <<mode, state, decision, entryVars, voteVars>>

AddPlanOption(p, text) ==
    /\ state = "draft"
    /\ p \notin Plans
    /\ Cardinality(Plans) < OptionLimit
    /\ Touch
    /\ plans' = [plans EXCEPT ![p] = text]
    /\ UNCHANGED <<mode, state, title, decision, times, entryVars, voteVars>>

UpdatePlanOption(expected, p, text) ==
    /\ state = "draft" /\ expected = version
    /\ p \in Plans
    /\ Touch
    /\ plans' = [plans EXCEPT ![p] = text]
    /\ UNCHANGED <<mode, state, title, decision, times, entryVars, voteVars>>

(* Foreign keys: what ON DELETE CASCADE removes with time options "gone".    *)
WithoutTimes(gone) ==
    /\ times' = [t \in TimeIds |-> IF t \in gone THEN None ELSE times[t]]
    /\ answers' = [u \in Users |-> [t \in TimeIds |->
                      IF t \in gone THEN None ELSE answers[u][t]]]

DeletePlanOption(p) ==
    /\ state = "draft"
    /\ p \in Plans
    /\ Touch
    /\ plans' = [plans EXCEPT ![p] = None]
    /\ WithoutTimes({t \in Times : times[t].plan = p})
    /\ votes' = [u \in Users |-> IF votes[u] = p THEN None ELSE votes[u]]
    /\ UNCHANGED <<mode, state, title, decision, entryVars, ballots, replies>>

(* The unique constraint on (meeting, scope, starts_at, ends_at).            *)
FreeSlot(t, scope, slot) ==
    \A other \in Times \ {t} : times[other] # [plan |-> scope, slot |-> slot]

AddTimeOption(t, scope, slot) ==
    /\ state = "draft"
    /\ t \notin Times
    /\ Cardinality(Times) < OptionLimit
    /\ scope \in Plans \cup {None}
    /\ FreeSlot(t, scope, slot)
    /\ Touch
    /\ times' = [times EXCEPT ![t] = [plan |-> scope, slot |-> slot]]
    /\ UNCHANGED <<mode, state, title, decision, plans, entryVars, voteVars>>

UpdateTimeOption(expected, t, scope, slot) ==
    /\ state = "draft" /\ expected = version
    /\ scope \in Plans \cup {None}
    /\ t \in Times
    /\ FreeSlot(t, scope, slot)
    /\ Touch
    /\ times' = [times EXCEPT ![t] = [plan |-> scope, slot |-> slot]]
    /\ UNCHANGED <<mode, state, title, decision, plans, entryVars, voteVars>>

DeleteTimeOption(t) ==
    /\ state = "draft"
    /\ t \in Times
    /\ Touch
    /\ WithoutTimes({t})
    /\ UNCHANGED <<mode, state, title, decision, plans, entryVars,
                   votes, ballots, replies>>

------------------------------------------------------------------------------
(* Link invitations.                                                         *)

RevokeActiveInvitations ==
    [l \in Links |-> IF l \in Unrevoked THEN "revoked" ELSE links[l]]

AcceptsLinks == state = "collecting" \/ (mode = "fixed" /\ state = "scheduled")

(* Publishing the first link is what leaves the draft.                       *)
OpenCollecting ==
    /\ state = "draft" /\ mode = "planning"
    /\ AtLeastTwo(Plans) /\ AtLeastTwo(Times)
    /\ state' = "collecting" /\ UNCHANGED decision

ScheduleFixed ==
    /\ state = "draft" /\ mode = "fixed"
    /\ \E p \in Plans, t \in Times :
         /\ Plans = {p} /\ Times = {t} /\ Compatible(p, t)
         /\ decision' = [plan |-> p, time |-> t]
    /\ state' = "scheduled"

RotateLink == AcceptsLinks /\ UNCHANGED <<state, decision>>

CreateInvitation(l) ==
    /\ links[l] = None
    /\ OpenCollecting \/ ScheduleFixed \/ RotateLink
    /\ links' = [RevokeActiveInvitations EXCEPT ![l] = "active"]
    /\ Touch
    /\ UNCHANGED <<mode, title, setupVars, invited, members, voteVars>>

RevokeInvitation ==
    /\ AcceptsLinks
    /\ Unrevoked # {}
    /\ links' = RevokeActiveInvitations
    /\ Touch
    /\ UNCHANGED <<mode, state, title, decision, setupVars, invited, members,
                   voteVars>>

(* expires_at passes; nothing is written, the version does not move.         *)
ExpireInvitation(l) ==
    /\ links[l] = "active"
    /\ links' = [links EXCEPT ![l] = "expired"]
    /\ UNCHANGED <<rowVars, setupVars, invited, members, voteVars>>

JoinInvitation(u, l) ==
    /\ AcceptsLinks
    /\ links[l] = "active"
    /\ u \notin members
    /\ members' = members \cup {u}
    /\ Touch
    /\ UNCHANGED <<mode, state, title, decision, setupVars, links, invited,
                   voteVars>>

------------------------------------------------------------------------------
(* Friend invitations.  Whether Owner and u are friends at the moment, and   *)
(* whether a day has passed since the selected time, are left open: a        *)
(* refusal on either changes nothing.                                        *)

AcceptsParticipants == state \in {"draft", "collecting", "scheduled"}

SendFriendInvitation(u) ==
    /\ AcceptsParticipants
    /\ u \notin members
    /\ invited[u] = None
    /\ invited' = [invited EXCEPT ![u] = "pending"]
    /\ UNCHANGED <<rowVars, setupVars, links, members, voteVars>>

TouchIfJoining(u) == IF u \in members THEN UNCHANGED version ELSE Touch

AcceptFriendInvitation(u) ==
    /\ invited[u] = "pending"
    /\ AcceptsParticipants
    /\ invited' = [invited EXCEPT ![u] = "accepted"]
    /\ members' = members \cup {u}
    /\ TouchIfJoining(u)
    /\ UNCHANGED <<mode, state, title, decision, setupVars, links, voteVars>>

DeclineFriendInvitation(u) ==
    /\ invited[u] = "pending"
    /\ invited' = [invited EXCEPT ![u] = "declined"]
    /\ UNCHANGED <<rowVars, setupVars, links, members, voteVars>>

------------------------------------------------------------------------------
(* What participants answer.                                                 *)

Collects == state = "collecting"

(* GetMeetingForUser: an active row of meeting_participants.                 *)
Participates(u) == u \in members

(* CreatePlanVoteHistory appends the new choice.                             *)
AppendHistory(u, p) == ballots' = [ballots EXCEPT ![u] = p]

(* p is None when the vote is withdrawn.                                     *)
Vote(u, p) ==
    /\ Collects
    /\ Participates(u)
    /\ p \in Plans \cup {None} /\ p # votes[u]
    /\ votes' = [votes EXCEPT ![u] = p]
    /\ AppendHistory(u, p)
    /\ Touch
    /\ UNCHANGED <<mode, state, title, decision, setupVars, entryVars,
                   answers, replies>>

SetAvailability(u, t, status) ==
    /\ Collects
    /\ Participates(u)
    /\ t \in Times /\ status # answers[u][t]
    /\ answers' = [answers EXCEPT ![u][t] = status]
    /\ Touch
    /\ UNCHANGED <<mode, state, title, decision, setupVars, entryVars,
                   votes, ballots, replies>>

SetAttendance(u, status) ==
    /\ mode = "fixed" /\ state = "scheduled"
    /\ Participates(u)
    /\ status # replies[u]
    /\ replies' = [replies EXCEPT ![u] = status]
    /\ Touch
    /\ UNCHANGED <<mode, state, title, decision, setupVars, entryVars,
                   votes, ballots, answers>>

------------------------------------------------------------------------------
(* The owner's final decision and the two ways a meeting ends.               *)

Finalize(p, t) ==
    /\ state = "collecting"
    /\ p \in Plans /\ t \in Times /\ Compatible(p, t)
    /\ state' = "scheduled"
    /\ decision' = [plan |-> p, time |-> t]
    /\ links' = RevokeActiveInvitations
    /\ Touch
    /\ UNCHANGED <<mode, title, setupVars, invited, members, voteVars>>

(* "open" is the number of requirements not completed, see Preparation.      *)
Complete(open) ==
    /\ state = "scheduled"
    /\ open = 0
    /\ state' = "completed"
    /\ links' = RevokeActiveInvitations
    /\ Touch
    /\ UNCHANGED <<mode, title, decision, setupVars, invited, members, voteVars>>

Cancellable == state \in {"draft", "collecting", "scheduled"}

Cancel ==
    /\ Cancellable
    /\ state' = "cancelled"
    /\ links' = RevokeActiveInvitations
    /\ Touch
    /\ UNCHANGED <<mode, title, decision, setupVars, invited, members, voteVars>>

------------------------------------------------------------------------------
Setup ==
    \/ \E text \in Texts, slot \in Slots \cup {None} : Update(version, text, slot)
    \/ \E p \in PlanIds, text \in Texts :
         AddPlanOption(p, text) \/ UpdatePlanOption(version, p, text)
    \/ \E p \in PlanIds : DeletePlanOption(p)
    \/ \E t \in TimeIds, scope \in PlanIds \cup {None}, slot \in Slots :
         AddTimeOption(t, scope, slot) \/ UpdateTimeOption(version, t, scope, slot)
    \/ \E t \in TimeIds : DeleteTimeOption(t)

Entry ==
    \/ \E l \in Links : CreateInvitation(l) \/ ExpireInvitation(l)
    \/ RevokeInvitation
    \/ \E u \in Users, l \in Links : JoinInvitation(u, l)
    \/ \E u \in Users : \/ SendFriendInvitation(u)
                        \/ AcceptFriendInvitation(u)
                        \/ DeclineFriendInvitation(u)

Answer ==
    \/ \E u \in Users, p \in PlanIds \cup {None} : Vote(u, p)
    \/ \E u \in Users, t \in TimeIds, a \in Answers \cup {None} : SetAvailability(u, t, a)
    \/ \E u \in Users, r \in Replies \cup {None} : SetAttendance(u, r)

Close ==
    \/ \E p \in PlanIds, t \in TimeIds : Finalize(p, t)
    \/ \E open \in {0, 1} : Complete(open)
    \/ Cancel

Next == Setup \/ Entry \/ Answer \/ Close

Spec == Init /\ [][Next]_vars

------------------------------------------------------------------------------
TypeOK ==
    /\ mode \in Modes /\ state \in States /\ version \in 1..MaxVersion
    /\ title \in Texts
    /\ decision \in [plan : PlanIds \cup {None}, time : TimeIds \cup {None}]
    /\ plans \in [PlanIds -> Texts \cup {None}]
    /\ times \in [TimeIds -> TimeRow \cup {None}]
    /\ links \in [Links -> LinkStates \cup {None}]
    /\ invited \in [Users -> InviteStates \cup {None}]
    /\ members \subseteq Users
    /\ votes \in [Users -> PlanIds \cup {None}]
    /\ ballots \in [Users -> PlanIds \cup {None}]
    /\ answers \in [Users -> [TimeIds -> Answers \cup {None}]]
    /\ replies \in [Users -> Replies \cup {None}]

(* A meeting is decided exactly when it has been scheduled, and what it was  *)
(* decided on exists and fits together: the chosen time is open to every     *)
(* plan or belongs to the chosen one.  Edits of a scheduled fixed meeting    *)
(* must keep this, and find exactly the chosen plan and time.                *)
DecisionSound ==
    /\ state \in {"draft", "collecting"} => decision = Undecided
    /\ state \in {"scheduled", "completed"} =>
         /\ decision.plan \in Plans /\ decision.time \in Times
         /\ times[decision.time].plan \in {None, decision.plan}
         /\ mode = "fixed" => Plans = {decision.plan} /\ Times = {decision.time}

(* At most one link invitation is not revoked, and none once the meeting     *)
(* takes no one in by link: a forgotten link never opens a closed meeting.   *)
LinkGate ==
    /\ \A k, l \in Unrevoked : k = l
    /\ Unrevoked # {} => AcceptsLinks

(* While a group is deciding there is a choice to make, and at least one     *)
(* plan and time that Finalize accepts: the owner is never stuck.            *)
Decidable ==
    state = "collecting" =>
        /\ mode = "planning"
        /\ \E p, q \in Plans : p # q
        /\ \E t, v \in Times : t # v
        /\ \E p \in Plans, t \in Times : times[t].plan \in {None, p}

(* What points at an option points at an option that exists: the scope of a  *)
(* time option, a vote, an availability answer.                              *)
ReferencesSound ==
    /\ \A t \in Times : times[t].plan \in Plans \cup {None}
    /\ \A u \in Users : votes[u] \in Plans \cup {None}
    /\ \A u \in Users, t \in TimeIds : answers[u][t] # None => t \in Times

(* Only participants have answered, nobody before the meeting left its       *)
(* draft, and the last entry of the history of plan votes of a user tells    *)
(* the vote the user has now.                                                *)
EvidenceSound ==
    /\ \A u \in Users \ members :
         /\ votes[u] = None /\ replies[u] = None
         /\ \A t \in TimeIds : answers[u][t] = None
    /\ ballots = votes
    /\ state = "draft" => \A u \in Users :
         /\ votes[u] = None /\ replies[u] = None
         /\ \A t \in TimeIds : answers[u][t] = None

(* A completed or cancelled meeting is an archive: nothing of it changes     *)
(* again, no one enters and no link becomes usable (a pending friend         *)
(* invitation can still be declined).                                        *)
Closed == state \in {"completed", "cancelled"}
ArchiveReadOnly ==
    [][Closed =>
         UNCHANGED <<rowVars, setupVars, links, members, voteVars>>]_vars

(* What participants decide on is frozen when the first link is published;   *)
(* only a fixed meeting can be edited later, in its text and time.           *)
SetupFrozen ==
    [][state # "draft" =>
         /\ Plans' = Plans /\ Times' = Times
         /\ mode = "planning" => UNCHANGED <<title, plans, times>>]_vars

(* The evidence of a decision is given while the meeting is collecting, by   *)
(* participants alone, each vote together with its entry in the history of   *)
(* votes; it does not change after the decision, and no reply to a fixed     *)
(* meeting is anybody else's (Vote, SetAvailability, SetAttendance).         *)
EvidenceFrozen ==
    [][\A u \in Users :
         /\ <<votes[u], ballots[u], answers[u]>>' # <<votes[u], ballots[u], answers[u]>> =>
              state = "collecting" /\ u \in members /\ ballots'[u] = votes'[u]
         /\ replies'[u] # replies[u] => u \in members]_vars

(* The version moves with every change a participant can see, one at a time: *)
(* clients and the live stream rely on nothing else to notice a change.      *)
VersionTracksContent ==
    [][/\ Content' # Content => version' = version + 1
       /\ version' \in {version, version + 1}]_vars

(* The meeting keeps the promises of MeetingLifecycle.                       *)
Promise == INSTANCE MeetingLifecycle WITH
    People <- Users, Host <- Owner,
    kind <- mode, phase <- state, choice <- decision, guests <- members
KeepsLifecycle == Promise!Lifecycle
==============================================================================
