-------------------------------- MODULE Polls --------------------------------
(***************************************************************************)
(* internal/poll: the questions participants put to each other beside the   *)
(* plan and the time, from the draft of a meeting until it is over.         *)
(*                                                                          *)
(* Each request locks the row of the meeting and is one action.  A poll is  *)
(* named by its idempotency key; requests that are refused, replayed or     *)
(* change nothing are stuttering steps.  The steps of the meeting itself    *)
(* (Meeting) appear as Advance and Join.                                    *)
(***************************************************************************)
EXTENDS Naturals, FiniteSets

CONSTANTS
    Users, Owner,
    PollIds,     \* idempotency keys of polls
    Options,     \* options of a poll
    Limit,       \* polls of a meeting: 10 in the code
    MaxVersion,  \* bound of the model on the version counter
    None

Row == [by : Users, mode : {"single", "multiple"}, revote : BOOLEAN,
        due : {"never", "ahead", "passed"},
        state : {"open", "closed"}, chosen : Options \cup {None}]

ASSUME PollsAssumption ==
    /\ Owner \in Users /\ None \notin Row \cup Options
    /\ Limit \in Nat \ {0} /\ MaxVersion \in Nat \ {0}

VARIABLES
    phase,    \* meetings.state, "over" standing for completed and cancelled
    version,  \* meetings.version
    members,  \* active participants
    polls,    \* polls by key
    votes,    \* poll_votes: options by poll and user
    ballots   \* new_option_ids of the last poll_vote_history row of each user

vars == <<phase, version, members, polls, votes, ballots>>

Listed == {p \in PollIds : polls[p] # None}
NoVotes == [u \in Users |-> {}]

(* Plausible mistakes in the operators below; no action uses them.           *)
AnyListed(p) == p \in Listed
RecordsNull(p, u, chosen) ==
    ballots' = [ballots EXCEPT ![p][u] = IF chosen = {} THEN {None} ELSE chosen]

------------------------------------------------------------------------------
Init ==
    /\ phase = "draft" /\ version = 1
    /\ members = {Owner}
    /\ polls = [p \in PollIds |-> None]
    /\ votes = [p \in PollIds |-> NoVotes] /\ ballots = votes

(* TouchMeeting.                                                             *)
Touch == version < MaxVersion /\ version' = version + 1

Participates(u) == u \in members

TakesPolls == phase \in {"draft", "collecting", "scheduled"}

(* due is "never" without a deadline, which else must be ahead.              *)
Create(p, u, mode, revote, due) ==
    /\ TakesPolls /\ Participates(u)
    /\ p \notin Listed /\ Cardinality(Listed) < Limit
    /\ polls' = [polls EXCEPT ![p] =
                   [by |-> u, mode |-> mode, revote |-> revote, due |-> due,
                    state |-> "open", chosen |-> None]]
    /\ Touch
    /\ UNCHANGED <<phase, members, votes, ballots>>

InDraft == phase = "draft"

(* Options, votes and history of a deleted poll go with it.                  *)
Delete(p) ==
    /\ InDraft
    /\ p \in Listed
    /\ polls' = [polls EXCEPT ![p] = None]
    /\ votes' = [votes EXCEPT ![p] = NoVotes]
    /\ ballots' = [ballots EXCEPT ![p] = NoVotes]
    /\ Touch
    /\ UNCHANGED <<phase, members>>

Deciding == phase \in {"collecting", "scheduled"}
IsOpen(p) == p \in Listed /\ polls[p].state = "open"
InTime(p) == polls[p].due # "passed"
Countable(p, chosen) == polls[p].mode = "single" => Cardinality(chosen) <= 1
MayRevote(p, u, chosen) == polls[p].revote \/ votes[p][u] = {}
Records(p, u, chosen) == ballots' = [ballots EXCEPT ![p][u] = chosen]

Vote(p, u, chosen) ==
    /\ Deciding /\ Participates(u)
    /\ IsOpen(p) /\ InTime(p)
    /\ Countable(p, chosen)
    /\ chosen # votes[p][u]
    /\ MayRevote(p, u, chosen)
    /\ votes' = [votes EXCEPT ![p][u] = chosen]
    /\ Records(p, u, chosen)
    /\ Touch
    /\ UNCHANGED <<phase, members, polls>>

(* GetPollForManagerForUpdate: the owner of the meeting or of the poll.      *)
Close(p, u, chosen) ==
    /\ Deciding
    /\ IsOpen(p) /\ u \in {Owner, polls[p].by}
    /\ polls' = [polls EXCEPT ![p].state = "closed", ![p].chosen = chosen]
    /\ Touch
    /\ UNCHANGED <<phase, members, votes, ballots>>

(* The clock passes polls.deadline; nothing is written.                      *)
DeadlinePasses(p) ==
    /\ p \in Listed /\ polls[p].due = "ahead"
    /\ polls' = [polls EXCEPT ![p].due = "passed"]
    /\ UNCHANGED <<phase, version, members, votes, ballots>>

(* Steps of Meeting: publication, decision or end, and a new participant.    *)
Advance(next) ==
    /\ \/ phase = "draft" /\ next \in {"collecting", "scheduled", "over"}
       \/ phase = "collecting" /\ next \in {"scheduled", "over"}
       \/ phase = "scheduled" /\ next = "over"
    /\ phase' = next
    /\ Touch
    /\ UNCHANGED <<members, polls, votes, ballots>>

Join(u) ==
    /\ phase # "over" /\ u \notin members
    /\ members' = members \cup {u}
    /\ Touch
    /\ UNCHANGED <<phase, polls, votes, ballots>>

Next ==
    \/ \E p \in PollIds, u \in Users, mode \in {"single", "multiple"},
          revote \in BOOLEAN, due \in {"never", "ahead"} : Create(p, u, mode, revote, due)
    \/ \E p \in PollIds : Delete(p) \/ DeadlinePasses(p)
    \/ \E p \in PollIds, u \in Users, chosen \in SUBSET Options : Vote(p, u, chosen)
    \/ \E p \in PollIds, u \in Users, chosen \in Options \cup {None} : Close(p, u, chosen)
    \/ \E next \in {"collecting", "scheduled", "over"} : Advance(next)
    \/ \E u \in Users : Join(u)

Spec == Init /\ [][Next]_vars

------------------------------------------------------------------------------
TypeOK ==
    /\ phase \in {"draft", "collecting", "scheduled", "over"} /\ version \in 1..MaxVersion
    /\ members \subseteq Users
    /\ polls \in [PollIds -> Row \cup {None}]
    /\ votes \in [PollIds -> [Users -> SUBSET Options]]
    /\ ballots \in [PollIds -> [Users -> SUBSET Options]]

(* An answer that is final stays, and its poll with it: because the poll     *)
(* does not allow another, its deadline has passed, it was closed, or the    *)
(* meeting is over; and a closed poll keeps its outcome, whoever asks again  *)
(* with another one.                                                         *)
Final(p, u) ==
    \/ ~polls[p].revote /\ votes[p][u] # {}
    \/ polls[p].due = "passed" \/ polls[p].state = "closed" \/ phase = "over"
FinalAnswersStay ==
    [][\A p \in Listed :
         /\ \A u \in Users : Final(p, u) /\ votes[p][u] # {} =>
               p \in Listed' /\ votes'[p][u] = votes[p][u]
         /\ polls[p].state = "closed" => p \in Listed' /\ polls'[p].chosen = polls[p].chosen]_vars

(* Whatever a participant sees of the polls changes with the version, except *)
(* that a deadline passes.                                                   *)
Visible == <<votes, Listed, {p \in Listed : polls[p].state = "closed"}, members, phase>>
VersionTracksPolls == [][Visible' # Visible => version' = version + 1]_vars
==============================================================================
