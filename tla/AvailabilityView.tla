-------------------------- MODULE AvailabilityView ---------------------------
(***************************************************************************)
(* GET /meetings/{id}/availability while a group is deciding: participants  *)
(* and answers are read by two statements outside a transaction, people     *)
(* join and answer in between, and buildView counts the answers, ranks the  *)
(* time options and recommends one per plan.                                *)
(*                                                                          *)
(* Options do not change while a meeting is collecting (Meeting,           *)
(* SetupFrozen), so they are constants here.                                *)
(***************************************************************************)
EXTENDS Integers, FiniteSets, Sequences

CONSTANTS
    Users, Owner,
    Plans,     \* plan options
    Scope,     \* time options in the order ListTimeOptions returns them: the
               \* plan each belongs to, None when open to every plan
    Start,     \* starts_at of each, as a number
    None

Statuses == {"preferred", "available", "if_needed", "unavailable"}

ViewAssumption ==
    /\ Owner \in Users /\ IsFiniteSet(Users) /\ None \notin Plans \cup Statuses
    /\ Scope \in Seq(Plans \cup {None}) /\ None \notin DOMAIN Scope
    /\ Start \in [DOMAIN Scope -> Int]

VARIABLES
    members,  \* active participants
    answers,  \* availability_votes: status by user and time option
    seen,     \* participants a request has listed, {} without one
    view      \* what the last step returned to its caller, NoView if nothing

vars == <<members, answers, seen, view>>

TimeOptions == DOMAIN Scope
NoView == [unanswered |-> [t \in TimeOptions |-> 0], best |-> [p \in Plans |-> None]]

(* Plausible mistakes in the operators below; no action uses them.           *)
ForgetsAnswered(counts, l, r) ==
    LET keys(t) == <<-counts[t].unavailable, counts[t].score, counts[t].preferred, -Start[t], -t>>
    IN \E i \in 1..5 :
         /\ keys(l)[i] > keys(r)[i]
         /\ \A j \in 1..5 : j < i => keys(l)[j] = keys(r)[j]
CountsGuests(people, found, t) ==
    Cardinality(people) - Cardinality({u \in Users \ {Owner} : found[u][t] # None})

------------------------------------------------------------------------------
(* buildView over the answers found.                                         *)
Count(found, t, status) == Cardinality({u \in Users : found[u][t] = status})

Tally(found, t) ==
    LET preferred == Count(found, t, "preferred")
        available == Count(found, t, "available")
        ifNeeded == Count(found, t, "if_needed")
        unavailable == Count(found, t, "unavailable")
    IN [preferred |-> preferred,
        unavailable |-> unavailable,
        answered |-> preferred + available + ifNeeded + unavailable,
        score |-> 3 * preferred + 2 * available + ifNeeded - 4 * unavailable]

Tallies(found) == [t \in TimeOptions |-> Tally(found, t)]

(* Counts.Unanswered starts at the number of participants listed and goes    *)
(* down with every answer found.                                             *)
Unanswered(people, found, t) ==
    Cardinality(people) - Cardinality({u \in Users : found[u][t] # None})

RanksBefore(counts, l, r) ==
    IF counts[l].unavailable # counts[r].unavailable
    THEN counts[l].unavailable < counts[r].unavailable
    ELSE IF counts[l].score # counts[r].score
    THEN counts[l].score > counts[r].score
    ELSE IF counts[l].preferred # counts[r].preferred
    THEN counts[l].preferred > counts[r].preferred
    ELSE IF counts[l].answered # counts[r].answered
    THEN counts[l].answered > counts[r].answered
    ELSE IF Start[l] # Start[r] THEN Start[l] < Start[r]
    ELSE l < r

Suits(p, t) == Scope[t] \in {None, p}

(* The loop over the items: the best of the first n that suit the plan.      *)
Best(p, counts) ==
    LET best[n \in 0..Len(Scope)] ==
          IF n = 0 THEN None
          ELSE IF Suits(p, n) /\ (best[n-1] = None \/ RanksBefore(counts, n, best[n-1]))
               THEN n ELSE best[n-1]
    IN best[Len(Scope)]

BuildView(people, found) ==
    [unanswered |-> [t \in TimeOptions |-> Unanswered(people, found, t)],
     best |-> [p \in Plans |-> Best(p, Tallies(found))]]

------------------------------------------------------------------------------
Init ==
    /\ members = {Owner}
    /\ answers = [u \in Users |-> [t \in TimeOptions |-> None]]
    /\ seen = {} /\ view = NoView

(* By link or by accepting a friend invitation, see Meeting.                 *)
Join(u) ==
    /\ u \notin members
    /\ members' = members \cup {u}
    /\ view' = NoView
    /\ UNCHANGED <<answers, seen>>

SetStatus(u, t, status) ==
    /\ u \in members
    /\ answers[u][t] # status
    /\ answers' = [answers EXCEPT ![u][t] = status]
    /\ view' = NoView
    /\ UNCHANGED <<members, seen>>

ListParticipants ==
    /\ seen = {}
    /\ seen' = members
    /\ view' = NoView
    /\ UNCHANGED <<members, answers>>

(* ListAvailabilityVotes, and the view built from both reads.                *)
ListVotes ==
    /\ seen # {}
    /\ view' = BuildView(seen, answers)
    /\ seen' = {}
    /\ UNCHANGED <<members, answers>>

Next ==
    \/ \E u \in Users : Join(u)
    \/ \E u \in Users, t \in TimeOptions, a \in Statuses \cup {None} : SetStatus(u, t, a)
    \/ ListParticipants \/ ListVotes

Spec == Init /\ [][Next]_vars

------------------------------------------------------------------------------
TypeOK ==
    /\ members \subseteq Users /\ Owner \in members /\ seen \subseteq members
    /\ answers \in [Users -> [TimeOptions -> Statuses \cup {None}]]
    /\ view \in [unanswered : [TimeOptions -> -Cardinality(Users)..Cardinality(Users)],
                 best : [Plans -> TimeOptions \cup {None}]]

(* Unless somebody joins between the two reads, a view counts exactly the    *)
(* participants who have not answered, whatever answers come in between.     *)
Missing(t) == Cardinality({u \in members : answers[u][t] = None})
ExactWhenQuiet ==
    [][ListVotes /\ seen = members =>
         \A t \in TimeOptions : view'.unanswered[t] = Missing(t)]_vars

(* What speaks for a time option, the weightiest first.                      *)
Merits(counts, t) ==
    <<-counts[t].unavailable, counts[t].score, counts[t].preferred, counts[t].answered,
      -Start[t], -t>>

(* The first merit in which two time options differ decides.                 *)
Better(counts, l, r) ==
    \E i \in 1..6 :
        /\ Merits(counts, l)[i] > Merits(counts, r)[i]
        /\ \A j \in 1..6 : j < i => Merits(counts, l)[j] = Merits(counts, r)[j]

Recommended(p, counts) ==
    LET suiting == {t \in TimeOptions : Scope[t] \in {None, p}}
        best == view'.best[p]
    IN IF suiting = {} THEN best = None
       ELSE best \in suiting /\ \A t \in suiting : ~Better(counts, t, best)

(* A recommended time suits its plan, and of the times that suit it none is  *)
(* better by the answers, the earlier start or the place in the list; a plan *)
(* goes without only if no time suits it (buildView, ranksBefore).           *)
RecommendsBest ==
    [][ListVotes => \A p \in Plans : Recommended(p, Tallies(answers))]_vars

(* openapi.yaml, AvailabilityCounts: "unanswered: { type: integer, minimum:  *)
(* 0 }".                                                                     *)
CountsNotNegative == \A t \in TimeOptions : view.unanswered[t] >= 0
==============================================================================
