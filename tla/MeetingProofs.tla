---------------------------- MODULE MeetingProofs ----------------------------
(***************************************************************************)
(* The invariants of Meeting hold for every set of users, options and       *)
(* links, and Meeting implements MeetingLifecycle.                          *)
(***************************************************************************)
EXTENDS Meeting, TLAPS

(* One name per step of a meeting, so that a proof splits Next once.         *)
LEMMA Steps ==
  ASSUME Next
  PROVE  \/ \E text \in Texts, slot \in Slots \cup {None} : Update(version, text, slot)
         \/ \E p \in PlanIds, text \in Texts : AddPlanOption(p, text)
         \/ \E p \in PlanIds, text \in Texts : UpdatePlanOption(version, p, text)
         \/ \E p \in PlanIds : DeletePlanOption(p)
         \/ \E t \in TimeIds, scope \in PlanIds \cup {None}, slot \in Slots :
              AddTimeOption(t, scope, slot)
         \/ \E t \in TimeIds, scope \in PlanIds \cup {None}, slot \in Slots :
              UpdateTimeOption(version, t, scope, slot)
         \/ \E t \in TimeIds : DeleteTimeOption(t)
         \/ \E l \in Links : CreateInvitation(l)
         \/ \E l \in Links : ExpireInvitation(l)
         \/ RevokeInvitation
         \/ \E u \in Users, l \in Links : JoinInvitation(u, l)
         \/ \E u \in Users : SendFriendInvitation(u)
         \/ \E u \in Users : AcceptFriendInvitation(u)
         \/ \E u \in Users : DeclineFriendInvitation(u)
         \/ \E u \in Users, p \in PlanIds \cup {None} : Vote(u, p)
         \/ \E u \in Users, t \in TimeIds, a \in Answers \cup {None} :
              SetAvailability(u, t, a)
         \/ \E u \in Users, r \in Replies \cup {None} : SetAttendance(u, r)
         \/ \E p \in PlanIds, t \in TimeIds : Finalize(p, t)
         \/ \E open \in {0, 1} : Complete(open)
         \/ Cancel
  BY DEF Next, Setup, Entry, Answer, Close

------------------------------------------------------------------------------
LEMMA TypeInit == Init => TypeOK
  <1> SUFFICES ASSUME Init PROVE TypeOK
    OBVIOUS
  <1> USE MeetingAssumption DEF Init, TypeOK, Modes, States, Undecided, TimeRow
  <1>1. PICK slot \in Slots :
          /\ plans = [p \in PlanIds |->
                        IF mode = "fixed" /\ p = FixedPlan THEN title ELSE None]
          /\ times = [t \in TimeIds |->
                        IF mode = "fixed" /\ t = FixedTime
                        THEN [plan |-> None, slot |-> slot] ELSE None]
    OBVIOUS
  <1>2. plans \in [PlanIds -> Texts \cup {None}] /\ times \in [TimeIds -> TimeRow \cup {None}]
    BY <1>1
  <1>3. QED
    BY <1>2

LEMMA TypeTouch == ASSUME TypeOK, Touch PROVE version' \in 1..MaxVersion
  BY MeetingAssumption DEF TypeOK, Touch

LEMMA TypeRevoked ==
  ASSUME TypeOK
  PROVE  RevokeActiveInvitations \in [Links -> LinkStates \cup {None}]
  BY DEF TypeOK, RevokeActiveInvitations, Unrevoked, LinkStates

LEMMA TypeNext == TypeOK /\ [Next]_vars => TypeOK'
  <1> SUFFICES ASSUME TypeOK, [Next]_vars PROVE TypeOK'
    OBVIOUS
  <1> USE DEF rowVars, setupVars, entryVars, voteVars
  <1>1. CASE UNCHANGED vars
    BY <1>1 DEF vars, TypeOK
  <1>2. ASSUME NEW text \in Texts, NEW slot \in Slots \cup {None}, Update(version, text, slot)
        PROVE  TypeOK'
    <2>1. plans' \in [PlanIds -> Texts \cup {None}]
      BY <1>2 DEF Update, TypeOK
    <2>2. times' \in [TimeIds -> TimeRow \cup {None}]
      BY <1>2 DEF Update, Rescheduled, TypeOK, TimeRow
    <2>3. QED
      BY <1>2, <2>1, <2>2, TypeTouch DEF Update, TypeOK
  <1>3. ASSUME NEW p \in PlanIds, NEW text \in Texts,
               AddPlanOption(p, text) \/ UpdatePlanOption(version, p, text)
        PROVE  TypeOK'
    BY <1>3, TypeTouch DEF AddPlanOption, UpdatePlanOption, TypeOK
  <1>4. ASSUME NEW gone \in SUBSET TimeIds, WithoutTimes(gone)
        PROVE  /\ times' \in [TimeIds -> TimeRow \cup {None}]
               /\ answers' \in [Users -> [TimeIds -> Answers \cup {None}]]
    BY <1>4 DEF WithoutTimes, TypeOK
  <1>5. ASSUME NEW p \in PlanIds, DeletePlanOption(p) PROVE TypeOK'
    <2>1. {t \in Times : times[t].plan = p} \in SUBSET TimeIds
      BY DEF Times
    <2>2. QED
      BY <1>5, <2>1, <1>4, TypeTouch DEF DeletePlanOption, TypeOK
  <1>6. ASSUME NEW t \in TimeIds, NEW scope \in PlanIds \cup {None}, NEW slot \in Slots,
               AddTimeOption(t, scope, slot) \/ UpdateTimeOption(version, t, scope, slot)
        PROVE  TypeOK'
    BY <1>6, TypeTouch DEF AddTimeOption, UpdateTimeOption, TypeOK, TimeRow
  <1>7. ASSUME NEW t \in TimeIds, DeleteTimeOption(t) PROVE TypeOK'
    BY <1>7, <1>4, TypeTouch DEF DeleteTimeOption, TypeOK
  <1>8. ASSUME NEW l \in Links, CreateInvitation(l) PROVE TypeOK'
    <2>1. /\ state' \in States
          /\ decision' \in [plan : PlanIds \cup {None}, time : TimeIds \cup {None}]
      BY <1>8 DEF CreateInvitation, OpenCollecting, ScheduleFixed, RotateLink,
                  TypeOK, States, Plans, Times
    <2>2. links' \in [Links -> LinkStates \cup {None}]
      BY <1>8, TypeRevoked DEF CreateInvitation, LinkStates
    <2>3. QED
      BY <1>8, <2>1, <2>2, TypeTouch DEF CreateInvitation, TypeOK
  <1>9. ASSUME NEW l \in Links, ExpireInvitation(l) PROVE TypeOK'
    BY <1>9 DEF ExpireInvitation, TypeOK, LinkStates
  <1>10. CASE RevokeInvitation
    BY <1>10, TypeTouch, TypeRevoked DEF RevokeInvitation, TypeOK
  <1>11. ASSUME NEW u \in Users, NEW l \in Links, JoinInvitation(u, l) PROVE TypeOK'
    BY <1>11, TypeTouch DEF JoinInvitation, TypeOK
  <1>12. ASSUME NEW u \in Users, SendFriendInvitation(u) \/ DeclineFriendInvitation(u)
         PROVE  TypeOK'
    BY <1>12 DEF SendFriendInvitation, DeclineFriendInvitation, TypeOK, InviteStates
  <1>13. ASSUME NEW u \in Users, AcceptFriendInvitation(u) PROVE TypeOK'
    <2>1. version' \in 1..MaxVersion
      BY <1>13, TypeTouch DEF AcceptFriendInvitation, TypeOK, TouchIfJoining
    <2>2. QED
      BY <1>13, <2>1 DEF AcceptFriendInvitation, TypeOK, InviteStates
  <1>14. ASSUME NEW u \in Users, NEW p \in PlanIds \cup {None}, Vote(u, p) PROVE TypeOK'
    BY <1>14, TypeTouch DEF Vote, AppendHistory, TypeOK
  <1>15. ASSUME NEW u \in Users, NEW t \in TimeIds, NEW a \in Answers \cup {None},
                SetAvailability(u, t, a)
         PROVE  TypeOK'
    BY <1>15, TypeTouch DEF SetAvailability, TypeOK
  <1>16. ASSUME NEW u \in Users, NEW r \in Replies \cup {None}, SetAttendance(u, r)
         PROVE  TypeOK'
    BY <1>16, TypeTouch DEF SetAttendance, TypeOK
  <1>17. ASSUME NEW p \in PlanIds, NEW t \in TimeIds, Finalize(p, t) PROVE TypeOK'
    BY <1>17, TypeTouch, TypeRevoked DEF Finalize, TypeOK, States
  <1>18. ASSUME NEW open \in {0, 1}, Complete(open) PROVE TypeOK'
    BY <1>18, TypeTouch, TypeRevoked DEF Complete, TypeOK, States
  <1>19. CASE Cancel
    BY <1>19, TypeTouch, TypeRevoked DEF Cancel, TypeOK, States
  <1>20. QED
    BY <1>1, <1>2, <1>3, <1>5, <1>6, <1>7, <1>8, <1>9, <1>10, <1>11, <1>12, <1>13,
       <1>14, <1>15, <1>16, <1>17, <1>18, <1>19, Steps

(* Every column keeps its domain: no request writes a value of the wrong     *)
(* kind, NULL where a row needs one, or a version that goes backwards below  *)
(* its start.                                                                *)
THEOREM TypeCorrect == Spec => []TypeOK
  BY TypeInit, TypeNext, PTL DEF Spec

------------------------------------------------------------------------------
(* The invariants of Meeting rest on each other (a decision is sound because *)
(* collecting had sound references, and so on), so they are one inductive    *)
(* invariant.                                                                *)
IInv ==
    /\ TypeOK
    /\ DecisionSound /\ LinkGate /\ Decidable /\ ReferencesSound /\ EvidenceSound

LEMMA SoundInit == Init => IInv
  <1> SUFFICES ASSUME Init PROVE IInv
    OBVIOUS
  <1>1. TypeOK
    BY TypeInit
  <1>2. DecisionSound /\ Decidable
    BY DEF Init, DecisionSound, Decidable
  <1>3. LinkGate
    BY MeetingAssumption DEF Init, LinkGate, Unrevoked, LinkStates
  <1>4. \A t \in TimeIds : times[t] # None => times[t].plan = None
    BY DEF Init
  <1>5. ReferencesSound
    BY <1>4 DEF Init, ReferencesSound, Times, Plans
  <1>6. EvidenceSound
    BY DEF Init, EvidenceSound
  <1>7. QED
    BY <1>1, <1>2, <1>3, <1>5, <1>6 DEF IInv

(* What a request that edits options, and an edit of the meeting itself, do  *)
(* to the options that exist.                                                *)
LEMMA UpdateKeepsOptions ==
  ASSUME TypeOK, NEW text \in Texts, NEW slot \in Slots \cup {None},
         Update(version, text, slot)
  PROVE  /\ Plans' = Plans /\ Times' = Times
         /\ \A t \in TimeIds : times'[t] = times[t] \/ times'[t].plan = None
         /\ mode = "planning" => UNCHANGED times
  <1> USE MeetingAssumption DEF Update, TypeOK
  <1>1. Plans' = Plans
    BY DEF Plans
  <1>2. CASE slot = None
    BY <1>1, <1>2 DEF Rescheduled, Times
  <1>3. CASE slot # None
    <2>1. times' = [t \in TimeIds |->
                      IF t \in Times THEN [plan |-> None, slot |-> slot] ELSE None]
      BY <1>3 DEF Rescheduled
    <2>2. [plan |-> None, slot |-> slot] # None
      BY <1>3 DEF TimeRow
    <2>3. Times' = Times
      BY <2>1, <2>2 DEF Times
    <2>4. \A t \in TimeIds : times'[t] = times[t] \/ times'[t].plan = None
      BY <2>1 DEF Times
    <2>5. QED
      BY <1>1, <1>3, <2>3, <2>4 DEF Modes
  <1>4. QED
    BY <1>2, <1>3

(* After a step that leaves the phase, the choice and the options as they    *)
(* were, or that ends the meeting.                                           *)
LEMMA SameSetup ==
  ASSUME UNCHANGED setupVars
  PROVE  Plans' = Plans /\ Times' = Times
  BY DEF setupVars, Plans, Times

LEMMA DecisionNext == IInv /\ [Next]_vars => DecisionSound'
  <1> SUFFICES ASSUME IInv, [Next]_vars PROVE DecisionSound'
    OBVIOUS
  <1> USE DEF rowVars, entryVars, voteVars
  <1>1. ASSUME UNCHANGED <<mode, state, decision, setupVars>> PROVE DecisionSound'
    BY <1>1, SameSetup DEF IInv, DecisionSound, setupVars
  <1>2. ASSUME state = "draft", UNCHANGED <<state, decision>> PROVE DecisionSound'
    BY <1>2 DEF IInv, DecisionSound
  <1>3. ASSUME NEW text \in Texts, NEW slot \in Slots \cup {None}, Update(version, text, slot)
        PROVE  DecisionSound'
    <2>1. UNCHANGED <<mode, state, decision>>
      BY <1>3 DEF Update
    <2>2. Plans' = Plans /\ Times' = Times
      BY <1>3, UpdateKeepsOptions DEF IInv
    <2>3. \A t \in TimeIds : times'[t] = times[t] \/ times'[t].plan = None
      BY <1>3, UpdateKeepsOptions DEF IInv
    <2>4. QED
      BY <2>1, <2>2, <2>3 DEF IInv, DecisionSound, Times
  <1>4. ASSUME NEW l \in Links, CreateInvitation(l) PROVE DecisionSound'
    <2>1. CASE RotateLink
      BY <1>4, <2>1, <1>1 DEF CreateInvitation, RotateLink
    <2>2. CASE OpenCollecting
      BY <2>2 DEF OpenCollecting, IInv, DecisionSound
    <2>3. CASE ScheduleFixed
      BY <1>4, <2>3, SameSetup DEF ScheduleFixed, CreateInvitation, DecisionSound, setupVars,
                                   Compatible
    <2>4. QED
      BY <1>4, <2>1, <2>2, <2>3 DEF CreateInvitation
  <1>5. ASSUME NEW p \in PlanIds, NEW t \in TimeIds, Finalize(p, t) PROVE DecisionSound'
    <2>1. mode = "planning" /\ mode' = mode
      BY <1>5 DEF Finalize, IInv, Decidable
    <2>2. QED
      BY <1>5, <2>1, SameSetup DEF Finalize, DecisionSound, Compatible, setupVars
  <1>6. ASSUME NEW open \in {0, 1}, Complete(open) PROVE DecisionSound'
    BY <1>6, SameSetup DEF Complete, IInv, DecisionSound, setupVars
  <1>7. CASE Cancel
    BY <1>7 DEF Cancel, DecisionSound
  <1>8. ASSUME \/ \E p \in PlanIds, text \in Texts :
                    AddPlanOption(p, text) \/ UpdatePlanOption(version, p, text)
               \/ \E p \in PlanIds : DeletePlanOption(p)
               \/ \E t \in TimeIds, scope \in PlanIds \cup {None}, slot \in Slots :
                    AddTimeOption(t, scope, slot) \/ UpdateTimeOption(version, t, scope, slot)
               \/ \E t \in TimeIds : DeleteTimeOption(t)
        PROVE  DecisionSound'
    BY <1>8, <1>2 DEF AddPlanOption, UpdatePlanOption, DeletePlanOption, AddTimeOption,
                      UpdateTimeOption, DeleteTimeOption
  <1>9. ASSUME \/ UNCHANGED vars
               \/ \E l \in Links : ExpireInvitation(l)
               \/ RevokeInvitation
               \/ \E u \in Users, l \in Links : JoinInvitation(u, l)
               \/ \E u \in Users : SendFriendInvitation(u)
               \/ \E u \in Users : AcceptFriendInvitation(u)
               \/ \E u \in Users : DeclineFriendInvitation(u)
               \/ \E u \in Users, p \in PlanIds \cup {None} : Vote(u, p)
               \/ \E u \in Users, t \in TimeIds, a \in Answers \cup {None} :
                    SetAvailability(u, t, a)
               \/ \E u \in Users, r \in Replies \cup {None} : SetAttendance(u, r)
        PROVE  DecisionSound'
    BY <1>9, <1>1 DEF vars, ExpireInvitation, RevokeInvitation, JoinInvitation,
          SendFriendInvitation, AcceptFriendInvitation, DeclineFriendInvitation, Vote,
          SetAvailability, SetAttendance
  <1>10. QED
    BY <1>3, <1>4, <1>5, <1>6, <1>7, <1>8, <1>9, Steps

(* After RevokeActiveInvitations no link is left to use.                     *)
LEMMA NoneUnrevoked ==
  ASSUME links' = RevokeActiveInvitations
  PROVE  Unrevoked' = {}
  BY DEF RevokeActiveInvitations, Unrevoked

LEMMA LinkGateNext == IInv /\ [Next]_vars => LinkGate'
  <1> SUFFICES ASSUME IInv, [Next]_vars PROVE LinkGate'
    OBVIOUS
  <1> USE DEF rowVars, entryVars, setupVars, voteVars
  <1>1. ASSUME UNCHANGED <<mode, state, links>> PROVE LinkGate'
    BY <1>1 DEF IInv, LinkGate, Unrevoked, AcceptsLinks
  <1>2. ASSUME links' = RevokeActiveInvitations PROVE LinkGate'
    BY <1>2, NoneUnrevoked DEF LinkGate
  <1>3. ASSUME NEW l \in Links, CreateInvitation(l) PROVE LinkGate'
    <2>1. links' = [RevokeActiveInvitations EXCEPT ![l] = "active"]
      BY <1>3 DEF CreateInvitation
    <2>2. \A k \in Links : k # l => links'[k] \notin {"active", "expired"}
      BY <2>1 DEF RevokeActiveInvitations, Unrevoked
    <2>3. Unrevoked' \subseteq {l}
      BY <2>2 DEF Unrevoked
    <2>4. AcceptsLinks'
      BY <1>3 DEF CreateInvitation, OpenCollecting, ScheduleFixed, RotateLink, AcceptsLinks
    <2>5. QED
      BY <2>3, <2>4 DEF LinkGate
  <1>4. ASSUME NEW l \in Links, ExpireInvitation(l) PROVE LinkGate'
    <2>1. Unrevoked' = Unrevoked
      BY <1>4 DEF ExpireInvitation, IInv, TypeOK, Unrevoked
    <2>2. QED
      BY <1>4, <2>1 DEF ExpireInvitation, IInv, LinkGate, AcceptsLinks
  <1>5. ASSUME \/ RevokeInvitation
               \/ \E p \in PlanIds, t \in TimeIds : Finalize(p, t)
               \/ \E open \in {0, 1} : Complete(open)
               \/ Cancel
        PROVE  LinkGate'
    BY <1>5, <1>2 DEF RevokeInvitation, Finalize, Complete, Cancel
  <1>6. ASSUME \/ UNCHANGED vars
               \/ \E text \in Texts, slot \in Slots \cup {None} : Update(version, text, slot)
               \/ \E p \in PlanIds, text \in Texts :
                    AddPlanOption(p, text) \/ UpdatePlanOption(version, p, text)
               \/ \E p \in PlanIds : DeletePlanOption(p)
               \/ \E t \in TimeIds, scope \in PlanIds \cup {None}, slot \in Slots :
                    AddTimeOption(t, scope, slot) \/ UpdateTimeOption(version, t, scope, slot)
               \/ \E t \in TimeIds : DeleteTimeOption(t)
        PROVE  LinkGate'
    BY <1>6, <1>1 DEF vars, Update, AddPlanOption, UpdatePlanOption, DeletePlanOption,
          AddTimeOption, UpdateTimeOption, DeleteTimeOption
  <1>7. ASSUME \/ \E u \in Users, l \in Links : JoinInvitation(u, l)
               \/ \E u \in Users : SendFriendInvitation(u)
               \/ \E u \in Users : AcceptFriendInvitation(u)
               \/ \E u \in Users : DeclineFriendInvitation(u)
               \/ \E u \in Users, p \in PlanIds \cup {None} : Vote(u, p)
               \/ \E u \in Users, t \in TimeIds, a \in Answers \cup {None} :
                    SetAvailability(u, t, a)
               \/ \E u \in Users, r \in Replies \cup {None} : SetAttendance(u, r)
        PROVE  LinkGate'
    BY <1>7, <1>1 DEF JoinInvitation, SendFriendInvitation, AcceptFriendInvitation,
          DeclineFriendInvitation, Vote, SetAvailability, SetAttendance
  <1>8. QED
    BY <1>3, <1>4, <1>5, <1>6, <1>7, Steps

LEMMA DecidableNext == IInv /\ [Next]_vars => Decidable'
  <1> SUFFICES ASSUME IInv, [Next]_vars PROVE Decidable'
    OBVIOUS
  <1> USE DEF rowVars, entryVars, voteVars
  <1>1. ASSUME UNCHANGED <<mode, state, setupVars>> PROVE Decidable'
    <2>1. Plans' = Plans /\ Times' = Times
      BY <1>1, SameSetup
    <2>2. QED
      BY <1>1, <2>1 DEF IInv, Decidable, setupVars
  <1>2. ASSUME state' # "collecting" PROVE Decidable'
    BY <1>2 DEF Decidable
  <1>3. ASSUME NEW l \in Links, CreateInvitation(l) PROVE Decidable'
    <2>1. CASE RotateLink
      BY <1>3, <2>1, <1>1 DEF CreateInvitation, RotateLink
    <2>2. CASE ScheduleFixed
      BY <2>2, <1>2 DEF ScheduleFixed
    <2>3. CASE OpenCollecting
      <3>1. /\ mode = "planning" /\ mode' = mode
            /\ \E p, q \in Plans : p # q
            /\ \E t, v \in Times : t # v
        BY <1>3, <2>3 DEF CreateInvitation, OpenCollecting, AtLeastTwo
      <3>2. \E p \in Plans, t \in Times : times[t].plan \in {None, p}
        BY <3>1 DEF IInv, ReferencesSound
      <3>3. Plans' = Plans /\ Times' = Times /\ UNCHANGED times
        BY <1>3, SameSetup DEF CreateInvitation, setupVars
      <3>4. QED
        BY <3>1, <3>2, <3>3 DEF Decidable
    <2>4. QED
      BY <1>3, <2>1, <2>2, <2>3 DEF CreateInvitation
  <1>4. ASSUME NEW text \in Texts, NEW slot \in Slots \cup {None}, Update(version, text, slot)
        PROVE  Decidable'
    BY <1>4, <1>2 DEF Update, Editable
  <1>5. ASSUME \/ \E p \in PlanIds, text \in Texts :
                    AddPlanOption(p, text) \/ UpdatePlanOption(version, p, text)
               \/ \E p \in PlanIds : DeletePlanOption(p)
               \/ \E t \in TimeIds, scope \in PlanIds \cup {None}, slot \in Slots :
                    AddTimeOption(t, scope, slot) \/ UpdateTimeOption(version, t, scope, slot)
               \/ \E t \in TimeIds : DeleteTimeOption(t)
               \/ \E p \in PlanIds, t \in TimeIds : Finalize(p, t)
               \/ \E open \in {0, 1} : Complete(open)
               \/ Cancel
        PROVE  Decidable'
    BY <1>5, <1>2 DEF AddPlanOption, UpdatePlanOption, DeletePlanOption, AddTimeOption,
          UpdateTimeOption, DeleteTimeOption, Finalize, Complete, Cancel
  <1>6. ASSUME \/ UNCHANGED vars
               \/ \E l \in Links : ExpireInvitation(l)
               \/ RevokeInvitation
               \/ \E u \in Users, l \in Links : JoinInvitation(u, l)
               \/ \E u \in Users : SendFriendInvitation(u)
               \/ \E u \in Users : AcceptFriendInvitation(u)
               \/ \E u \in Users : DeclineFriendInvitation(u)
               \/ \E u \in Users, p \in PlanIds \cup {None} : Vote(u, p)
               \/ \E u \in Users, t \in TimeIds, a \in Answers \cup {None} :
                    SetAvailability(u, t, a)
               \/ \E u \in Users, r \in Replies \cup {None} : SetAttendance(u, r)
        PROVE  Decidable'
    BY <1>6, <1>1 DEF vars, ExpireInvitation, RevokeInvitation, JoinInvitation,
          SendFriendInvitation, AcceptFriendInvitation, DeclineFriendInvitation, Vote,
          SetAvailability, SetAttendance
  <1>7. QED
    BY <1>3, <1>4, <1>5, <1>6, Steps

LEMMA ReferencesNext == IInv /\ [Next]_vars => ReferencesSound'
  <1> SUFFICES ASSUME IInv, [Next]_vars PROVE ReferencesSound'
    OBVIOUS
  <1> USE DEF rowVars, entryVars, setupVars, voteVars
  <1>1. ASSUME Plans \subseteq Plans', UNCHANGED <<times, votes, answers>>
        PROVE  ReferencesSound'
    BY <1>1 DEF IInv, ReferencesSound, Times
  <1>3. ASSUME NEW text \in Texts, NEW slot \in Slots \cup {None}, Update(version, text, slot)
        PROVE  ReferencesSound'
    <2>1. /\ Plans' = Plans /\ Times' = Times
          /\ \A t \in TimeIds : times'[t] = times[t] \/ times'[t].plan = None
      BY <1>3, UpdateKeepsOptions DEF IInv
    <2>2. UNCHANGED <<votes, answers>>
      BY <1>3 DEF Update
    <2>3. QED
      BY <2>1, <2>2 DEF IInv, ReferencesSound, Times
  <1>4. ASSUME NEW p \in PlanIds, NEW text \in Texts,
               AddPlanOption(p, text) \/ UpdatePlanOption(version, p, text)
        PROVE  ReferencesSound'
    <2>1. plans' = [plans EXCEPT ![p] = text] /\ UNCHANGED <<times, votes, answers>>
      BY <1>4 DEF AddPlanOption, UpdatePlanOption
    <2>2. Plans \subseteq Plans'
      BY <2>1, MeetingAssumption DEF IInv, TypeOK, Plans
    <2>3. QED
      BY <2>1, <2>2, <1>1
  <1>5. ASSUME NEW p \in PlanIds, DeletePlanOption(p) PROVE ReferencesSound'
    <2> DEFINE gone == {t \in Times : times[t].plan = p}
    <2>1. Plans' = Plans \ {p}
      BY <1>5 DEF DeletePlanOption, IInv, TypeOK, Plans
    <2>2. /\ times' = [t \in TimeIds |-> IF t \in gone THEN None ELSE times[t]]
          /\ answers' = [u \in Users |-> [t \in TimeIds |->
                            IF t \in gone THEN None ELSE answers[u][t]]]
          /\ votes' = [u \in Users |-> IF votes[u] = p THEN None ELSE votes[u]]
      BY <1>5 DEF DeletePlanOption, WithoutTimes
    <2>3. Times' = Times \ gone
      BY <2>2 DEF Times
    <2>4. \A t \in Times' : times'[t].plan \in Plans' \cup {None}
      BY <2>1, <2>2, <2>3 DEF IInv, ReferencesSound, Times
    <2>5. \A u \in Users : votes'[u] \in Plans' \cup {None}
      BY <2>1, <2>2 DEF IInv, ReferencesSound
    <2>6. \A u \in Users, t \in TimeIds : answers'[u][t] # None => t \in Times'
      BY <2>2, <2>3 DEF IInv, ReferencesSound
    <2>7. QED
      BY <2>4, <2>5, <2>6 DEF ReferencesSound
  <1>6. ASSUME NEW t \in TimeIds, NEW scope \in PlanIds \cup {None}, NEW slot \in Slots,
               AddTimeOption(t, scope, slot) \/ UpdateTimeOption(version, t, scope, slot)
        PROVE  ReferencesSound'
    <2>1. /\ times' = [times EXCEPT ![t] = [plan |-> scope, slot |-> slot]]
          /\ scope \in Plans \cup {None} /\ UNCHANGED <<plans, votes, answers>>
      BY <1>6 DEF AddTimeOption, UpdateTimeOption
    <2>2. Plans' = Plans
      BY <2>1 DEF Plans
    <2>3. [plan |-> scope, slot |-> slot] # None
      BY MeetingAssumption DEF TimeRow
    <2>4. Times' = Times \cup {t}
      BY <2>1, <2>3 DEF Times, IInv, TypeOK
    <2>5. \A v \in Times' : times'[v].plan \in Plans' \cup {None}
      BY <2>1, <2>2, <2>4 DEF IInv, TypeOK, ReferencesSound, Times
    <2>6. QED
      BY <2>1, <2>2, <2>4, <2>5 DEF IInv, ReferencesSound
  <1>7. ASSUME NEW t \in TimeIds, DeleteTimeOption(t) PROVE ReferencesSound'
    <2>1. /\ times' = [v \in TimeIds |-> IF v \in {t} THEN None ELSE times[v]]
          /\ answers' = [u \in Users |-> [v \in TimeIds |->
                            IF v \in {t} THEN None ELSE answers[u][v]]]
          /\ UNCHANGED <<plans, votes>>
      BY <1>7 DEF DeleteTimeOption, WithoutTimes
    <2>2. Times' = Times \ {t} /\ Plans' = Plans
      BY <2>1 DEF Times, Plans
    <2>3. QED
      BY <2>1, <2>2 DEF IInv, ReferencesSound, Times
  <1>8. ASSUME NEW u \in Users, NEW p \in PlanIds \cup {None}, Vote(u, p)
        PROVE  ReferencesSound'
    <2>1. /\ votes' = [votes EXCEPT ![u] = p] /\ p \in Plans \cup {None}
          /\ UNCHANGED <<plans, times, answers>>
      BY <1>8 DEF Vote
    <2>2. Plans' = Plans /\ Times' = Times
      BY <2>1 DEF Plans, Times
    <2>3. QED
      BY <2>1, <2>2 DEF IInv, TypeOK, ReferencesSound
  <1>9. ASSUME NEW u \in Users, NEW t \in TimeIds, NEW a \in Answers \cup {None},
               SetAvailability(u, t, a)
        PROVE  ReferencesSound'
    <2>1. /\ answers' = [answers EXCEPT ![u][t] = a] /\ t \in Times
          /\ UNCHANGED <<plans, times, votes>>
      BY <1>9 DEF SetAvailability
    <2>2. Plans' = Plans /\ Times' = Times
      BY <2>1 DEF Plans, Times
    <2>3. QED
      BY <2>1, <2>2 DEF IInv, TypeOK, ReferencesSound
  <1>10. ASSUME \/ UNCHANGED vars
                \/ \E l \in Links : CreateInvitation(l) \/ ExpireInvitation(l)
                \/ RevokeInvitation
                \/ \E u \in Users, l \in Links : JoinInvitation(u, l)
                \/ \E u \in Users : SendFriendInvitation(u)
                \/ \E u \in Users : AcceptFriendInvitation(u)
                \/ \E u \in Users : DeclineFriendInvitation(u)
                \/ \E u \in Users, r \in Replies \cup {None} : SetAttendance(u, r)
                \/ \E p \in PlanIds, t \in TimeIds : Finalize(p, t)
                \/ \E open \in {0, 1} : Complete(open)
                \/ Cancel
         PROVE  ReferencesSound'
    <2>1. UNCHANGED <<plans, times, votes, answers>>
      BY <1>10 DEF vars, CreateInvitation, ExpireInvitation, RevokeInvitation,
            JoinInvitation, SendFriendInvitation, AcceptFriendInvitation,
            DeclineFriendInvitation, SetAttendance, Finalize, Complete, Cancel
    <2>2. QED
      BY <2>1, <1>1 DEF Plans
  <1>11. QED
    BY <1>3, <1>4, <1>5, <1>6, <1>7, <1>8, <1>9, <1>10, Steps

(* Who has not answered has no vote, no availability and no attendance.      *)
Silent(u) ==
    /\ votes[u] = None /\ replies[u] = None
    /\ \A t \in TimeIds : answers[u][t] = None

LEMMA EvidenceNext == IInv /\ [Next]_vars => EvidenceSound'
  <1> SUFFICES ASSUME IInv, [Next]_vars PROVE EvidenceSound'
    OBVIOUS
  <1> USE DEF rowVars, entryVars, setupVars, voteVars
  <1>1. /\ \A u \in Users \ members : Silent(u)
        /\ ballots = votes
        /\ state = "draft" => \A u \in Users : Silent(u)
    BY DEF IInv, EvidenceSound, Silent
  <1>2. ASSUME members \subseteq members', ballots' = votes',
               state' = "draft" => state = "draft",
               \A u \in Users : Silent(u) => Silent(u)'
        PROVE  EvidenceSound'
    <2>1. \A u \in Users \ members' : Silent(u)'
      BY <1>1, <1>2
    <2>2. state' = "draft" => \A u \in Users : Silent(u)'
      BY <1>1, <1>2
    <2>3. QED
      BY <1>2, <2>1, <2>2 DEF EvidenceSound, Silent
  <1>3. ASSUME members \subseteq members', UNCHANGED voteVars,
               state' = "draft" => state = "draft"
        PROVE  EvidenceSound'
    BY <1>1, <1>2, <1>3 DEF Silent
  <1>4. ASSUME NEW u \in Users, u \in members, state # "draft",
               UNCHANGED <<state, members>>, ballots' = votes',
               \A v \in Users \ {u} : Silent(v) => Silent(v)'
        PROVE  EvidenceSound'
    <2>1. \A v \in Users \ members' : Silent(v)'
      BY <1>1, <1>4
    <2>2. QED
      BY <1>4, <2>1 DEF EvidenceSound, Silent
  <1>5. ASSUME NEW p \in PlanIds, DeletePlanOption(p) PROVE EvidenceSound'
    <2>1. /\ answers' = [u \in Users |-> [t \in TimeIds |->
                            IF t \in {v \in Times : times[v].plan = p}
                            THEN None ELSE answers[u][t]]]
          /\ votes' = [u \in Users |-> IF votes[u] = p THEN None ELSE votes[u]]
          /\ UNCHANGED <<state, members, ballots, replies>> /\ state = "draft"
      BY <1>5 DEF DeletePlanOption, WithoutTimes
    <2>2. \A u \in Users : Silent(u) => Silent(u)'
      BY <2>1 DEF Silent
    <2>3. votes' = votes
      BY <1>1, <2>1 DEF Silent, IInv, TypeOK
    <2>4. QED
      BY <1>1, <1>2, <2>1, <2>2, <2>3
  <1>6. ASSUME NEW t \in TimeIds, DeleteTimeOption(t) PROVE EvidenceSound'
    <2>1. /\ answers' = [u \in Users |-> [v \in TimeIds |->
                            IF v \in {t} THEN None ELSE answers[u][v]]]
          /\ UNCHANGED <<state, members, votes, ballots, replies>>
      BY <1>6 DEF DeleteTimeOption, WithoutTimes
    <2>2. \A u \in Users : Silent(u) => Silent(u)'
      BY <2>1 DEF Silent
    <2>3. QED
      BY <1>1, <1>2, <2>1, <2>2
  <1>7. ASSUME NEW u \in Users, NEW p \in PlanIds \cup {None}, Vote(u, p)
        PROVE  EvidenceSound'
    <2>1. /\ votes' = [votes EXCEPT ![u] = p] /\ ballots' = [ballots EXCEPT ![u] = p]
          /\ UNCHANGED <<state, members, answers, replies>>
          /\ u \in members /\ state # "draft"
      BY <1>7 DEF Vote, AppendHistory, Participates, Collects
    <2>2. \A v \in Users \ {u} : Silent(v) => Silent(v)'
      BY <2>1 DEF Silent, IInv, TypeOK
    <2>3. ballots' = votes'
      BY <1>1, <2>1
    <2>4. QED
      BY <1>4, <2>1, <2>2, <2>3
  <1>8. ASSUME NEW u \in Users, NEW t \in TimeIds, NEW a \in Answers \cup {None},
               SetAvailability(u, t, a)
        PROVE  EvidenceSound'
    <2>1. /\ answers' = [answers EXCEPT ![u][t] = a]
          /\ UNCHANGED <<state, members, votes, ballots, replies>>
          /\ u \in members /\ state # "draft"
      BY <1>8 DEF SetAvailability, Participates, Collects
    <2>2. \A v \in Users \ {u} : Silent(v) => Silent(v)'
      BY <2>1 DEF Silent, IInv, TypeOK
    <2>3. QED
      BY <1>1, <1>4, <2>1, <2>2
  <1>9. ASSUME NEW u \in Users, NEW r \in Replies \cup {None}, SetAttendance(u, r)
        PROVE  EvidenceSound'
    <2>1. /\ replies' = [replies EXCEPT ![u] = r]
          /\ UNCHANGED <<state, members, votes, ballots, answers>>
          /\ u \in members /\ state # "draft"
      BY <1>9 DEF SetAttendance, Participates
    <2>2. \A v \in Users \ {u} : Silent(v) => Silent(v)'
      BY <2>1 DEF Silent, IInv, TypeOK
    <2>3. QED
      BY <1>1, <1>4, <2>1, <2>2
  <1>10. ASSUME \/ UNCHANGED vars
                \/ \E text \in Texts, slot \in Slots \cup {None} : Update(version, text, slot)
                \/ \E p \in PlanIds, text \in Texts :
                     AddPlanOption(p, text) \/ UpdatePlanOption(version, p, text)
                \/ \E t \in TimeIds, scope \in PlanIds \cup {None}, slot \in Slots :
                     AddTimeOption(t, scope, slot) \/ UpdateTimeOption(version, t, scope, slot)
                \/ \E l \in Links : CreateInvitation(l) \/ ExpireInvitation(l)
                \/ RevokeInvitation
         PROVE  EvidenceSound'
    BY <1>10, <1>3 DEF vars, Update, AddPlanOption, UpdatePlanOption, AddTimeOption,
          UpdateTimeOption, CreateInvitation, OpenCollecting, ScheduleFixed, RotateLink,
          ExpireInvitation, RevokeInvitation
  <1>11. ASSUME \/ \E u \in Users, l \in Links : JoinInvitation(u, l)
                \/ \E u \in Users : SendFriendInvitation(u)
                \/ \E u \in Users : AcceptFriendInvitation(u)
                \/ \E u \in Users : DeclineFriendInvitation(u)
                \/ \E p \in PlanIds, t \in TimeIds : Finalize(p, t)
                \/ \E open \in {0, 1} : Complete(open)
                \/ Cancel
         PROVE  EvidenceSound'
    BY <1>11, <1>3 DEF JoinInvitation, SendFriendInvitation, AcceptFriendInvitation,
          DeclineFriendInvitation, Finalize, Complete, Cancel
  <1>12. QED
    BY <1>5, <1>6, <1>7, <1>8, <1>9, <1>10, <1>11, Steps

LEMMA SoundNext == IInv /\ [Next]_vars => IInv'
  <1> SUFFICES ASSUME IInv, [Next]_vars PROVE IInv'
    OBVIOUS
  <1>1. TypeOK'
    BY TypeNext DEF IInv
  <1>2. QED
    BY <1>1, DecisionNext, LinkGateNext, DecidableNext, ReferencesNext, EvidenceNext
    DEF IInv

LEMMA Inductive == Spec => []IInv
  BY SoundInit, SoundNext, PTL DEF Spec

(* A meeting is decided exactly when it has been scheduled, on a plan and a  *)
(* time that exist and are compatible, whatever Finalize, CreateInvitation   *)
(* and the later edits of a fixed meeting do.                                *)
THEOREM DecisionsAreSound == Spec => []DecisionSound
  <1>1. IInv => DecisionSound
    BY DEF IInv
  <1>2. QED
    BY <1>1, Inductive, PTL

(* CreateInvitation, RevokeInvitation, Finalize, Complete and Cancel leave   *)
(* at most one link that is not revoked, and none on a meeting that takes no *)
(* one in by link.                                                           *)
THEOREM LinksAreGated == Spec => []LinkGate
  <1>1. IInv => LinkGate
    BY DEF IInv
  <1>2. QED
    BY <1>1, Inductive, PTL

(* A collecting meeting always has a plan and a time Finalize accepts.       *)
THEOREM OwnerCanDecide == Spec => []Decidable
  <1>1. IInv => Decidable
    BY DEF IInv
  <1>2. QED
    BY <1>1, Inductive, PTL

(* No scope, vote or availability answer refers to a deleted option.         *)
THEOREM NothingDangles == Spec => []ReferencesSound
  <1>1. IInv => ReferencesSound
    BY DEF IInv
  <1>2. QED
    BY <1>1, Inductive, PTL

(* Only participants have answered, only after the draft, and the history of *)
(* plan votes agrees with the votes.                                         *)
THEOREM EvidenceIsSound == Spec => []EvidenceSound
  <1>1. IInv => EvidenceSound
    BY DEF IInv
  <1>2. QED
    BY <1>1, Inductive, PTL
------------------------------------------------------------------------------
(* A completed or cancelled meeting never changes again: every guard refuses *)
(* it, and no link is left to expire, which is what LinkGate is needed for.  *)
THEOREM ArchiveIsReadOnly == Spec => ArchiveReadOnly
  <1>1. ASSUME IInv, Next, Closed
        PROVE  UNCHANGED <<rowVars, setupVars, links, members, voteVars>>
    <2>1. Unrevoked = {}
      BY <1>1 DEF IInv, LinkGate, AcceptsLinks, Closed
    <2>2. \A l \in Links : ~ExpireInvitation(l)
      BY <2>1 DEF ExpireInvitation, Unrevoked
    <2>3. /\ state \in {"completed", "cancelled"}
          /\ ~Collects /\ ~AcceptsLinks /\ ~AcceptsParticipants /\ ~Cancellable /\ ~Editable
      BY <1>1 DEF Closed, Collects, AcceptsLinks, AcceptsParticipants, Cancellable, Editable
    <2>4. ~Setup
      BY <2>3 DEF Setup, Update, AddPlanOption, UpdatePlanOption, DeletePlanOption,
                  AddTimeOption, UpdateTimeOption, DeleteTimeOption
    <2>5. ~Answer
      BY <2>3 DEF Answer, Vote, SetAvailability, SetAttendance
    <2>6. ~Close
      BY <2>3 DEF Close, Finalize, Complete, Cancel
    <2>7. Entry => \E u \in Users : DeclineFriendInvitation(u)
      BY <2>2, <2>3 DEF Entry, CreateInvitation, OpenCollecting, ScheduleFixed, RotateLink,
            RevokeInvitation, JoinInvitation, SendFriendInvitation, AcceptFriendInvitation
    <2>8. QED
      BY <1>1, <2>4, <2>5, <2>6, <2>7 DEF Next, DeclineFriendInvitation
  <1>2. IInv /\ [Next]_vars =>
          [Closed => UNCHANGED <<rowVars, setupVars, links, members, voteVars>>]_vars
    BY <1>1
  <1>3. QED
    BY <1>2, Inductive, PTL DEF Spec, ArchiveReadOnly

(* Once the draft is over no option appears or disappears, and a planning    *)
(* meeting is not edited at all.                                             *)
THEOREM SetupIsFrozen == Spec => SetupFrozen
  <1> DEFINE Frozen == /\ Plans' = Plans /\ Times' = Times
                       /\ mode = "planning" => UNCHANGED <<title, plans, times>>
  <1>1. ASSUME IInv, Next, state # "draft" PROVE Frozen
    <2> USE DEF rowVars, entryVars, voteVars
    <2>1. ASSUME UNCHANGED <<title, setupVars>> PROVE Frozen
      BY <2>1, SameSetup DEF setupVars
    <2>2. Entry \/ Answer \/ Close => UNCHANGED <<title, setupVars>>
      BY DEF Entry, CreateInvitation, ExpireInvitation, RevokeInvitation, JoinInvitation,
             SendFriendInvitation, AcceptFriendInvitation, DeclineFriendInvitation,
             Answer, Vote, SetAvailability, SetAttendance,
             Close, Finalize, Complete, Cancel, setupVars
    <2>3. Setup => \E text \in Texts, slot \in Slots \cup {None} : Update(version, text, slot)
      BY <1>1 DEF Setup, AddPlanOption, UpdatePlanOption, DeletePlanOption,
                  AddTimeOption, UpdateTimeOption, DeleteTimeOption
    <2>4. ASSUME NEW text \in Texts, NEW slot \in Slots \cup {None},
                 Update(version, text, slot)
          PROVE  Frozen
      <3>1. mode = "fixed"
        BY <1>1, <2>4 DEF Update, Editable
      <3>2. Plans' = Plans /\ Times' = Times
        BY <1>1, <2>4, UpdateKeepsOptions DEF IInv
      <3>3. QED
        BY <3>1, <3>2
    <2>5. QED
      BY <1>1, <2>1, <2>2, <2>3, <2>4 DEF Next
  <1>2. IInv /\ [Next]_vars => [state # "draft" => Frozen]_vars
    BY <1>1
  <1>3. QED
    BY <1>2, Inductive, PTL DEF Spec, SetupFrozen

(* Nothing but an answer changes what was answered: deleting an option of a  *)
(* draft takes no answer with it, because there is none yet.                 *)
LEMMA OnlyAnswersChangeEvidence ==
  ASSUME IInv, Next PROVE Answer \/ UNCHANGED voteVars
  <1> USE DEF voteVars, vars, rowVars, setupVars, entryVars
  <1>1. ASSUME state = "draft", NEW gone \in SUBSET TimeIds, WithoutTimes(gone)
        PROVE  UNCHANGED answers
    BY <1>1 DEF WithoutTimes, IInv, EvidenceSound, TypeOK
  <1>2. ASSUME NEW p \in PlanIds, DeletePlanOption(p) PROVE UNCHANGED voteVars
    <2>1. state = "draft" /\ UNCHANGED <<ballots, replies>>
          /\ votes' = [u \in Users |-> IF votes[u] = p THEN None ELSE votes[u]]
          /\ WithoutTimes({t \in Times : times[t].plan = p})
      BY <1>2 DEF DeletePlanOption
    <2>2. {t \in Times : times[t].plan = p} \in SUBSET TimeIds
      BY DEF Times
    <2>3. UNCHANGED answers
      BY <2>1, <2>2, <1>1
    <2>4. UNCHANGED votes
      BY <2>1 DEF IInv, EvidenceSound, TypeOK
    <2>5. QED
      BY <2>1, <2>3, <2>4
  <1>3. ASSUME NEW t \in TimeIds, DeleteTimeOption(t) PROVE UNCHANGED voteVars
    <2>1. state = "draft" /\ UNCHANGED <<votes, ballots, replies>> /\ WithoutTimes({t})
      BY <1>3 DEF DeleteTimeOption
    <2>2. QED
      BY <2>1, <1>1
  <1>4. Setup => UNCHANGED voteVars
    BY <1>2, <1>3 DEF Setup, Update, AddPlanOption, UpdatePlanOption, AddTimeOption,
                      UpdateTimeOption
  <1>5. Entry \/ Close => UNCHANGED voteVars
    BY DEF Entry, CreateInvitation, ExpireInvitation, RevokeInvitation, JoinInvitation,
           SendFriendInvitation, AcceptFriendInvitation, DeclineFriendInvitation,
           Close, Finalize, Complete, Cancel
  <1>6. QED
    BY <1>4, <1>5 DEF Next

(* An answer is a participant's own, in its time, and a vote and its history *)
(* move together.                                                            *)
LEMMA AnswersAreOwn ==
  ASSUME IInv, Answer, NEW u \in Users
  PROVE  /\ <<votes[u], ballots[u], answers[u]>>' # <<votes[u], ballots[u], answers[u]>> =>
              state = "collecting" /\ u \in members
         /\ replies'[u] # replies[u] => u \in members
  <1>1. ASSUME NEW v \in Users, NEW p \in PlanIds \cup {None}, Vote(v, p)
        PROVE  /\ state = "collecting" /\ v \in members /\ UNCHANGED <<answers, replies>>
               /\ u # v => votes'[u] = votes[u] /\ ballots'[u] = ballots[u]
    BY <1>1 DEF Vote, Collects, Participates, AppendHistory, IInv, TypeOK, EvidenceSound
  <1>2. ASSUME NEW v \in Users, NEW t \in TimeIds, NEW a \in Answers \cup {None},
               SetAvailability(v, t, a)
        PROVE  /\ state = "collecting" /\ v \in members /\ UNCHANGED <<votes, ballots, replies>>
               /\ u # v => answers'[u] = answers[u]
    BY <1>2 DEF SetAvailability, Collects, Participates, IInv, TypeOK
  <1>3. ASSUME NEW v \in Users, NEW r \in Replies \cup {None}, SetAttendance(v, r)
        PROVE  /\ v \in members /\ UNCHANGED <<votes, ballots, answers>>
               /\ u # v => replies'[u] = replies[u]
    BY <1>3 DEF SetAttendance, Participates, IInv, TypeOK
  <1>4. QED
    BY <1>1, <1>2, <1>3 DEF Answer

(* Votes and availability move only while the group is deciding, each with   *)
(* its history and by a participant alone.                                   *)
THEOREM EvidenceIsFrozen == Spec => EvidenceFrozen
  <1> DEFINE Frozen(u) ==
        /\ <<votes[u], ballots[u], answers[u]>>' # <<votes[u], ballots[u], answers[u]>> =>
             state = "collecting" /\ u \in members /\ ballots'[u] = votes'[u]
        /\ replies'[u] # replies[u] => u \in members
  <1>1. ASSUME IInv, Next, NEW u \in Users PROVE Frozen(u)
    <2>1. ballots' = votes'
      BY <1>1, SoundNext DEF IInv, EvidenceSound
    <2>2. QED
      BY <1>1, <2>1, OnlyAnswersChangeEvidence, AnswersAreOwn DEF voteVars
  <1>2. IInv /\ [Next]_vars => [\A u \in Users : Frozen(u)]_vars
    BY <1>1
  <1>3. QED
    BY <1>2, Inductive, PTL DEF Spec, EvidenceFrozen

(* Whatever a participant can see changes only together with the version.    *)
THEOREM VersionTells == Spec => VersionTracksContent
  <1> DEFINE Tells == /\ Content' # Content => version' = version + 1
                      /\ version' \in {version, version + 1}
  <1>1. ASSUME IInv, Next PROVE Tells
    <2> USE DEF rowVars, setupVars, entryVars, voteVars
    <2>1. Touch => Tells
      BY DEF Touch
    <2>2. UNCHANGED <<version, Content>> => Tells
      OBVIOUS
    <2>3. Setup => Touch
      BY DEF Setup, Update, AddPlanOption, UpdatePlanOption, DeletePlanOption,
             AddTimeOption, UpdateTimeOption, DeleteTimeOption
    <2>4. Answer \/ Close => Touch
      BY DEF Answer, Vote, SetAvailability, SetAttendance, Close, Finalize, Complete, Cancel
    <2>5. ASSUME NEW u \in Users, AcceptFriendInvitation(u)
          PROVE  Touch \/ UNCHANGED <<version, Content>>
      <3>1. CASE u \in members
        <4>1. members \cup {u} = members
          BY <3>1
        <4>2. QED
          BY <2>5, <3>1, <4>1 DEF AcceptFriendInvitation, TouchIfJoining, Content
      <3>2. CASE u \notin members
        BY <2>5, <3>2 DEF AcceptFriendInvitation, TouchIfJoining
      <3>3. QED
        BY <3>1, <3>2
    <2>6. Entry => Touch \/ UNCHANGED <<version, Content>>
      BY <2>5 DEF Entry, CreateInvitation, ExpireInvitation, RevokeInvitation,
            JoinInvitation, SendFriendInvitation, DeclineFriendInvitation, Content
    <2>7. QED
      BY <1>1, <2>1, <2>2, <2>3, <2>4, <2>6 DEF Next
  <1>2. IInv /\ [Next]_vars => [Tells]_vars
    BY <1>1
  <1>3. QED
    BY <1>2, Inductive, PTL DEF Spec, VersionTracksContent

------------------------------------------------------------------------------
(* Meeting implements MeetingLifecycle.  A decision is one step of the       *)
(* lifecycle because a collecting meeting is a planning one (Decidable).     *)
THEOREM ImplementsLifecycle == Spec => KeepsLifecycle
  <1>1. Init => Promise!Begin
    BY MeetingAssumption DEF Init, Promise!Begin, Modes, Undecided
  <1>2. ASSUME IInv, Next
        PROVE  Promise!Advance \/ UNCHANGED <<mode, state, decision, members>>
    <2> USE DEF rowVars, setupVars, entryVars, voteVars
    <2>1. Setup \/ Answer => UNCHANGED <<mode, state, decision, members>>
      BY DEF Setup, Update, AddPlanOption, UpdatePlanOption, DeletePlanOption,
             AddTimeOption, UpdateTimeOption, DeleteTimeOption,
             Answer, Vote, SetAvailability, SetAttendance
    <2>2. ASSUME NEW l \in Links, CreateInvitation(l)
          PROVE  Promise!Advance \/ UNCHANGED <<mode, state, decision, members>>
      <3>1. UNCHANGED <<mode, members>>
        BY <2>2 DEF CreateInvitation
      <3>2. CASE OpenCollecting
        BY <3>1, <3>2 DEF OpenCollecting, Promise!Advance, Promise!AskGroup
      <3>3. CASE ScheduleFixed
        BY <3>1, <3>3 DEF ScheduleFixed, Plans, Times, Promise!Advance, Promise!Decide
      <3>4. CASE RotateLink
        BY <3>1, <3>4 DEF RotateLink
      <3>5. QED
        BY <2>2, <3>2, <3>3, <3>4 DEF CreateInvitation
    <2>3. ASSUME NEW u \in Users, NEW l \in Links, JoinInvitation(u, l)
          PROVE  Promise!Admit
      BY <2>3 DEF JoinInvitation, AcceptsLinks, Promise!Admit, Promise!Alive
    <2>4. ASSUME NEW u \in Users, AcceptFriendInvitation(u) PROVE Promise!Admit
      BY <2>4 DEF AcceptFriendInvitation, AcceptsParticipants, Promise!Admit, Promise!Alive
    <2>5. ASSUME NEW p \in PlanIds, NEW t \in TimeIds, Finalize(p, t) PROVE Promise!Decide
      BY <1>2, <2>5 DEF Finalize, IInv, Decidable, Promise!Decide
    <2>6. ASSUME NEW open \in {0, 1}, Complete(open) PROVE Promise!Finish
      BY <2>6 DEF Complete, Promise!Finish
    <2>7. Cancel => Promise!Abandon
      BY DEF Cancel, Cancellable, Promise!Abandon, Promise!Alive
    <2>8. Entry => Promise!Advance \/ UNCHANGED <<mode, state, decision, members>>
      BY <2>2, <2>3, <2>4 DEF Entry, ExpireInvitation, RevokeInvitation,
            SendFriendInvitation, DeclineFriendInvitation, Promise!Advance
    <2>9. Close => Promise!Advance
      BY <2>5, <2>6, <2>7 DEF Close, Promise!Advance
    <2>10. QED
      BY <1>2, <2>1, <2>8, <2>9 DEF Next
  <1>3. IInv /\ [Next]_vars => [Promise!Advance]_(Promise!lifecycle)
    BY <1>2 DEF vars, rowVars, entryVars, Promise!lifecycle
  <1>4. QED
    BY <1>1, <1>3, Inductive, PTL DEF Spec, KeepsLifecycle, Promise!Lifecycle
==============================================================================
