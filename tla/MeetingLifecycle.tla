-------------------------- MODULE MeetingLifecycle ---------------------------
(***************************************************************************)
(* What a meeting promises, without how: it moves forward through its       *)
(* phases, what it was decided on is chosen once and never revised, people  *)
(* are only added and only while the meeting is alive, and an ended meeting *)
(* stays as it is.  Meeting implements this specification.                  *)
(***************************************************************************)
CONSTANTS
    People, Host,
    PlanIds, TimeIds,
    None

VARIABLES kind, phase, choice, guests

lifecycle == <<kind, phase, choice, guests>>

Alive == {"draft", "collecting", "scheduled"}

Begin ==
    /\ kind \in {"planning", "fixed"}
    /\ phase = "draft"
    /\ choice = [plan |-> None, time |-> None]
    /\ guests = {Host}

(* A group starts deciding.                                                  *)
AskGroup ==
    /\ kind = "planning" /\ phase = "draft"
    /\ phase' = "collecting"
    /\ UNCHANGED <<kind, choice, guests>>

(* The one step that decides; only a fixed meeting skips asking the group.   *)
Decide ==
    /\ phase = IF kind = "planning" THEN "collecting" ELSE "draft"
    /\ phase' = "scheduled"
    /\ choice' \in [plan : PlanIds, time : TimeIds]
    /\ UNCHANGED <<kind, guests>>

Admit ==
    /\ phase \in Alive
    /\ \E p \in People : guests' = guests \cup {p}
    /\ UNCHANGED <<kind, phase, choice>>

Finish ==
    /\ phase = "scheduled"
    /\ phase' = "completed"
    /\ UNCHANGED <<kind, choice, guests>>

Abandon ==
    /\ phase \in Alive
    /\ phase' = "cancelled"
    /\ UNCHANGED <<kind, choice, guests>>

Advance == AskGroup \/ Decide \/ Admit \/ Finish \/ Abandon

Lifecycle == Begin /\ [][Advance]_lifecycle
==============================================================================
