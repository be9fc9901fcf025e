-------------------------------- MODULE Group --------------------------------
(***************************************************************************)
(* What a group does around one meeting: polls, answers about times, things  *)
(* to bring and notes.  The four share no table but the row of the meeting,  *)
(* of which each models what it needs, so a behaviour is one of one of them, *)
(* with the others at rest.                                                  *)
(***************************************************************************)
EXTENDS Polls

CONSTANTS
    Group,  \* who answers about times and brings things
    Plans, Scope, Start,
    Items, Names, Amount, MaxListVersion,
    People, Texts, MaxNoteVersion

VARIABLES
    part,  \* the component that moves
    viewers, answers, seen, view,
    state, listVersion, helpers, rows, claims,
    noteState, noteTime, noteVersion, notes, tx

viewVars == <<viewers, answers, seen, view>>
listVars == <<state, listVersion, helpers, rows, claims>>
noteVars == <<noteState, noteTime, noteVersion, notes, tx>>

View == INSTANCE AvailabilityView WITH Users <- Group, members <- viewers

List == INSTANCE Preparation WITH Users <- Group, MaxVersion <- MaxListVersion,
    version <- listVersion, members <- helpers

Note == INSTANCE Notes WITH MaxVersion <- MaxNoteVersion, state <- noteState,
    time <- noteTime, version <- noteVersion

ASSUME ViewAssumed == View!ViewAssumption
ASSUME ListAssumed == List!PreparationAssumption
ASSUME NoteAssumed == Note!NotesAssumption

GroupInit ==
    /\ part \in {"polls", "view", "list", "notes"}
    /\ Init /\ View!Init /\ List!Init /\ Note!Init

GroupNext ==
    /\ UNCHANGED part
    /\ \/ part = "polls" /\ Next /\ UNCHANGED <<viewVars, listVars, noteVars>>
       \/ part = "view" /\ View!Next /\ UNCHANGED <<vars, listVars, noteVars>>
       \/ part = "list" /\ List!Next /\ UNCHANGED <<vars, viewVars, noteVars>>
       \/ part = "notes" /\ Note!Next /\ UNCHANGED <<vars, viewVars, listVars>>

GroupSpec == GroupInit /\ [][GroupNext]_<<part, vars, viewVars, listVars, noteVars>>

------------------------------------------------------------------------------
(* The four are of their types.                                              *)
GroupTypeOK == TypeOK /\ View!TypeOK /\ List!TypeOK /\ Note!TypeOK

(* A view counts exactly the participants who have not answered, unless      *)
(* somebody joins between its two reads (AvailabilityView).                  *)
ExactWhenQuiet == View!ExactWhenQuiet

(* A recommended time suits its plan and none is better (AvailabilityView).  *)
RecommendsBest == View!RecommendsBest

(* No more is claimed than is needed, by participants, and what is marked as *)
(* completed is covered (Preparation).                                       *)
ClaimsFit == List!ClaimsFit

(* A completed meeting left nothing undone (Preparation).                    *)
CompletedMeetingIsReady == List!CompletedMeetingIsReady

(* No note changes in an archive, but for a request that was there before    *)
(* it was one (Notes).                                                       *)
AdmittedWhileActive == Note!AdmittedWhileActive

(* What a participant sees of the list, the polls and the notes never        *)
(* changes without the version, by which pages and the live stream notice    *)
(* changes (Preparation, Polls, Notes).                                      *)
EveryChangeTells == List!VersionTracksList /\ VersionTracksPolls /\ Note!VersionTracksNotes
==============================================================================
