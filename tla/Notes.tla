--------------------------------- MODULE Notes ---------------------------------
(***************************************************************************)
(* The notes participants leave on one meeting, beside what ends it: its     *)
(* completion or cancellation, the owner moving a fixed meeting into the     *)
(* past, and time itself, which archives it a day after its end.             *)
(*                                                                          *)
(* A change of a note is a transaction that begins with a statement which    *)
(* waits for the lock of the meeting.  Once granted, the statement sees the  *)
(* meeting of that moment, but the time option it joins, and now(), are of   *)
(* the moment it began.  What follows under the lock is one step.            *)
(***************************************************************************)
EXTENDS Naturals

CONSTANTS
    People,
    Texts,
    MaxVersion,  \* bound of the model on the versions of the meeting
    None

NotesAssumption == None \notin Texts /\ MaxVersion \in Nat \ {0}

VARIABLES
    state,    \* of the meeting
    time,     \* of its selected time option: none, ahead, or a day past
    version,
    notes,    \* meeting_notes
    tx        \* by person, the transaction that waits for the lock

vars == <<state, time, version, notes, tx>>

Note == Texts \cup {None}
States == {"draft", "collecting", "scheduled", "over"}
Times == {"none", "ahead", "past"}
Waiting == [text : Note, state : States, time : Times]

Init ==
    /\ state = "draft" /\ time = "none"
    /\ version = 1
    /\ notes = [p \in People |-> None]
    /\ tx = [p \in People |-> None]

Archived == state = "scheduled" /\ time = "past"

(* Plausible mistakes in the operators below; no action uses them.           *)
NeverArchived(p) == FALSE
Uncounted == version
------------------------------------------------------------------------------
(* GetMeetingForNoteMutation.                                                *)

StateNow(p) == state

ArchivedThen(p) == StateNow(p) = "scheduled" /\ tx[p].time = "past"

AuthorizeMutation(p) ==
    /\ ~ArchivedThen(p)
    /\ StateNow(p) \in {"draft", "collecting", "scheduled"}

TouchMeeting == version + 1

(* A deletion leaves no row.                                                 *)
Stored(p) == tx[p].text

(* The statement begins; without another transaction it is granted at once.  *)
Ask(p, text) ==
    /\ tx[p] = None
    /\ tx' = [tx EXCEPT ![p] = [text |-> text, state |-> state, time |-> time]]
    /\ UNCHANGED <<state, time, version, notes>>

(* Upsert, or Delete for None.  The text already there, or no note to        *)
(* delete, commits without moving the version.                               *)
Change(p) ==
    /\ tx[p] # None
    /\ AuthorizeMutation(p)
    /\ notes[p] # tx[p].text
    /\ version < MaxVersion
    /\ notes' = [notes EXCEPT ![p] = Stored(p)]
    /\ version' = TouchMeeting
    /\ tx' = [tx EXCEPT ![p] = None]
    /\ UNCHANGED <<state, time>>

(* Refused, unchanged, failed or abandoned.                                  *)
Leave(p) ==
    /\ tx[p] # None
    /\ tx' = [tx EXCEPT ![p] = None]
    /\ UNCHANGED <<state, time, version, notes>>

------------------------------------------------------------------------------
(* The rest of the meeting (Meeting.tla).                                    *)

(* A meeting is scheduled at any time, also one that is past.                *)
MoveOn ==
    /\ version < MaxVersion
    /\ \/ state = "draft" /\ state' = "collecting" /\ UNCHANGED time
       \/ state \in {"draft", "collecting"} /\ state' = "scheduled" /\ time' \in {"ahead", "past"}
       \/ state # "over" /\ state' = "over" /\ UNCHANGED time
    /\ version' = TouchMeeting
    /\ UNCHANGED <<notes, tx>>

(* Update of a fixed meeting, which expects the current version.             *)
Reschedule ==
    /\ state = "scheduled" /\ ~Archived
    /\ version < MaxVersion
    /\ time' \in {"ahead", "past"}
    /\ version' = TouchMeeting
    /\ UNCHANGED <<state, notes, tx>>

GrowOld ==
    /\ time = "ahead"
    /\ time' = "past"
    /\ UNCHANGED <<state, version, notes, tx>>

Next ==
    \/ \E p \in People :
        \/ \E text \in Note : Ask(p, text)
        \/ Change(p) \/ Leave(p)
    \/ MoveOn \/ Reschedule \/ GrowOld

Spec == Init /\ [][Next]_vars

------------------------------------------------------------------------------
(* Values are of their types.                                                *)
TypeOK ==
    /\ state \in States
    /\ time \in Times
    /\ version \in 1..MaxVersion
    /\ notes \in [People -> Note]
    /\ tx \in [People -> Waiting \cup {None}]

(* A request that waited while the meeting ended changes no note (the state  *)
(* is of the row that was locked), and a note changed after the meeting was  *)
(* archived was asked for before: the flag that is old when the lock is      *)
(* granted admits nothing that was not admissible when its statement began   *)
(* (GetMeetingForNoteMutation).                                              *)
AdmittedWhileActive ==
    [][\A p \in People :
          notes'[p] # notes[p] =>
              /\ state # "over"
              /\ ~Archived \/ ~(tx[p].state = "scheduled" /\ tx[p].time = "past")]_vars

(* Whoever has seen a version has seen the notes: two states of the notes    *)
(* never share one (TouchMeeting, which live updates rely on).               *)
VersionTracksNotes == [][notes' # notes => version' > version]_vars
=============================================================================
