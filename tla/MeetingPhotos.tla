----------------------------- MODULE MeetingPhotos -----------------------------
(***************************************************************************)
(* The photos of one meeting and of its plan options, and what the browser   *)
(* of a participant keeps of them.  The address of a photo names the version *)
(* of the copy of the meeting from which the page was drawn, and the answer  *)
(* may be kept for an hour (Cache-Control: private, max-age=3600).           *)
(*                                                                          *)
(* Each operation locks the meeting, so it is one step; the version it       *)
(* expects may be of any age.  A photo is its hash.                          *)
(***************************************************************************)
EXTENDS Naturals

CONSTANTS
    Options,
    Hashes,
    MaxVersion,  \* bound of the model on the versions of the meeting
    None

Slots == {"cover"} \cup Options
Versions == 1..MaxVersion
Entry == [slot : Slots, revision : Versions, hash : Hashes]

MeetingPhotosAssumption ==
    None \notin Hashes \cup Entry /\ "cover" \notin Options /\ MaxVersion \in Nat \ {0}

VARIABLES
    mode, state, archived,  \* of the meeting, as lockMeetingOwner reads them
    version,
    legacy,    \* cover_url holds an address from outside
    options,   \* plan_options
    photo,     \* meeting_photos and plan_option_photos, None without a row
    kept,      \* one entry of the browser's cache, None without one
    past,      \* history: the photos at each version
    asked      \* history: the version of the copy the last request was made from

vars == <<mode, state, archived, version, legacy, options, photo, kept, past, asked>>
meeting == <<mode, state, archived, version, legacy, options, photo, past, asked>>

Init ==
    /\ mode \in {"shared", "fixed"}
    /\ state = "draft" /\ archived = FALSE
    /\ version = 1
    /\ legacy \in BOOLEAN
    /\ options \in SUBSET Options
    /\ photo = [s \in Slots |-> None]
    /\ kept = None
    /\ past = [v \in Versions |-> photo] /\ asked = 1

(* Plausible mistakes in the operators below; no action uses them.           *)
AnyVersion(v) == TRUE
UntouchedMeeting == version
------------------------------------------------------------------------------
MeetingPhotoEditable ==
    state = "draft" \/ (state = "scheduled" /\ mode = "fixed" /\ ~archived)

ExpectedVersion(v) == version = v

TouchMeeting == version + 1

(* New contents at the next version.                                         *)
Store(contents, v) ==
    /\ version < MaxVersion
    /\ photo' = contents
    /\ version' = TouchMeeting
    /\ past' = [past EXCEPT ![version'] = contents]
    /\ asked' = v
    /\ UNCHANGED <<mode, state, archived, kept>>

(* The bytes already there are accepted before the version is looked at, and *)
(* change nothing.                                                           *)
PutMeetingPhoto(h, v) ==
    /\ MeetingPhotoEditable
    /\ photo["cover"] # h \/ legacy
    /\ ExpectedVersion(v)
    /\ Store([photo EXCEPT !["cover"] = h], v)
    /\ legacy' = FALSE
    /\ UNCHANGED options

DeleteMeetingPhoto(v) ==
    /\ MeetingPhotoEditable
    /\ photo["cover"] # None \/ legacy
    /\ ExpectedVersion(v)
    /\ Store([photo EXCEPT !["cover"] = None], v)
    /\ legacy' = FALSE
    /\ UNCHANGED options

EnsurePlanOption(o) == o \in options

PutPlanOptionPhoto(o, h, v) ==
    /\ state = "draft"
    /\ EnsurePlanOption(o)
    /\ photo[o] # h
    /\ ExpectedVersion(v)
    /\ Store([photo EXCEPT ![o] = h], v)
    /\ UNCHANGED <<legacy, options>>

DeletePlanOptionPhoto(o, v) ==
    /\ state = "draft"
    /\ EnsurePlanOption(o)
    /\ photo[o] # None
    /\ ExpectedVersion(v)
    /\ Store([photo EXCEPT ![o] = None], v)
    /\ UNCHANGED <<legacy, options>>

------------------------------------------------------------------------------
(* The rest of the meeting (Meeting.tla), as far as photos depend on it.     *)

(* plan_option_photos go with their option.                                  *)
WithoutPhotos(gone) == [s \in Slots |-> IF s \in gone THEN None ELSE photo[s]]

(* The request names no version: its sender may look at a copy of any age.   *)
DeletePlanOption(o, v) ==
    /\ state = "draft" /\ o \in options
    /\ options' = options \ {o}
    /\ Store(WithoutPhotos({o}), v)
    /\ UNCHANGED legacy

(* The form of the meeting sends the cover_url of its copy, be it old.       *)
Update(url) ==
    /\ MeetingPhotoEditable
    /\ legacy' = url
    /\ Store(photo, version)
    /\ UNCHANGED options

MoveOn ==
    /\ version < MaxVersion
    /\ state' = CASE state = "draft" -> IF mode = "fixed" THEN "scheduled" ELSE "collecting"
                  [] state = "collecting" -> "scheduled"
                  [] OTHER -> "over"
    /\ state # "over"
    /\ version' = TouchMeeting
    /\ past' = [past EXCEPT ![version'] = photo]
    /\ UNCHANGED <<mode, archived, legacy, options, photo, kept, asked>>

GrowOld ==
    /\ state = "scheduled" /\ ~archived
    /\ archived' = TRUE
    /\ UNCHANGED <<mode, state, version, legacy, options, photo, kept, past, asked>>

------------------------------------------------------------------------------
(* The browser.                                                              *)

(* A page of version v asks for a photo the browser does not keep, or no     *)
(* longer: an entry may be dropped at any time.  One that it keeps is shown  *)
(* without a request.                                                        *)
GetPhoto(s, v) ==
    /\ v <= version
    /\ photo[s] # None
    /\ kept' = [slot |-> s, revision |-> v, hash |-> photo[s]]
    /\ UNCHANGED meeting

Next ==
    \/ \E v \in 1..version :
        \/ \E h \in Hashes : PutMeetingPhoto(h, v)
        \/ DeleteMeetingPhoto(v)
        \/ \E o \in Options :
            \/ \E h \in Hashes : PutPlanOptionPhoto(o, h, v)
            \/ DeletePlanOptionPhoto(o, v)
            \/ DeletePlanOption(o, v)
        \/ \E s \in Slots : GetPhoto(s, v)
    \/ \E url \in BOOLEAN : Update(url)
    \/ MoveOn \/ GrowOld

Spec == Init /\ [][Next]_vars

------------------------------------------------------------------------------
(* Values are of their types, and a photo of an option has its option.       *)
TypeOK ==
    /\ mode \in {"shared", "fixed"}
    /\ state \in {"draft", "collecting", "scheduled", "over"}
    /\ archived \in BOOLEAN /\ legacy \in BOOLEAN
    /\ version \in Versions
    /\ options \subseteq Options
    /\ photo \in [Slots -> Hashes \cup {None}]
    /\ \A o \in Options : photo[o] # None => o \in options
    /\ kept \in Entry \cup {None}
    /\ past \in [Versions -> [Slots -> Hashes \cup {None}]]
    /\ asked \in Versions

(* The photo a page of some version shows from the browser's cache was the   *)
(* photo at that version or at a later one: every change of a photo moves    *)
(* the version, so no address ever shows what had been replaced (writePhoto, *)
(* touchMeeting).                                                            *)
KeptIsNotOlder ==
    kept # None => \E v \in kept.revision..version : past[v][kept.slot] = kept.hash

Remains(s) == s \notin options \ options'

(* A photo whose place remains is replaced or removed only by a request made *)
(* from a copy of the meeting in which it was there: a request that is late, *)
(* repeated or from a second tab overwrites no photo its sender could not    *)
(* see (PutMeetingPhoto and the three beside it).  Not so a photo that goes  *)
(* with its option: that deletion asks for no version.                       *)
NoUnseenPhotoLost ==
    [][\A s \in Slots :
         Remains(s) /\ photo'[s] # photo[s] => past[asked'][s] = photo[s]]_vars
=============================================================================
