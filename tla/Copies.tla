------------------------------- MODULE Copies --------------------------------
(***************************************************************************)
(* What pages and browsers keep of the tables and act upon while it grows    *)
(* old: the owner's copies of a draft, the photos of a meeting and the photo *)
(* of a profile.  The three share nothing, so a behaviour is one of one of   *)
(* them, with the others at rest.                                            *)
(***************************************************************************)
EXTENDS OwnerTabs

CONSTANTS
    Options, Hashes, MaxPhotoVersion,
    MaxRevision, MaxLives

VARIABLES
    part,  \* the component that moves
    mode, state, archived, photoVersion, legacy, options, photo, photoKept, past, asked,
    avatar, revision, outside, profileCopy, due, kept, life, told

photoVars == <<mode, state, archived, photoVersion, legacy, options, photo, photoKept, past,
               asked>>
profileVars == <<avatar, revision, outside, profileCopy, due, kept, life, told>>

Photos == INSTANCE MeetingPhotos WITH MaxVersion <- MaxPhotoVersion,
    version <- photoVersion, kept <- photoKept

Profile == INSTANCE Avatars WITH copy <- profileCopy

ASSUME PhotosAssumed == Photos!MeetingPhotosAssumption
ASSUME ProfileAssumed == Profile!AvatarsAssumption

CopiesInit ==
    /\ part \in {"tabs", "photos", "profile"}
    /\ Init /\ Photos!Init /\ Profile!Init
    /\ part # "tabs" => title = plan
    /\ part # "photos" => mode = "fixed" /\ ~legacy /\ options = {}
    /\ part # "profile" => ~outside

CopiesNext ==
    /\ UNCHANGED part
    /\ \/ part = "tabs" /\ Next /\ UNCHANGED <<photoVars, profileVars>>
       \/ part = "photos" /\ Photos!Next /\ UNCHANGED <<vars, profileVars>>
       \/ part = "profile" /\ Profile!Next /\ UNCHANGED <<vars, photoVars>>

CopiesSpec == CopiesInit /\ [][CopiesNext]_<<part, vars, photoVars, profileVars>>

------------------------------------------------------------------------------
(* The three are of their types.                                             *)
CopiesTypeOK == TypeOK /\ Photos!TypeOK /\ Profile!TypeOK

(* No photo of a meeting, or of an option that remains, is replaced or       *)
(* removed by a request whose sender could not see it (MeetingPhotos).       *)
NoUnseenPhotoLost == Photos!NoUnseenPhotoLost

(* No page is shown, from what a browser keeps, a photo of a meeting that    *)
(* had been replaced at the version of the page (MeetingPhotos), or, under   *)
(* an address of a profile photo told since its last removal, one that was   *)
(* replaced (Avatars).                                                       *)
KeptIsNotOlder == Photos!KeptIsNotOlder /\ Profile!FreshSinceRemoval

(* A revision is told exactly while a photo can be fetched (Avatars).        *)
RevisionHasPhoto == Profile!RevisionHasPhoto
==============================================================================
