-------------------------- MODULE MeetingPhotosProofs --------------------------
(***************************************************************************)
(* What the photos of a meeting keep for every number of plan options,       *)
(* photos and versions: no address shows what had been replaced before the   *)
(* version it names, and no photo is lost that its replacer could not see,   *)
(* unless its option goes with it.                                           *)
(***************************************************************************)
EXTENDS MeetingPhotos, TLAPS

(* The history has the photos of now at the version of now.                  *)
Remembered == past[version] = photo

KeptNotNewer == kept # None => kept.revision <= version

IInv == TypeOK /\ Remembered /\ KeptNotNewer /\ KeptIsNotOlder

(* New contents at the next version, as every operation stores them.         *)
Moves ==
    /\ version < MaxVersion /\ version' = version + 1
    /\ photo' \in [Slots -> Hashes \cup {None}]
    /\ past' = [past EXCEPT ![version'] = photo']
    /\ kept' = kept /\ asked' \in Versions

LEMMA InitHolds == MeetingPhotosAssumption /\ Init => IInv
  <1> SUFFICES ASSUME MeetingPhotosAssumption, Init PROVE IInv
    OBVIOUS
  <1> USE DEF MeetingPhotosAssumption
  <1>1. photo \in [Slots -> Hashes \cup {None}] /\ 1 \in Versions
    BY DEF Init, Versions
  <1>2. past \in [Versions -> [Slots -> Hashes \cup {None}]] /\ past[version] = photo
    BY <1>1 DEF Init
  <1>3. TypeOK
    BY <1>1, <1>2 DEF Init, TypeOK, Slots
  <1>4. QED
    BY <1>2, <1>3 DEF Init, IInv, Remembered, KeptNotNewer, KeptIsNotOlder

(* What a move of the version does to the history and to what browsers keep. *)
LEMMA MovesKeep ==
  ASSUME MeetingPhotosAssumption, IInv, Moves
  PROVE  /\ version' \in Versions /\ past' \in [Versions -> [Slots -> Hashes \cup {None}]]
         /\ Remembered' /\ KeptNotNewer' /\ KeptIsNotOlder'
  <1> USE DEF MeetingPhotosAssumption
  <1>1. version \in Nat /\ version' = version + 1 /\ version' \in Versions
    BY DEF IInv, TypeOK, Moves, Versions
  <1>2. /\ past' \in [Versions -> [Slots -> Hashes \cup {None}]] /\ past'[version'] = photo'
        /\ \A v \in Versions \ {version'} : past'[v] = past[v]
    BY <1>1 DEF IInv, TypeOK, Moves
  <1>3. KeptNotNewer' /\ KeptIsNotOlder'
    <2> SUFFICES ASSUME kept # None
                 PROVE  /\ kept.revision <= version'
                        /\ \E v \in kept.revision..version' : past'[v][kept.slot] = kept.hash
      BY DEF Moves, KeptNotNewer, KeptIsNotOlder
    <2>1. PICK v \in kept.revision..version : past[v][kept.slot] = kept.hash
      BY DEF IInv, KeptIsNotOlder
    <2>2. kept.revision \in Versions /\ kept.revision <= version
      BY DEF IInv, TypeOK, KeptNotNewer, Entry
    <2>3. v \in Versions \ {version'} /\ v \in kept.revision..version'
      BY <1>1, <2>1, <2>2 DEF Versions
    <2>4. QED
      BY <1>1, <1>2, <2>1, <2>2, <2>3 DEF Versions
  <1>4. QED
    BY <1>1, <1>2, <1>3 DEF Remembered

(* Every change of a photo moves the version, whichever the request named.   *)
LEMMA StoreMoves ==
  ASSUME MeetingPhotosAssumption, IInv, NEW contents, NEW v \in 1..version, Store(contents, v),
         contents \in [Slots -> Hashes \cup {None}]
  PROVE  Moves /\ photo' = contents /\ asked' = v /\ UNCHANGED <<mode, state, archived>>
  BY DEF MeetingPhotosAssumption, IInv, TypeOK, Store, Moves, TouchMeeting, Versions

LEMMA CoverKeeps ==
  ASSUME MeetingPhotosAssumption, IInv, NEW v \in 1..version,
         (\E h \in Hashes : PutMeetingPhoto(h, v)) \/ DeleteMeetingPhoto(v)
  PROVE  IInv' /\ asked' = version
  <1>1. PICK h \in Hashes \cup {None} : Store([photo EXCEPT !["cover"] = h], v)
    BY DEF PutMeetingPhoto, DeleteMeetingPhoto
  <1>2. [photo EXCEPT !["cover"] = h] \in [Slots -> Hashes \cup {None}]
    BY DEF IInv, TypeOK, Slots
  <1>3. v = version /\ legacy' = FALSE /\ options' = options
    BY DEF PutMeetingPhoto, DeleteMeetingPhoto, ExpectedVersion
  <1>4. Moves /\ photo' = [photo EXCEPT !["cover"] = h] /\ asked' = version
        /\ UNCHANGED <<mode, state, archived>>
    BY <1>1, <1>2, <1>3, StoreMoves
  <1>5. \A o \in Options : photo'[o] # None => o \in options'
    BY <1>3, <1>4 DEF IInv, TypeOK, Slots, MeetingPhotosAssumption
  <1>6. TypeOK'
    BY <1>3, <1>4, <1>5, MovesKeep DEF IInv, TypeOK, Moves
  <1>7. QED
    BY <1>4, <1>6, MovesKeep DEF IInv

LEMMA OptionPhotoKeeps ==
  ASSUME MeetingPhotosAssumption, IInv, NEW v \in 1..version, NEW o \in Options,
         (\E h \in Hashes : PutPlanOptionPhoto(o, h, v)) \/ DeletePlanOptionPhoto(o, v)
  PROVE  IInv' /\ asked' = version
  <1>1. PICK h \in Hashes \cup {None} : Store([photo EXCEPT ![o] = h], v)
    BY DEF PutPlanOptionPhoto, DeletePlanOptionPhoto
  <1>2. [photo EXCEPT ![o] = h] \in [Slots -> Hashes \cup {None}]
    BY DEF IInv, TypeOK, Slots
  <1>3. v = version /\ o \in options /\ UNCHANGED <<legacy, options>>
    BY DEF PutPlanOptionPhoto, DeletePlanOptionPhoto, ExpectedVersion, EnsurePlanOption
  <1>4. Moves /\ photo' = [photo EXCEPT ![o] = h] /\ asked' = version
        /\ UNCHANGED <<mode, state, archived>>
    BY <1>1, <1>2, <1>3, StoreMoves
  <1>5. \A p \in Options : photo'[p] # None => p \in options'
    BY <1>3, <1>4 DEF IInv, TypeOK, Slots
  <1>6. TypeOK'
    BY <1>3, <1>4, <1>5, MovesKeep DEF IInv, TypeOK, Moves
  <1>7. QED
    BY <1>4, <1>6, MovesKeep DEF IInv

LEMMA OptionGoesKeeps ==
  ASSUME MeetingPhotosAssumption, IInv, NEW v \in 1..version, NEW o \in Options,
         DeletePlanOption(o, v)
  PROVE  IInv' /\ \A s \in Slots : Remains(s) => photo'[s] = photo[s]
  <1>1. WithoutPhotos({o}) \in [Slots -> Hashes \cup {None}]
    BY DEF IInv, TypeOK, WithoutPhotos
  <1>2. Moves /\ photo' = WithoutPhotos({o})
        /\ UNCHANGED <<mode, state, archived>>
    BY <1>1, StoreMoves DEF DeletePlanOption
  <1>3. options' = options \ {o} /\ legacy' = legacy /\ o \in options
    BY DEF DeletePlanOption
  <1>4. \A p \in Options : photo'[p] # None => p \in options'
    BY <1>2, <1>3 DEF IInv, TypeOK, Slots, WithoutPhotos
  <1>5. TypeOK'
    BY <1>2, <1>3, <1>4, MovesKeep DEF IInv, TypeOK, Moves
  <1>6. \A s \in Slots : Remains(s) => photo'[s] = photo[s]
    BY <1>2, <1>3 DEF Remains, WithoutPhotos
  <1>7. QED
    BY <1>2, <1>5, <1>6, MovesKeep DEF IInv

LEMMA UpdateKeeps ==
  ASSUME MeetingPhotosAssumption, IInv, NEW url \in BOOLEAN, Update(url)
  PROVE  IInv' /\ asked' = version
  <1>1. photo \in [Slots -> Hashes \cup {None}]
    BY DEF IInv, TypeOK
  <1>2. Moves /\ photo' = photo /\ asked' = version /\ UNCHANGED <<mode, state, archived>>
    <2>1. version \in 1..version
      BY DEF IInv, TypeOK, Versions
    <2>2. QED
      BY <1>1, <2>1, StoreMoves DEF Update
  <1>3. legacy' = url /\ options' = options
    BY DEF Update
  <1>4. TypeOK'
    BY <1>2, <1>3, MovesKeep DEF IInv, TypeOK, Moves
  <1>5. QED
    BY <1>2, <1>4, MovesKeep DEF IInv

LEMMA MoveOnKeeps ==
  ASSUME MeetingPhotosAssumption, IInv, MoveOn
  PROVE  IInv' /\ photo' = photo
  <1>1. Moves /\ UNCHANGED <<mode, archived, legacy, options, photo, kept, asked>>
    BY DEF MoveOn, Moves, TouchMeeting, IInv, TypeOK
  <1>2. state' \in {"draft", "collecting", "scheduled", "over"}
    BY DEF MoveOn
  <1>3. TypeOK'
    BY <1>1, <1>2, MovesKeep DEF IInv, TypeOK
  <1>4. QED
    BY <1>1, <1>3, MovesKeep DEF IInv

LEMMA GrowOldKeeps ==
  ASSUME MeetingPhotosAssumption, IInv, GrowOld
  PROVE  IInv' /\ photo' = photo
  BY DEF GrowOld, IInv, TypeOK, Remembered, KeptNotNewer, KeptIsNotOlder

LEMMA GetPhotoKeeps ==
  ASSUME MeetingPhotosAssumption, IInv, NEW s \in Slots, NEW v \in 1..version, GetPhoto(s, v)
  PROVE  IInv' /\ photo' = photo
  <1> DEFINE entry == [slot |-> s, revision |-> v, hash |-> photo[s]]
  <1>1. kept' = entry /\ UNCHANGED meeting
    BY DEF GetPhoto
  <1>2. v \in Versions /\ version \in Versions /\ v <= version
    BY DEF IInv, TypeOK, Versions, MeetingPhotosAssumption
  <1>3. photo[s] \in Hashes
    BY DEF GetPhoto, IInv, TypeOK
  <1>4. entry \in Entry
    BY <1>2, <1>3 DEF Entry
  <1>5. TypeOK'
    BY <1>1, <1>4 DEF IInv, TypeOK, meeting
  <1>6. Remembered'
    BY <1>1 DEF IInv, Remembered, meeting
  <1>7. KeptNotNewer' /\ KeptIsNotOlder'
    <2>1. version \in v..version /\ past[version][s] = photo[s]
      BY <1>2 DEF Versions, IInv, Remembered
    <2>2. QED
      BY <1>1, <1>2, <2>1 DEF KeptNotNewer, KeptIsNotOlder, meeting
  <1>8. QED
    BY <1>1, <1>5, <1>6, <1>7 DEF IInv, meeting

(* What a step does, and that a photo whose place remains is changed only by *)
(* a request from a copy of the version of now.                              *)
LEMMA StepHolds ==
  ASSUME MeetingPhotosAssumption, IInv, [Next]_vars
  PROVE  /\ IInv'
         /\ asked' = version \/ \A s \in Slots : Remains(s) => photo'[s] = photo[s]
  <1>1. CASE UNCHANGED vars
    BY <1>1 DEF vars, IInv, TypeOK, Remembered, KeptNotNewer, KeptIsNotOlder
  <1>2. QED
    BY <1>1, CoverKeeps, OptionPhotoKeeps, OptionGoesKeeps, UpdateKeeps, MoveOnKeeps, GrowOldKeeps,
       GetPhotoKeeps DEF Next

LEMMA Inductive == MeetingPhotosAssumption => (Spec => []IInv)
  <1> SUFFICES ASSUME MeetingPhotosAssumption PROVE Spec => []IInv
    OBVIOUS
  <1>1. Init => IInv
    BY InitHolds
  <1>2. IInv /\ [Next]_vars => IInv'
    BY StepHolds
  <1>3. QED
    BY <1>1, <1>2, PTL DEF Spec

------------------------------------------------------------------------------
(* Values are of their types, and a photo of an option has its option.       *)
THEOREM PhotosAreTyped == MeetingPhotosAssumption => (Spec => []TypeOK)
  <1>1. IInv => TypeOK
    BY DEF IInv
  <1>2. QED
    BY <1>1, Inductive, PTL

(* No address of a photo shows what had been replaced before the version it  *)
(* names (writePhoto, touchMeeting).                                         *)
THEOREM KeptIsNeverOlder == MeetingPhotosAssumption => (Spec => []KeptIsNotOlder)
  <1>1. IInv => KeptIsNotOlder
    BY DEF IInv
  <1>2. QED
    BY <1>1, Inductive, PTL

(* A photo that does not go with its option is replaced or removed only by a *)
(* request made from a copy of the meeting in which it was there             *)
(* (PutMeetingPhoto and the three beside it; DeletePlanOption names no       *)
(* version).                                                                 *)
THEOREM PhotosAreNotLostUnseen == MeetingPhotosAssumption => (Spec => NoUnseenPhotoLost)
  <1> SUFFICES ASSUME MeetingPhotosAssumption PROVE Spec => NoUnseenPhotoLost
    OBVIOUS
  <1>1. IInv /\ [Next]_vars =>
            [\A s \in Slots :
               Remains(s) /\ photo'[s] # photo[s] => past[asked'][s] = photo[s]]_vars
    <2>1. ASSUME IInv, [Next]_vars, NEW s \in Slots, Remains(s), photo'[s] # photo[s]
          PROVE  past[asked'][s] = photo[s]
      BY <2>1, StepHolds DEF IInv, Remembered
    <2>2. QED
      BY <2>1
  <1>2. QED
    BY <1>1, Inductive, PTL DEF Spec, NoUnseenPhotoLost

==============================================================================
