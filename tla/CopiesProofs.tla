---------------------------- MODULE CopiesProofs -----------------------------
(***************************************************************************)
(* What Copies keeps for every number of tabs, texts and photos and every    *)
(* bound: copies that are current are exact, however their reads were torn   *)
(* and whichever load came last, so the version check of a save protects     *)
(* what its form did not show; and what a browser keeps is not older than    *)
(* the address that finds it.                                                *)
(***************************************************************************)
EXTENDS Copies, TLAPS

(* The tabs of the owner.                                                    *)

(* A row that was read is not from the future, and if nothing has been       *)
(* committed since, it is the row there is.                                  *)
RowHolds(row) ==
    /\ row.version <= version
    /\ row.version = version => row.title = title /\ row.plan \in {plan, None}

CopiesHold == \A c \in Tabs : RowHolds(copy[c])
FetchesHold == \A c \in Tabs, k \in Reasons : fetch[c][k] # None => RowHolds(fetch[c][k])

(* A save of the title that would be accepted comes from the title there is. *)
SavesHold ==
    \A c \in Tabs : sent[c] # None /\ sent[c].field = "title" =>
        /\ sent[c].expected <= version
        /\ sent[c].expected = version => sent[c].step # "asked" \/ sent[c].basis = title

IInv == TypeOK /\ CopiesHold /\ FetchesHold /\ SavesHold

LEMMA InitHolds == Init => IInv
  <1> SUFFICES ASSUME Init PROVE IInv
    OBVIOUS
  <1> USE TabsAssumption
  <1>1. TypeOK
    BY DEF Init, TypeOK, Copy, Rows, Save, Reasons
  <1>2. CopiesHold
    <2> SUFFICES ASSUME NEW c \in Tabs PROVE RowHolds(copy[c])
      BY DEF CopiesHold
    <2>1. copy[c] = [version |-> 1, title |-> title, plan |-> plan] /\ version = 1
      BY DEF Init
    <2>2. copy[c].version = 1 /\ copy[c].title = title /\ copy[c].plan = plan
      BY <2>1
    <2> QED
      BY <2>1, <2>2 DEF RowHolds
  <1>3. FetchesHold /\ SavesHold
    BY DEF Init, FetchesHold, SavesHold, Reasons
  <1> QED
    BY <1>1, <1>2, <1>3 DEF IInv

------------------------------------------------------------------------------
(* A commit makes whatever was read before it old.                           *)
LEMMA CommitKeepsRows ==
    ASSUME IInv, Touch, UNCHANGED <<copy, fetch>>
    PROVE  CopiesHold' /\ FetchesHold'
  <1> USE TabsAssumption DEF IInv, TypeOK, Copy, Rows, RowHolds
  <1>1. version \in Nat /\ version' = version + 1
    BY DEF Touch
  <1>2. CopiesHold'
    BY <1>1 DEF CopiesHold
  <1>3. FetchesHold'
    <2> SUFFICES ASSUME NEW c \in Tabs, NEW k \in Reasons, fetch[c][k] # None
                 PROVE  RowHolds(fetch[c][k])'
      BY DEF FetchesHold
    <2>1. fetch[c][k] \in Rows
      OBVIOUS
    <2>2. fetch[c][k].version <= version /\ fetch[c][k].version \in Nat
      BY <2>1 DEF FetchesHold
    <2> QED
      BY <1>1, <2>2
  <1> QED
    BY <1>2, <1>3

LEMMA OtherChangeHolds == IInv /\ OtherChange => IInv'
  <1> SUFFICES ASSUME IInv, OtherChange PROVE IInv'
    OBVIOUS
  <1> USE TabsAssumption
  <1>1. CopiesHold' /\ FetchesHold'
    BY CommitKeepsRows DEF OtherChange
  <1>2. TypeOK'
    BY DEF IInv, TypeOK, OtherChange, Touch
  <1>3. SavesHold'
    BY DEF IInv, TypeOK, Save, SavesHold, OtherChange, Touch
  <1> QED
    BY <1>1, <1>2, <1>3 DEF IInv

------------------------------------------------------------------------------
(* The two reads of Get.                                                     *)
LEMMA ReadRowHolds ==
    ASSUME NEW c \in Tabs, NEW k \in Reasons, IInv, ReadRow(c, k) PROVE IInv'
  <1> USE TabsAssumption DEF IInv, ReadRow
  <1>1. TypeOK'
    BY DEF TypeOK, Rows
  <1>2. FetchesHold'
    BY DEF FetchesHold, RowHolds, TypeOK
  <1>3. CopiesHold' /\ SavesHold'
    BY DEF CopiesHold, RowHolds, SavesHold
  <1> QED
    BY <1>1, <1>2, <1>3

(* Plans of a later moment are added to a row: if the version is still       *)
(* current, nothing was committed in between.                                *)
LEMMA ReadPlansHolds ==
    ASSUME NEW c \in Tabs, NEW k \in Reasons, IInv, ReadPlans(c, k) PROVE IInv'
  <1> USE TabsAssumption DEF IInv, ReadPlans, PlansAfterRow
  <1>1. fetch[c][k] \in Rows
    BY DEF TypeOK
  <1>2. fetch' = [fetch EXCEPT ![c][k] = [fetch[c][k] EXCEPT !.plan = plan]]
    BY DEF TypeOK
  <1>3. [fetch[c][k] EXCEPT !.plan = plan] \in Rows
    BY <1>1 DEF TypeOK, Rows
  <1>4. TypeOK'
    BY <1>2, <1>3 DEF TypeOK
  <1>5. FetchesHold'
    BY <1>1, <1>2 DEF FetchesHold, RowHolds, TypeOK, Rows
  <1>6. CopiesHold' /\ SavesHold'
    BY DEF CopiesHold, RowHolds, SavesHold
  <1> QED
    BY <1>4, <1>5, <1>6

------------------------------------------------------------------------------
(* The page takes a copy, or does not.                                       *)
LEMMA FinishHolds ==
    ASSUME NEW c \in Tabs, TypeOK, SavesHold, UNCHANGED <<version, title>>,
           Finish(c) \/ UNCHANGED <<form, sent>>
    PROVE  /\ form' \in [Tabs -> Texts \cup {None}]
           /\ sent' \in [Tabs -> Save \cup {None}]
           /\ SavesHold'
  BY DEF TypeOK, Finish, SavesHold

LEMMA ShowHolds ==
    ASSUME NEW c \in Tabs, NEW k \in Reasons, IInv, Show(c, k) PROVE IInv'
  <1> USE TabsAssumption DEF IInv, Show
  <1>1. fetch[c][k] \in Rows /\ fetch[c][k].plan \in Texts
    BY DEF TypeOK, Rows
  <1>2. fetch[c][k] \in Copy
    BY <1>1 DEF Rows, Copy
  <1>3. /\ form' \in [Tabs -> Texts \cup {None}]
        /\ sent' \in [Tabs -> Save \cup {None}]
        /\ SavesHold'
    BY FinishHolds
  <1>4. TypeOK'
    BY <1>2, <1>3 DEF TypeOK
  <1>5. RowHolds(fetch[c][k])
    BY DEF FetchesHold
  <1>6. CopiesHold' /\ FetchesHold'
    BY <1>5 DEF CopiesHold, FetchesHold, RowHolds, TypeOK
  <1> QED
    BY <1>3, <1>4, <1>6

LEMMA LoadFailsHolds ==
    ASSUME NEW c \in Tabs, NEW k \in Reasons, IInv, LoadFails(c, k) PROVE IInv'
  <1> USE TabsAssumption DEF IInv, LoadFails
  <1>1. /\ form' \in [Tabs -> Texts \cup {None}]
        /\ sent' \in [Tabs -> Save \cup {None}]
        /\ SavesHold'
    BY FinishHolds
  <1>2. TypeOK'
    BY <1>1 DEF TypeOK
  <1>3. CopiesHold' /\ FetchesHold'
    BY DEF CopiesHold, FetchesHold, RowHolds, TypeOK
  <1> QED
    BY <1>1, <1>2, <1>3

------------------------------------------------------------------------------
(* Forms and saves.                                                          *)
LEMMA FormHolds ==
    ASSUME NEW c \in Tabs, IInv, OpenForm(c) \/ CloseForm(c) PROVE IInv'
  <1> USE TabsAssumption DEF IInv, OpenForm, CloseForm
  <1>1. TypeOK'
    BY DEF TypeOK, Copy
  <1>2. CopiesHold' /\ FetchesHold' /\ SavesHold'
    BY DEF CopiesHold, FetchesHold, RowHolds, SavesHold
  <1> QED
    BY <1>1, <1>2

(* The metadata form shows the copy, so its basis is as current as its       *)
(* version; the plan form makes no claim of a title.                         *)
LEMMA AskHolds ==
    ASSUME NEW c \in Tabs, NEW text \in Texts, IInv,
           AskTitle(c, text) \/ AskPlan(c, text)
    PROVE  IInv'
  <1> USE TabsAssumption DEF IInv, AskTitle, AskPlan, Ask
  <1>1. copy[c] \in Copy /\ form[c] \in Texts \cup {None}
    BY DEF TypeOK
  <1>2. TypeOK'
    BY <1>1 DEF TypeOK, Copy, Save
  <1>3. SavesHold'
    <2>1. RowHolds(copy[c])
      BY DEF CopiesHold
    <2> QED
      BY <1>1, <2>1 DEF SavesHold, RowHolds, TypeOK, Copy
  <1>4. CopiesHold' /\ FetchesHold'
    BY DEF CopiesHold, FetchesHold, RowHolds
  <1> QED
    BY <1>2, <1>3, <1>4

(* After a commit what a save expects has gone by.                           *)
LEMMA SaveOld ==
    ASSUME TypeOK', version \in Nat
    PROVE  \A d \in Tabs : sent'[d] # None /\ version' = version + 1
                           /\ sent'[d].expected <= version
             => sent'[d].expected <= version' /\ sent'[d].expected # version'
  BY DEF TypeOK, Save

LEMMA HandleHolds ==
    ASSUME NEW c \in Tabs, IInv, Handle(c) PROVE IInv'
  <1> USE TabsAssumption DEF IInv
  <1>1. sent[c] \in Save /\ sent[c].step = "asked"
    BY DEF Handle, TypeOK
  <1>2. CASE /\ AtVersion(sent[c].expected)
             /\ Store(sent[c].field, sent[c].text)
             /\ sent' = [sent EXCEPT ![c].step = "saved"]
             /\ UNCHANGED <<copy, fetch, form>>
    <2>1. CopiesHold' /\ FetchesHold'
      BY <1>2, CommitKeepsRows DEF Store
    <2>2. [sent[c] EXCEPT !.step = "saved"] \in Save
      BY <1>1 DEF Save
    <2>3. TypeOK'
      BY <1>1, <1>2, <2>2 DEF TypeOK, Store, Touch, Save
    <2>4. SavesHold'
      <3> SUFFICES ASSUME NEW d \in Tabs, sent'[d] # None, sent'[d].field = "title"
                   PROVE  sent'[d].expected <= version /\ version' = version + 1
        BY <2>3, SaveOld DEF SavesHold, TypeOK
      <3>1. sent[d] # None /\ sent'[d].field = sent[d].field
            /\ sent'[d].expected = sent[d].expected
        <4>1. CASE d = c
          BY <1>1, <1>2, <4>1 DEF TypeOK, Save, Handle
        <4>2. CASE d # c
          BY <1>2, <4>2 DEF TypeOK
        <4> QED
          BY <4>1, <4>2
      <3> QED
        BY <1>2, <3>1 DEF SavesHold, Store, Touch
    <2> QED
      BY <2>1, <2>3, <2>4
  <1>3. CASE /\ sent' = [sent EXCEPT ![c].step = "refused"]
             /\ UNCHANGED <<version, title, plan, copy, fetch, form>>
    <2>1. [sent[c] EXCEPT !.step = "refused"] \in Save
      BY <1>1 DEF Save
    <2>2. TypeOK'
      BY <1>1, <1>3, <2>1 DEF TypeOK
    <2>3. SavesHold'
      <3> SUFFICES ASSUME NEW d \in Tabs, sent'[d] # None, sent'[d].field = "title"
                   PROVE  /\ sent'[d].expected <= version'
                          /\ sent'[d].expected = version' =>
                               sent'[d].step # "asked" \/ sent'[d].basis = title'
        BY DEF SavesHold
      <3>1. CASE d = c
        <4>1. /\ sent'[d].step = "refused" /\ sent[d] # None
              /\ sent[d].field = "title" /\ sent'[d].expected = sent[d].expected
          BY <1>1, <1>3, <3>1 DEF TypeOK, Save, Handle
        <4> QED
          BY <1>3, <4>1 DEF SavesHold
      <3>2. CASE d # c
        BY <1>3, <3>2 DEF SavesHold, TypeOK
      <3> QED
        BY <3>1, <3>2
    <2>4. CopiesHold' /\ FetchesHold'
      BY <1>3 DEF CopiesHold, FetchesHold, RowHolds
    <2> QED
      BY <2>2, <2>3, <2>4
  <1> QED
    BY <1>2, <1>3 DEF Handle

LEMMA UnsavedHolds ==
    ASSUME NEW c \in Tabs, IInv, Unsaved(c) PROVE IInv'
  <1> USE TabsAssumption DEF IInv, Unsaved
  <1>1. TypeOK' /\ SavesHold'
    BY DEF TypeOK, SavesHold
  <1>2. CopiesHold' /\ FetchesHold'
    BY DEF CopiesHold, FetchesHold, RowHolds
  <1> QED
    BY <1>1, <1>2

LEMMA StutterHolds == IInv /\ UNCHANGED vars => IInv'
  BY DEF IInv, vars, TypeOK, CopiesHold, FetchesHold, SavesHold, RowHolds

LEMMA NextHolds == IInv /\ [Next]_vars => IInv'
  <1> SUFFICES ASSUME IInv, Next PROVE IInv'
    BY StutterHolds
  <1>1. CASE OtherChange
    BY <1>1, OtherChangeHolds
  <1>2. ASSUME NEW c \in Tabs, NEW k \in Reasons,
               ReadRow(c, k) \/ ReadPlans(c, k) \/ Show(c, k) \/ LoadFails(c, k)
        PROVE  IInv'
    BY <1>2, ReadRowHolds, ReadPlansHolds, ShowHolds, LoadFailsHolds
  <1>3. ASSUME NEW c \in Tabs, OpenForm(c) \/ CloseForm(c) \/ Handle(c) \/ Unsaved(c)
        PROVE  IInv'
    BY <1>3, FormHolds, HandleHolds, UnsavedHolds
  <1>4. ASSUME NEW c \in Tabs, NEW text \in Texts, AskTitle(c, text) \/ AskPlan(c, text)
        PROVE  IInv'
    BY <1>4, AskHolds
  <1> QED
    BY <1>1, <1>2, <1>3, <1>4 DEF Next

LEMMA Inductive == Spec => []IInv
  BY InitHolds, NextHolds, PTL DEF Spec

------------------------------------------------------------------------------
(* Pages, loads, forms and saves are of their types in every reachable state *)
(* of the draft and its tabs.                                                *)
THEOREM TabsAreTyped == Spec => []TypeOK
  <1>1. IInv => TypeOK
    BY DEF IInv
  <1> QED
    BY <1>1, Inductive, PTL

(* A page that shows the current version shows the current content, although *)
(* Get reads it by several statements and loads overtake each other.         *)
THEOREM CurrentCopiesAreExact == Spec => []CurrentCopyIsExact
  <1>1. ASSUME IInv PROVE CurrentCopyIsExact
    <2> SUFFICES ASSUME NEW c \in Tabs, copy[c].version = version
                 PROVE  copy[c] = [version |-> version, title |-> title, plan |-> plan]
      BY DEF CurrentCopyIsExact
    <2>1. copy[c] \in Copy /\ RowHolds(copy[c])
      BY <1>1 DEF IInv, TypeOK, CopiesHold
    <2>2. copy[c].title = title /\ copy[c].plan = plan
      BY <2>1, TabsAssumption DEF RowHolds, Copy
    <2> QED
      BY <2>1, <2>2 DEF Copy
  <1> QED
    BY <1>1, Inductive, PTL

(* The version check refuses every save of a title whose form did not show   *)
(* the title it would replace.                                               *)
THEOREM TitlesAreNotLost == Spec => NoLostTitle
  <1>1. ASSUME IInv, [Next]_vars PROVE [ReplacesWhatItShowed("title")]_vars
    <2> SUFFICES ASSUME Next, NEW c \in Tabs, sent[c] # None, sent[c].field = "title",
                        version' # version, sent'[c] # sent[c]
                 PROVE  sent[c].basis = title
      BY <1>1 DEF ReplacesWhatItShowed
    <2>1. PICK d \in Tabs : Handle(d)
      BY DEF Next, OtherChange, ReadRow, ReadPlans, Show, LoadFails, OpenForm, CloseForm,
             Unsaved, AskTitle, AskPlan, Ask
    <2>2. c = d
      BY <1>1, <2>1 DEF Handle, IInv, TypeOK
    <2>3. sent[c].expected = version /\ sent[c].step = "asked"
      BY <2>1, <2>2 DEF Handle, AtVersion
    <2> QED
      BY <1>1, <2>3 DEF IInv, SavesHold
  <1> QED
    BY <1>1, Inductive, PTL DEF Spec, NoLostTitle

------------------------------------------------------------------------------
(* The photo of a profile.                                                   *)

(* No address is of a later life of the photo, and of this life none has a   *)
(* later revision.                                                           *)
NotAhead(address) ==
    /\ address.life <= life
    /\ address.life = life => address.revision <= revision

ToldHolds == \A address \in told : NotAhead(address)

(* What a browser keeps was asked for by such an address, and if that is the *)
(* address of now, it is the photo itself.                                   *)
KeptHolds ==
    kept # None =>
        /\ NotAhead(kept.address)
        /\ kept.address.life = life /\ kept.address.revision = revision => kept.hash = avatar

ProfileInv == Profile!TypeOK /\ Profile!RevisionHasPhoto /\ ToldHolds /\ KeptHolds

(* Uploads and removals, whoever sends them, and the requests that find      *)
(* nothing to do.                                                            *)
Uploads == \E h \in Hashes : Profile!PutUserAvatar(h)
Idle == UNCHANGED <<avatar, revision, outside, kept, life, told>>

LEMMA UploadHolds ==
  ASSUME ProfileInv, Uploads, profileCopy' \in [Tabs -> BOOLEAN],
         due' \in [Tabs -> {"upload", "remove", None}]
  PROVE  ProfileInv'
  <1> USE ProfileAssumed DEF Profile!AvatarsAssumption
  <1>1. PICK h \in Hashes : Profile!PutUserAvatar(h)
    BY DEF Uploads
  <1>2. avatar' = h /\ avatar' # None /\ revision' = revision + 1 /\ revision' \in 1..MaxRevision
    BY <1>1 DEF Profile!PutUserAvatar, Profile!NextRevision, ProfileInv, Profile!TypeOK
  <1>3. kept' = kept /\ life' = life /\ outside' = FALSE
    BY <1>1 DEF Profile!PutUserAvatar
  <1>4. PICK address \in Profile!Address :
            /\ address.revision = revision' /\ address.life = life
            /\ told' = told \cup {address}
    <2> DEFINE new == [revision |-> revision', life |-> life]
    <2>1. new \in Profile!Address /\ new.revision = revision' /\ new.life = life
      BY <1>2 DEF Profile!Address, ProfileInv, Profile!TypeOK
    <2>2. told' = told \cup {new}
      BY <1>1 DEF Profile!PutUserAvatar
    <2> QED
      BY <2>1, <2>2
  <1>5. Profile!TypeOK'
    <2>1. avatar' \in Profile!Photo /\ revision' \in 0..MaxRevision /\ outside' \in BOOLEAN
      <3>1. avatar' \in Profile!Photo /\ revision' \in 0..MaxRevision
        BY <1>2 DEF Profile!Photo
      <3> QED
        BY <1>3, <3>1
    <2>2. told' \subseteq Profile!Address
      <3>1. told \subseteq Profile!Address
        BY DEF ProfileInv, Profile!TypeOK
      <3> QED
        BY <1>4, <3>1
    <2>3. /\ kept' \in [address : Profile!Address, hash : Hashes] \cup {None}
          /\ life' \in 0..MaxLives
      BY <1>3 DEF ProfileInv, Profile!TypeOK
    <2> QED
      BY <2>1, <2>2, <2>3 DEF Profile!TypeOK
  <1>6. life \in Nat /\ revision \in Nat
    BY DEF ProfileInv, Profile!TypeOK
  <1>7. \A a \in Profile!Address :
            NotAhead(a) => NotAhead(a)' /\ (a.life = life => a.revision # revision')
    BY <1>2, <1>3, <1>6 DEF NotAhead, Profile!Address
  <1>8. NotAhead(address)'
    BY <1>2, <1>3, <1>4, <1>6 DEF NotAhead
  <1>9. ToldHolds'
    BY <1>4, <1>7, <1>8 DEF ProfileInv, Profile!TypeOK, ToldHolds
  <1>10. KeptHolds'
    BY <1>3, <1>7 DEF ProfileInv, Profile!TypeOK, KeptHolds
  <1> QED
    BY <1>2, <1>5, <1>9, <1>10 DEF ProfileInv, Profile!RevisionHasPhoto

LEMMA RemovalHolds ==
  ASSUME ProfileInv, Profile!DeleteUserAvatar, profileCopy' \in [Tabs -> BOOLEAN],
         due' \in [Tabs -> {"upload", "remove", None}]
  PROVE  ProfileInv'
  <1> USE ProfileAssumed DEF Profile!AvatarsAssumption
  <1>1. avatar' = None /\ revision' = 0 /\ kept' = kept /\ told' = told /\ life' = life + 1
        /\ outside' = FALSE
    BY DEF Profile!DeleteUserAvatar, Profile!Removed
  <1>2. Profile!TypeOK'
    <2>1. outside' \in BOOLEAN /\ kept' = kept /\ told' = told
      BY <1>1
    <2>2. avatar' \in Profile!Photo /\ revision' \in 0..MaxRevision /\ life' \in 0..MaxLives
      BY <1>1 DEF Profile!DeleteUserAvatar, ProfileInv, Profile!TypeOK, Profile!Photo
    <2> QED
      BY <2>1, <2>2 DEF ProfileInv, Profile!TypeOK
  <1>3. \A a \in Profile!Address : NotAhead(a) => a.life <= life' /\ a.life # life'
    BY <1>1 DEF ProfileInv, Profile!TypeOK, NotAhead, Profile!Address
  <1>4. ToldHolds' /\ KeptHolds'
    BY <1>1, <1>3 DEF ProfileInv, Profile!TypeOK, ToldHolds, KeptHolds, NotAhead
  <1> QED
    BY <1>1, <1>2, <1>4 DEF ProfileInv, Profile!RevisionHasPhoto

LEMMA ProfileInitHolds == Profile!Init => ProfileInv
  BY ProfileAssumed DEF Profile!AvatarsAssumption, Profile!Init, ProfileInv, Profile!TypeOK,
     Profile!Photo, Profile!RevisionHasPhoto, ToldHolds, KeptHolds

(* A step that leaves the photo and its addresses alone.                     *)
LEMMA RestHolds ==
  ASSUME ProfileInv, Profile!TypeOK', UNCHANGED <<avatar, revision, kept, life, told>>
  PROVE  ProfileInv'
  BY DEF ProfileInv, ToldHolds, KeptHolds, NotAhead, Profile!RevisionHasPhoto

LEMMA ProfileNextHolds == ProfileInv /\ [Profile!Next]_Profile!vars => ProfileInv'
  <1> SUFFICES ASSUME ProfileInv, [Profile!Next]_Profile!vars PROVE ProfileInv'
    OBVIOUS
  <1> USE ProfileAssumed DEF Profile!AvatarsAssumption
  <1>1. ASSUME NEW t \in Tabs, NEW next \in {"nothing", "upload", "remove"},
               Profile!UpdateProfile(t, next)
        PROVE  ProfileInv'
    <2>1. outside' \in BOOLEAN /\ due' \in [Tabs -> {"upload", "remove", None}]
      BY <1>1 DEF Profile!UpdateProfile, ProfileInv, Profile!TypeOK
    <2>2. Profile!TypeOK'
      BY <1>1, <2>1 DEF Profile!UpdateProfile, ProfileInv, Profile!TypeOK
    <2> QED
      BY <1>1, <2>2, RestHolds DEF Profile!UpdateProfile
  <1>2. ASSUME NEW t \in Tabs, Profile!Follow(t) PROVE ProfileInv'
    <2>1. /\ due' \in [Tabs -> {"upload", "remove", None}]
          /\ profileCopy' \in [Tabs -> BOOLEAN]
      BY <1>2 DEF Profile!Follow, ProfileInv, Profile!TypeOK
    <2>2. CASE Idle
      <3>1. Profile!TypeOK'
        BY <2>1, <2>2 DEF Idle, ProfileInv, Profile!TypeOK
      <3> QED
        BY <2>2, <3>1, RestHolds DEF Idle
    <2> QED
      BY <1>2, <2>1, <2>2, UploadHolds, RemovalHolds DEF Profile!Follow, Uploads, Idle
  <1>3. CASE Profile!Alone
    BY <1>3, UploadHolds, RemovalHolds DEF Profile!Alone, Uploads, ProfileInv, Profile!TypeOK
  <1>4. ASSUME NEW t \in Tabs, Profile!Abandon(t) \/ Profile!Reload(t) PROVE ProfileInv'
    <2>1. Profile!TypeOK'
      BY <1>4 DEF Profile!Abandon, Profile!Reload, ProfileInv, Profile!TypeOK
    <2> QED
      BY <1>4, <2>1, RestHolds DEF Profile!Abandon, Profile!Reload
  <1>5. ASSUME NEW address \in told, Profile!GetUserAvatar(address) PROVE ProfileInv'
    <2> DEFINE entry == [address |-> address, hash |-> avatar]
    <2>1. /\ entry \in [address : Profile!Address, hash : Hashes]
          /\ entry.address = address /\ entry.hash = avatar
      BY <1>5 DEF Profile!GetUserAvatar, ProfileInv, Profile!TypeOK, Profile!Photo
    <2>2. kept' = entry /\ UNCHANGED <<avatar, revision, outside, profileCopy, due, life, told>>
      BY <1>5 DEF Profile!GetUserAvatar
    <2>3. NotAhead(address)
      BY DEF ProfileInv, ToldHolds
    <2> HIDE DEF entry
    <2>4. Profile!TypeOK'
      BY <2>1, <2>2 DEF ProfileInv, Profile!TypeOK
    <2> QED
      BY <2>1, <2>2, <2>3, <2>4
      DEF ProfileInv, ToldHolds, KeptHolds, NotAhead, Profile!RevisionHasPhoto
  <1>6. CASE Profile!Forget
    BY <1>6 DEF Profile!Forget, ProfileInv, Profile!TypeOK, ToldHolds, KeptHolds, NotAhead,
       Profile!RevisionHasPhoto
  <1>7. CASE UNCHANGED Profile!vars
    <2>1. Profile!TypeOK'
      BY <1>7 DEF Profile!vars, ProfileInv, Profile!TypeOK
    <2> QED
      BY <1>7, <2>1, RestHolds DEF Profile!vars
  <1> QED
    BY <1>1, <1>2, <1>3, <1>4, <1>5, <1>6, <1>7 DEF Profile!Next

LEMMA ProfileInductive == Profile!Spec => []ProfileInv
  BY ProfileInitHolds, ProfileNextHolds, PTL DEF Profile!Spec

------------------------------------------------------------------------------
(* The composition.                                                          *)

(* MeetingPhotosProofs with the variables of Photos.                         *)
PhotoFacts == INSTANCE MeetingPhotosProofs WITH MaxVersion <- MaxPhotoVersion,
    version <- photoVersion, kept <- photoKept

(* Each part of the composition behaves as it does alone.                    *)
THEOREM CopiesAreTheirParts == CopiesSpec => Spec /\ Photos!Spec /\ Profile!Spec
  <1>1. CopiesInit => Init /\ Photos!Init /\ Profile!Init
    BY DEF CopiesInit
  <1>2. [CopiesNext]_<<part, vars, photoVars, profileVars>> =>
            [Next]_vars /\ [Photos!Next]_Photos!vars /\ [Profile!Next]_Profile!vars
    BY DEF CopiesNext, vars, Photos!vars, photoVars, Profile!vars, profileVars
  <1> QED
    BY <1>1, <1>2, PTL DEF CopiesSpec, Spec, Photos!Spec, Profile!Spec

(* The facts are about the very same steps.                                  *)
LEMMA PhotosAreTheirs ==
    /\ PhotoFacts!MeetingPhotosAssumption
    /\ PhotoFacts!Init <=> Photos!Init
    /\ [PhotoFacts!Next]_PhotoFacts!vars <=> [Photos!Next]_Photos!vars
  BY PhotosAssumed
  DEF PhotoFacts!Slots, Photos!Slots, PhotoFacts!Versions, Photos!Versions,
      PhotoFacts!Entry, Photos!Entry, PhotoFacts!MeetingPhotosAssumption,
      Photos!MeetingPhotosAssumption, PhotoFacts!vars, Photos!vars, PhotoFacts!meeting,
      Photos!meeting, PhotoFacts!Init, Photos!Init, PhotoFacts!MeetingPhotoEditable,
      Photos!MeetingPhotoEditable, PhotoFacts!ExpectedVersion, Photos!ExpectedVersion,
      PhotoFacts!TouchMeeting, Photos!TouchMeeting, PhotoFacts!Store, Photos!Store,
      PhotoFacts!PutMeetingPhoto, Photos!PutMeetingPhoto, PhotoFacts!DeleteMeetingPhoto,
      Photos!DeleteMeetingPhoto, PhotoFacts!EnsurePlanOption, Photos!EnsurePlanOption,
      PhotoFacts!PutPlanOptionPhoto, Photos!PutPlanOptionPhoto,
      PhotoFacts!DeletePlanOptionPhoto, Photos!DeletePlanOptionPhoto,
      PhotoFacts!WithoutPhotos, Photos!WithoutPhotos, PhotoFacts!DeletePlanOption,
      Photos!DeletePlanOption, PhotoFacts!Update, Photos!Update, PhotoFacts!MoveOn,
      Photos!MoveOn, PhotoFacts!GrowOld, Photos!GrowOld, PhotoFacts!GetPhoto,
      Photos!GetPhoto, PhotoFacts!Next, Photos!Next

LEMMA PhotosInductive ==
    Photos!Spec => [](Photos!TypeOK /\ Photos!KeptIsNotOlder) /\ Photos!NoUnseenPhotoLost
  <1>1. PhotoFacts!Spec <=> Photos!Spec
    BY PhotosAreTheirs, PTL DEF PhotoFacts!Spec, Photos!Spec
  <1>2. PhotoFacts!TypeOK => Photos!TypeOK
    BY DEF PhotoFacts!TypeOK, Photos!TypeOK, PhotoFacts!Slots, Photos!Slots,
       PhotoFacts!Versions, Photos!Versions, PhotoFacts!Entry, Photos!Entry
  <1>3. PhotoFacts!KeptIsNotOlder => Photos!KeptIsNotOlder
    BY DEF PhotoFacts!KeptIsNotOlder, Photos!KeptIsNotOlder
  <1>4. PhotoFacts!NoUnseenPhotoLost => Photos!NoUnseenPhotoLost
    BY PTL DEF PhotoFacts!NoUnseenPhotoLost, Photos!NoUnseenPhotoLost, PhotoFacts!Slots,
       Photos!Slots, PhotoFacts!Remains, Photos!Remains, PhotoFacts!vars, Photos!vars
  <1> QED
    BY <1>1, <1>2, <1>3, <1>4, PhotosAreTheirs, PhotoFacts!PhotosAreTyped,
       PhotoFacts!KeptIsNeverOlder, PhotoFacts!PhotosAreNotLostUnseen, PTL

(* Copies, photos, forms and cached entries are of their types.              *)
THEOREM CopiesAreTyped == CopiesSpec => []CopiesTypeOK
  <1>1. ProfileInv => Profile!TypeOK
    BY DEF ProfileInv
  <1> QED
    BY <1>1, CopiesAreTheirParts, TabsAreTyped, PhotosInductive, ProfileInductive, PTL
    DEF CopiesTypeOK

(* A revision is told exactly while a photo can be fetched, however forms,   *)
(* uploads and removals of any number of tabs are mixed or left half done    *)
(* (PutUserAvatar, DeleteUserAvatar, UpdateUserProfile).                     *)
THEOREM RevisionsHavePhotos == CopiesSpec => []RevisionHasPhoto
  <1>1. ProfileInv => RevisionHasPhoto
    BY DEF ProfileInv, RevisionHasPhoto
  <1> QED
    BY <1>1, CopiesAreTheirParts, ProfileInductive, PTL

(* A browser shows no photo of a meeting that had been replaced at the       *)
(* version of the page, and under an address of a profile photo told since   *)
(* its last removal none that was replaced, whichever page had asked         *)
(* (writePhoto, touchMeeting, PutUserAvatar).                                *)
THEOREM KeptPhotosAreNotOlder == CopiesSpec => []KeptIsNotOlder
  <1>1. ProfileInv => Profile!FreshSinceRemoval
    BY DEF ProfileInv, KeptHolds, Profile!FreshSinceRemoval, Profile!Shown, Profile!Keeps
  <1> QED
    BY <1>1, CopiesAreTheirParts, PhotosInductive, ProfileInductive, PTL DEF KeptIsNotOlder

(* No photo of a meeting, or of an option that remains, is replaced or       *)
(* removed by a request whose sender could not see it (PutMeetingPhoto and   *)
(* the three beside it).                                                     *)
THEOREM NoPhotoIsLostUnseen == CopiesSpec => NoUnseenPhotoLost
  BY CopiesAreTheirParts, PhotosInductive, PTL DEF NoUnseenPhotoLost
==============================================================================
