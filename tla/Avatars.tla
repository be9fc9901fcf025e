-------------------------------- MODULE Avatars --------------------------------
(***************************************************************************)
(* The profile photo of one account: an uploaded photo with a revision, or   *)
(* the address of a picture elsewhere, which the profile form writes too.    *)
(* Browsers ask for the photo by its revision and may keep the answer for an *)
(* hour (Cache-Control: private, max-age=3600).                              *)
(*                                                                          *)
(* Each operation locks the row of the account, so it is one step; a save of *)
(* the profile form is two requests, of which the second may never come.     *)
(***************************************************************************)
EXTENDS Naturals

CONSTANTS
    Tabs,         \* pages of the account, each with a copy of the profile
    Hashes,
    MaxRevision,  \* bound of the model on the uploads of one life of the photo
    MaxLives,     \* bound of the model on the removals of the photo
    None

AvatarsAssumption == None \notin Hashes /\ MaxRevision \in Nat /\ MaxLives \in Nat

VARIABLES
    avatar,     \* user_avatar_photos, None without a row
    revision,   \* users.avatar_revision, 0 for NULL
    outside,    \* users.avatar_url is not NULL
    copy,       \* by tab, the avatar_url of its profile
    due,        \* by tab, the second request of its form
    kept,       \* an entry of a browser's cache, None without one
    life,       \* history: how often the photo was removed
    told        \* history: the addresses pages were given, each in its life

vars == <<avatar, revision, outside, copy, due, kept, life, told>>

Photo == Hashes \cup {None}
Address == [revision : 1..MaxRevision, life : 0..MaxLives]

Init ==
    /\ avatar = None /\ revision = 0
    /\ outside \in BOOLEAN
    /\ copy = [t \in Tabs |-> outside]
    /\ due = [t \in Tabs |-> None]
    /\ kept = None /\ life = 0 /\ told = {}

(* Plausible mistakes in the operators below; no action uses them.           *)
OnlyTheAddress == avatar
------------------------------------------------------------------------------
(* The form: the address its copy shows, or none when a photo is to follow   *)
(* or to go.  The copy is replaced only when both requests have succeeded.   *)
UpdateProfile(t, next) ==
    /\ due[t] = None
    /\ outside' = (next = "nothing" /\ copy[t])
    /\ due' = [due EXCEPT ![t] = IF next = "nothing" THEN None ELSE next]
    /\ UNCHANGED <<avatar, revision, copy, kept, life, told>>

(* The bytes already there, if nothing else is shown, are a replay.          *)
IsReplay(h) == avatar = h /\ ~outside /\ revision # 0

NextRevision == revision + 1

PutUserAvatar(h) ==
    /\ ~IsReplay(h)
    /\ revision < MaxRevision
    /\ avatar' = h
    /\ revision' = NextRevision
    /\ outside' = FALSE
    /\ told' = told \cup {[revision |-> revision', life |-> life]}
    /\ UNCHANGED <<kept, life>>

(* The row of the photo goes with the revision.                              *)
Removed == None

NothingToDelete == revision = 0 /\ ~outside

DeleteUserAvatar ==
    /\ ~NothingToDelete
    /\ life < MaxLives
    /\ avatar' = Removed
    /\ revision' = 0 /\ outside' = FALSE
    /\ life' = life + 1
    /\ UNCHANGED <<kept, told>>

(* The second request of the form, which succeeds also when nothing is left  *)
(* to do.                                                                    *)
Follow(t) ==
    /\ due[t] # None
    /\ due' = [due EXCEPT ![t] = None]
    /\ copy' = [copy EXCEPT ![t] = FALSE]
    /\ \/ due[t] = "upload" /\ \E h \in Hashes : PutUserAvatar(h)
       \/ due[t] = "remove" /\ DeleteUserAvatar
       \/ /\ IF due[t] = "upload" THEN \E h \in Hashes : IsReplay(h) ELSE NothingToDelete
          /\ UNCHANGED <<avatar, revision, outside, kept, life, told>>

(* Either request may be sent by itself, by another client, or again.        *)
Alone ==
    /\ (\E h \in Hashes : PutUserAvatar(h)) \/ DeleteUserAvatar
    /\ UNCHANGED <<due, copy>>

(* The second request fails, or the page is closed.                          *)
Abandon(t) ==
    /\ due[t] # None
    /\ due' = [due EXCEPT ![t] = None]
    /\ UNCHANGED <<avatar, revision, outside, copy, kept, life, told>>

Reload(t) ==
    /\ due[t] = None
    /\ copy' = [copy EXCEPT ![t] = outside]
    /\ UNCHANGED <<avatar, revision, outside, due, kept, life, told>>

------------------------------------------------------------------------------
Keeps(r) == kept # None /\ kept.address.revision = r

(* A page asks by the revision of its own copy of the profile, however old,  *)
(* and the answer is the photo of now.  A browser that keeps an answer under *)
(* this revision does not ask again.                                         *)
GetUserAvatar(address) ==
    /\ avatar # None
    /\ ~Keeps(address.revision)
    /\ kept' = [address |-> address, hash |-> avatar]
    /\ UNCHANGED <<avatar, revision, outside, copy, due, life, told>>

Shown == IF Keeps(revision) THEN kept.hash ELSE avatar

Forget ==
    /\ kept # None /\ kept' = None
    /\ UNCHANGED <<avatar, revision, outside, copy, due, life, told>>

Next ==
    \/ \E t \in Tabs :
        \/ \E next \in {"nothing", "upload", "remove"} : UpdateProfile(t, next)
        \/ Follow(t) \/ Abandon(t) \/ Reload(t)
    \/ \E address \in told : GetUserAvatar(address)
    \/ Alone \/ Forget

Spec == Init /\ [][Next]_vars

------------------------------------------------------------------------------
(* Values are of their types.                                                *)
TypeOK ==
    /\ avatar \in Photo
    /\ revision \in 0..MaxRevision
    /\ outside \in BOOLEAN
    /\ copy \in [Tabs -> BOOLEAN]
    /\ due \in [Tabs -> {"upload", "remove", None}]
    /\ kept \in [address : Address, hash : Hashes] \cup {None}
    /\ life \in 0..MaxLives
    /\ told \subseteq Address

(* The two tables agree, however forms, uploads and removals of several tabs *)
(* are mixed or left half done: a revision is told exactly while a photo can *)
(* be fetched (PutUserAvatar, DeleteUserAvatar, UpdateUserProfile).          *)
RevisionHasPhoto == revision # 0 <=> avatar # None

(* Under an address that was told since the photo was last removed, a page   *)
(* that is told the revision of now is shown the photo of now, whichever     *)
(* page of whatever age had asked for it (PutUserAvatar).                    *)
FreshSinceRemoval ==
    revision # 0 /\ kept # None /\ kept.address.life = life => Shown = avatar

(* The document calls the revision "cache-busting": whoever is told it is    *)
(* shown the photo of the moment.                                            *)
RevisionBustsCache == revision # 0 => Shown = avatar
=============================================================================
