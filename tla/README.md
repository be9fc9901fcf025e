# Ryden: a TLA+ verification development

Ryden plans meetings: an owner drafts a meeting, invites people by link or from
a list of friends, the group votes on plans and says when it is available, the
owner decides, people prepare, and the meeting is completed or cancelled. The
backend is one Go process over PostgreSQL (`src/cmd/ryden`, `src/internal`), the
client a React application (`src/web`). This directory holds TLA+ models of the
parts in which the order of events matters, the TLC runs that check them, and
proofs that hold for every number of users, options and invitations.

## The system

| Part | State it keeps | Operations | Meets |
| --- | --- | --- | --- |
| Meeting (`internal/meeting`) | `meetings`, `plan_options`, `time_options`, `invitations`, `meeting_participants`, `idempotency_keys` | Create, Update, add / update / delete options, create / revoke / join by link, Complete, Cancel, Get, List | every other part locks its row; completion reads the requirements |
| Decision (`internal/decision`) | `plan_votes`, `plan_vote_history`, the selected options | Vote, Finalize, List | changes the state of the meeting |
| Friend invitations (`internal/meetinginvite`) | `meeting_friend_invitations` | Candidates, Send, Incoming, Accept, Decline | reads friendships, adds participants |
| Attendance (`internal/attendance`) | `attendance_responses` | SetStatus, View | fixed meetings only |
| Availability (`internal/availability`) | `availability_votes` | SetStatus, Snapshot and the view built from it | feeds the owner's decision |
| Preparation (`internal/preparation`) | `requirements`, `requirement_claims` | Create, Update, Delete, SetClaim, SetStatus, List | holds up completion |
| Polls (`internal/poll`) | `polls`, `poll_options`, `poll_votes`, `poll_vote_history` | Create, Delete, Vote, Close, List, History | the phase of the meeting opens and closes them |
| Live (`internal/live`, `handleMeetingEvents`) | groups and subscribers in memory, one channel slot each | Subscribe, poll, publish, unsubscribe | polls `meetings.version`; feeds the event streams |
| Web client (`web/src/App.tsx`, `api.ts`) | the copy of a meeting on a page, forms, the stream | load, reloadFromLive, edits with an expected version | HTTP API |
| Accounts (`internal/auth`) | `users`, `refresh_sessions`; a cookie in the browser | Register, Login, Refresh (rotation), Logout, UpdateProfile | every request carries an access token |
| Friendships (`internal/friendship`) | `friendships` | Send, Accept, DeleteRequest, RemoveFriend, Overview, Search | friend invitations |
| Notes (`internal/note`) | `meeting_notes`, one per participant | Upsert, Delete, List | lock and touch the meeting |
| Photos (`internal/media`) | `meeting_photos`, `plan_option_photos`, `user_avatar_photos` and `users.avatar_revision`; browsers' caches | put, delete and get of each | the version of the meeting, the profile form |
| Calendar (`internal/calendar`) | none | Export | reads a meeting |

How the parts interact: a mutating request runs in one READ COMMITTED
transaction that first locks the row of its meeting (`SELECT ... FOR UPDATE`), so
requests on one meeting are serialised. It ends with `version = version + 1`, and
that counter is the only signal of change: clients send it back to be refused
when stale, and the live manager polls it to announce changes. What is *not*
serialised is reading: `meeting.Get` and `availability.Snapshot` are several
statements without a transaction, a stream authorizes itself before it
subscribes, and a page has several loads under way.

The behaviours that are hard to test, with their lines and the properties that
cover them, are the `hazards` of `PROJECT.json`. They are of five kinds: long
sequences of legal requests that could reach an illegal state; reads torn by
commits; the live stream's windows between read, subscription, poll and
publication; pages, forms and caches that are stale when used; and requests that
race, are lost, repeated or handled late (sessions, creation, friendships).

## What makes each part correct

* Meeting: decided exactly from the moment it is scheduled, on options that
  exist and fit; links open nothing that is closed; a collecting meeting can be
  decided; nothing dangles after a deletion; evidence does not change after the
  decision; an archive is read-only; the version tells every change.
* Preparation: never more claimed than needed; completed means covered; a
  completed meeting left nothing open.
* Polls: what is closed stays closed, and final answers stay as they are.
* Availability: counts agree with the participants; the recommended time is best.
* Live: no stream is ahead of its group, is told an older version, or misses a
  publication; news arrives; capacity is given back.
* Pages: an announced version is shown; no text is overwritten unseen.
* Sessions: rotations form lines with one working token each; a browser is left
  with a dead cookie only by a lost answer.
* Friendships: one row for two people; friends have agreed to this request; an
  overview lists nobody twice.
* Friend invitations: only friends are invited, and an answer stands.
* Creation: one key makes one meeting, and all answers agree on it.
* Photos: none is overwritten or removed unseen, except with its plan option; none is
  shown that was replaced before the version on the page, or, of a profile, since the
  address was told, unless the photo was removed meanwhile; a revision is told exactly
  while there is a photo.
* Notes: frozen in an archive; the version tells every change.

## Modules

`Meeting.tla` is one meeting with everything that hangs from it. Its variables
are the columns and tables named in their comments, one action per repository
method, with the service and schema constraints as guards. Rows are named by
their idempotency key, which the schema makes unique, so a replay (which
returns what is stored) and a refusal are stuttering steps, and so is an edit
with a stale version. Positions of options are represented by the limit they
impose. Two conditions are left open: whether two people are friends at the
moment (`FriendInvitations` closes it), and whether 24 hours have passed since the
selected time (`archived`, which `Notes` and `MeetingPhotos` have). Both only
refuse, so every behaviour with them is a behaviour of the model.
Participants are never removed because no operation of the code does so.

`MeetingLifecycle.tla` is the abstract specification: phases, one choice,
growing guests. `Meeting` implements it under the mapping at its end
(`KeepsLifecycle`), checked by TLC and proved.

`MeetingProofs.tla`, `CreationProofs.tla`, `LiveProofs.tla`,
`MeetingPhotosProofs.tla`, `FriendshipsProofs.tla`, `CopiesProofs.tla`,
`PeopleProofs.tla` and `GroupProofs.tla` hold the theorems about the module they are
named for; `LiveProofs` also those about `LiveTabs`, and `FriendshipsProofs` those
about `FriendInvitations`.

`Group.tla`, `Copies.tla` and `People.tla` put components that share no state side
by side: polls, availability, preparation and notes; pages, photos and avatars;
sessions, the address book and invitations. The variable `part` is chosen once and
says which component moves while the others keep their initial state. A behaviour of
such a composition is a behaviour of one component, and its properties speak of the
component that moves; two that did move together would only interleave what neither
can see. Where components do share state they are composed for good: `LiveTabs` with
`Live`, `FriendInvitations` with `Friendships`, completion with the requirements.

`Preparation.tla` starts when the meeting has just been scheduled, since nothing
can be listed before; `Complete` and `Cancel` are those of the meeting, with
`Meeting!Complete`'s parameter `open` given by the requirements. `Polls.tla`
carries the phase of the meeting (`Advance`) and lets deadlines pass.

`AvailabilityView.tla` splits Snapshot into its two reads (`ListParticipants`,
`ListVotes`) with joins and answers in between, and translates `buildView`,
`ranksBefore` and the recommendation loop.

`Live.tla` is the manager and the handler of the event stream. A poll is three
steps because the manager does not hold its mutex while the database answers; a
request is `Authorize`, `Subscribe`, `Ready`, `Deliver`. `publishLatest` runs under
the mutex, so only the reader can empty the slot meanwhile and the slot ends
with the newest version: one step. `Restart` loses all memory.

`LiveTabs.tla` extends `Live` with the page of one tab per connection: `Serve` are
the steps of the server, `Updated` composes a delivery with `reloadFromLive`, and
loads of the page itself run beside the reload loop.

`OwnerTabs.tla` is the other use of the version: tabs of the owner that load torn
copies for two reasons, open forms, and save with the version of the copy
shown. The metadata form is keyed by the version, the plan option form is not.

`Sessions.tla` is the accounts and refresh sessions behind the tabs of one browser,
which share a cookie. Each handler is one transaction on one locked row, so it is
one step; what interleaves are the requests (`AskRefresh`, `AskLogout`, the entry
forms), their answers (`Deliver`), the loss of either (`Lose`) and abandoned
requests that are handled all the same (`HandleLate`). `login` of a row is history:
the token a line of rotations began with.

`Friendships.tla` names rows by their id, so that an acceptance which comes late
means the row it was made for; `accepts` remembers who asked for what. The
overview of one reader is six steps. `FriendInvitations.tla` extends it with the
invitations to one meeting: each insert of a batch sees what is committed when it
executes, and nothing of it counts before `CommitBatch`.

`CreateOnce.tla` is what an idempotency key promises, in four lines of state;
`Creation.tla` is the transactions that keep it, and implements it under the
mapping at its end. Waiting for another's uncommitted row is the guard
`ReserveIdempotencyKey`.

`MeetingPhotos.tla` lets every request come from a copy of any age and keeps what
the photos were at each version; the browser keeps one entry, which stands for
each of its entries in turn. The four photo requests send the version of their copy
and are refused if it is old. Deleting a plan option sends none, so a late deletion or
one from an old page takes the photo of the option with it, seen or not:
`NoUnseenPhotoLost` is about photos whose place remains. `Avatars.tla` is the other
address scheme, a revision of its own, and the profile form, whose save is two
requests. The server ignores the revision in the address and answers with the photo of
the moment, so a page that was told a revision long ago, even before a removal, may put
today's photo under yesterday's number; `told` has every address that was given out.

`Notes.tla` splits a mutation at the wait for the lock. PostgreSQL re-evaluates the
locked row when it is granted, while the time option that is joined and `now()` are
of the moment the statement began (`StateNow` and `ArchivedThen`).

| Module | Source | Checked by |
| --- | --- | --- |
| `Meeting` | `meeting`, `decision`, `meetinginvite`, `attendance`, `availability` repositories; migrations | `MCMeeting` |
| `Preparation` | `preparation` repository | `MCGroup`, through `Group` |
| `Polls` | `poll` repository | `MCGroup`, through `Group` |
| `AvailabilityView` | `availability` service and repository | `MCGroup`, `MCAvailabilityView` |
| `Notes` | `note`, `database/notes.sql.go` | `MCGroup`, through `Group` |
| `Live` | `live/manager.go`, `httpapi/server.go` | `MCLive` |
| `LiveTabs` | `web/src/App.tsx` on top of `Live` | `MCLiveTabs` |
| `OwnerTabs` | `web/src/App.tsx`, `meeting.Get`, version checks | `MCCopies`, through `Copies`; `MCOwnerTabs` |
| `MeetingPhotos`, `Avatars` | `media`, `writePhoto`, the profile form | `MCCopies`, through `Copies`; `MCAvatars` |
| `Sessions` | `auth`, `database/auth.sql.go`, the handlers of `/auth` | `MCPeople`, through `People` |
| `Friendships` | `friendship`, `database/friendships.sql.go` | `MCPeople`, through `People` |
| `FriendInvitations` | `meetinginvite` on top of `Friendships` | `MCPeople`, through `People` |
| `Creation`, `CreateOnce` | `meeting.Create`, `database/meetings.sql.go` | `MCCreation` |

The operators under "Plausible mistakes" in the modules are mutated forms of
definitions below them. No action uses them; `PROJECT.json` names for every
property one whose substitution TLC must find violating.

## Runs

| Run | Bounds | Shows |
| --- | --- | --- |
| `meeting` | owner and one guest, 2 plans, 2 times, 2 texts, 2 slots, 2 links, version up to 12 | the invariants and step properties of `Meeting`, and the refinement |
| `group` | polls: owner and voter, 2 polls of 2 options, both modes, version up to 9; times: owner and two guests, 2 times (one scoped), 2 plans, 5 answers; preparation: owner and two guests, 2 requirements of 1 or 2 pieces, 2 names, version up to 20; notes: 2 people, 2 texts, version up to 6 | final answers, counts and recommendation, claims against edits against completion, the lock and the old flag |
| `availability_torn` | owner and one guest | violated: a negative count |
| `live` | 3 streams, 2 meetings, room for 1 group of 2, version up to 4 | safety of the manager |
| `live_gap` | 2 streams, 1 meeting, version up to 3 | violated: a version never reported |
| `live_tabs` | 1 tab, version up to 4 | `NewsArrives` at the stream, `UpdateIsShown` on the page and `NoUpdateForgotten`, its safety half |
| `live_ready` | same | violated: `ready` does not reload |
| `copies` | owner's pages: 2 tabs, 2 texts, version up to 3; photos: 1 option, 2 photos, version up to 6; avatars: 2 tabs, 2 photos, revision up to 3, 2 removals | torn copies and the version check, lost photos, cached photos |
| `owner_form` | as the pages above | violated: an open form overwrites unseen |
| `avatars_reused` | as the avatars above | violated: a revision comes back |
| `people` | sessions: 2 tabs, 1 account, 3 tokens, 1 abandoned request; friendships: 3 people, 2 ids, 1 overview; invitations: owner and 2 others, 2 ids | lines of rotations and the cookie; rows, acceptances, the six reads; a batch against the address book |
| `creation` | 3 requests, 2 bodies, 2 ids | one meeting per key, the refinement, every request answered |

Why the bounds are enough to be interesting. Two options of each kind are what
publication requires, and with two slots the uniqueness and scoping of times
matter. Two links are needed for rotation; links, texts and slots are compared for
equality alone, hence the symmetry. With three participants one refusal can weigh
against two preferences, so that ranking by refusals first differs from ranking by
score, and times that tie in refusals, score and preferences can differ in how many
answered; the time listed second starts first, so that the start decides where all
else is equal. Two guests and two pieces let one claim leave room for another or not.
Three streams with room for two and one group for two meetings reach both
limits and a group that is dropped and made anew under a poll. Three tokens are a
login with two rotations, or two logins and a rotation, and two tabs race for each;
two ids are a friendship that is removed and asked for anew, or two pairs at once;
three requests with two bodies are a race of two that agree beside one that does
not, with a second meeting to make by mistake. Two tabs with two
commits let one save overtake another with a load in between. Version bounds stop
counting; in `Meeting` twelve requests pass through every phase, and the proofs
hold for every bound.

Deadlock is not checked where a run may stop: an ended meeting, tokens or ids
that are used up, or the version bound. The `live` runs check it, and
`availability_torn`.

### Fairness

`Live!Fairness`: the handler goroutine of an open stream is scheduled and the
ticker fires (weak fairness of `Ready`, `Deliver`, `PollStart`, `PollPublish`), and
not every poll times out for ever (strong fairness of `PollAnswer`, which a
failing poll disables). Nothing is assumed about commits, connections,
disconnections or restarts. `LiveTabs` adds that a request of the page ends, with
an answer or a failure. `Creation!Fairness`: statements are executed, and an
insertion that waits is granted in its turn (strong fairness of `Reserve`, which
another's reservation disables). Nothing is assumed of clients or failures. The
safety properties assume no fairness.

### Where code and documents disagree

* `live_gap`: a stream reads version 1; a commit makes it 2, and a poll tells the
  group of another stream; the first one subscribes and reports `ready` 1. The
  group already knows 2, so nobody announces it to the newcomer. The API
  document says that `meeting.updated` reports a newer version.
* `live_ready`: the page ignores the version of `ready`. What was committed
  between its load and its connection is not shown until the next commit.
* `availability_torn`: joined and answered between the two reads means -1
  unanswered, which the API document excludes.
* `owner_form`: the plan option form sends the page's current version with the
  text it was opened with, so the check that refuses stale edits passes. Time
  option forms have the same shape.
* `avatars_reused`: a removal resets the revision, so the next upload has the
  revision of the first one, under which browsers may have kept the photo that was
  removed. The API document calls the revision cache-busting. A page from before the
  removal is another way to the same end: it asks for its old revision and keeps the
  photo of the moment under a number that a later upload reaches.

One more is known and has no run: while one tab refreshes, another logs out with
the same cookie. If the rotation comes first the logout revokes what is revoked
already, and the successor works until it expires, though only as long as some
tab keeps the answer that brought it. The API document says "Session revoked".

## Proofs

Eight modules hold theorems, checked by TLAPS with no assumption but those named in
the modules they extend. `Meeting`: the owner is a user, the fixed options are option
keys, finiteness, positive limits, and `None` is no other value. `OwnerTabs`, `Notes`:
the bound on the versions is positive and `None` is no text. `Avatars`: the bounds are
natural numbers and `None` is no photo. `Live`: the limits and the bound are positive.
`Creation` and `Sessions`: `None` is none of the values a request or a row can hold.
`MeetingPhotos`, `Polls`, `Preparation`: the bounds are positive and `None` is no
photo, row or option; the people who claim are finitely many; `"cover"`, which names
the photo of the meeting itself, is no option. `Friendships`: `None` is no row and no
id, and the reader of the overview is a user. `FriendInvitations`: the owner is a
user. `AvailabilityView`: finitely many people, a list of time options with a start
each, and `None` is no plan, no answer and no position in that list.

Every safety invariant and every action property that a passing run checks is the
property of a theorem. The runs `group`, `copies` and `people` check compositions; for
each, a theorem shows that the composition implements its parts (`GroupAreTheirParts`,
`CopiesAreTheirParts`, `PeopleAreTheirParts`), and the properties of the parts carry
over. Where a part has proofs of its own in another module (`MeetingPhotosProofs`,
`FriendshipsProofs`), that module is instantiated with the names of the composition,
and a lemma says that both instances are the same specification.

`DecisionSound`, `LinkGate` and the others are not inductive one by one:
`Decidable` needs that scopes point to plans that exist, `DecisionSound` of a
fixed meeting needs that a decided meeting keeps exactly its chosen options, and
`EvidenceSound` needs the gates that keep a draft without answers. `EvidenceFrozen`
needs it in turn: deleting an option of a draft changes no evidence because there is
none, and only an answer ever does (`OnlyAnswersChangeEvidence`). `IInv`
conjoins them with the type invariant and the facts they share; one lemma
per group of actions shows that it is preserved, and each theorem projects its
invariant from it. Action properties are proved from `IInv` step by step, and
`ImplementsLifecycle` maps each action to a step of `MeetingLifecycle` or a stutter.

| Theorem | States |
| --- | --- |
| `TypeCorrect` | `TypeOK` |
| `DecisionsAreSound` | `DecisionSound` |
| `LinksAreGated` | `LinkGate` |
| `OwnerCanDecide` | `Decidable` |
| `NothingDangles` | `ReferencesSound` |
| `EvidenceIsSound` | `EvidenceSound` |
| `ArchiveIsReadOnly` | `ArchiveReadOnly` |
| `SetupIsFrozen` | `SetupFrozen` |
| `EvidenceIsFrozen` | `EvidenceFrozen` |
| `VersionTells` | `VersionTracksContent` |
| `ImplementsLifecycle` | `KeepsLifecycle` |
| `TabsAreTyped` | `OwnerTabs!TypeOK` |
| `CurrentCopiesAreExact` | `CurrentCopyIsExact` |
| `TitlesAreNotLost` | `NoLostTitle` |
| `CallsAreTyped` | `Creation!TypeOK` |
| `KeysMakeOneMeeting` | `OneMeetingPerKey` |
| `AnswersAlwaysAgree` | `AnswersAgree` |
| `CreatesOnce` | `ImplementsCreateOnce` |
| `SessionsAreTyped` | `Sessions!TypeOK` |
| `RotationsFormLines` | `LinesAreChains` |
| `LoginsHaveOneToken` | `OneActivePerLogin` |
| `OnlyLossStrands` | `DeadCookieMeansLoss` |
| `LiveIsTyped` | `Live!TypeOK` |
| `TableIsExact` | `TableExact` |
| `NothingIsDropped` | `NothingDropped` |
| `ToldOnlyGrows` | `ToldIncreases` |
| `TabsRunLive` | the pages' specification implements `Live!Spec` |
| `UpdatesAreNotForgotten` | `NoUpdateForgotten` |
| `PagesAreNotAhead` | no page and no load has a version the database has not |
| `PhotosAreTyped` | `MeetingPhotos!TypeOK` |
| `KeptIsNeverOlder` | `MeetingPhotos!KeptIsNotOlder` |
| `PhotosAreNotLostUnseen` | `MeetingPhotos!NoUnseenPhotoLost` |
| `BookIsTyped` | `Friendships!TypeOK` |
| `FriendsHaveAgreed` | `Friendships!FriendsAgreed` |
| `OverviewsAreSound` | `Friendships!OverviewSound` |
| `InvitationsKeepTheBook` | batches of invitations implement `Friendships!Spec` |
| `InvitationsAreTyped` | `FriendInvitations!InvitationsTypeOK` |
| `InvitedHadBeenFriends` | `FriendInvitations!InvitedWereFriends` |
| `FriendsAgreeBesideMeetings` | `FriendsAgreed`, with batches of invitations beside it |
| `PollsAreTyped` | `Polls!TypeOK` |
| `AnswersStayFinal` | `FinalAnswersStay` |
| `PollsTellEveryChange` | `VersionTracksPolls` |
| `CopiesAreTyped` | `CopiesTypeOK` |
| `RevisionsHavePhotos` | `RevisionHasPhoto` |
| `KeptPhotosAreNotOlder` | `KeptIsNotOlder` |
| `NoPhotoIsLostUnseen` | `NoUnseenPhotoLost` |
| `PeopleAreTyped` | `PeopleTypeOK` |
| `FriendsHaveAgreedThroughout` | `FriendsAgreed` |
| `OverviewsStaySound` | `OverviewSound` |
| `OnlyFriendsAreInvited` | `InvitedWereFriends` |
| `GroupIsTyped` | `GroupTypeOK` |
| `ViewsAreExactWhenQuiet` | `ExactWhenQuiet` |
| `TheBestIsRecommended` | `RecommendsBest` |
| `ClaimsStayWithinNeeds` | `ClaimsFit` |
| `CompletedMeetingsAreReady` | `CompletedMeetingIsReady` |
| `NotesAreAdmittedWhileActive` | `AdmittedWhileActive` |
| `EveryChangeIsTold` | `EveryChangeTells` |

For `OwnerTabs` the invariant is that every row read, by a load under way or for a
page, is not from the future, and is exact if its version is still the current one
(`RowHolds`); a commit makes all of them old at once, which is why it does not
matter how the reads are torn. `NoLostTitle` follows, because the metadata form takes
basis and version from one copy. The plan form takes them from two, which is where
the argument fails and the run `owner_form` finds its counterexample.

For `Creation` the invariant (`IInv`) adds to what is promised that at most one
transaction has reserved the key and not ended (`Sequential`), that it works on a
meeting nobody else has (`ReservedIsNew`), and that an answer under way already
agrees (`RepliesAgree`). The step of the mapping is the commit; all others stutter.

For `Sessions` the table alone carries the first two theorems: `Rows` says that rows
are typed, that the token a line began with was issued, that rotations form
lines and that each has one working end; `TableStep` reduces every action to
creating, rotating, revoking or expiring a row, and each of these keeps `Rows`. The
cookie needs to know what requests and answers carry (`Known`): what is sent was
issued; an answer on its way brings a token that works, that nobody has sent, and
that no other answer brings; and if the cookie is used up, then an answer to it is
on its way or was lost. Without the middle part a delivery could install a token
that another tab has rotated already.

For `Live` the invariant relates each stream to its group (`StreamSound`): while
nothing is queued for it, the group is where the stream joined it or where it was
last told; and groups, polls under way and authorizing reads are behind the
database (`NotAhead`), without which a late answer could move a group that was
made anew past it. That groups are exactly what somebody listens to
(`GroupsExact`) is needed for both, since a group without listeners would be
forgotten with what it knew.

For `LiveTabs` every step of the server and of a page is a step of `Live` or leaves it
alone, so the invariant of the manager holds beneath the pages. On top of it stand
`PagesNotAhead` and `NoUpdateForgotten`. The second is what makes `UpdateIsShown` true:
a reload that has read an older version has the update queued, one that has not read
yet will read a version at least as new (a stream is never told more than the
database has), and the loop goes round again exactly if what is queued is newer than
what was read. Fairness turns "is coming" into "is shown", which is left to TLC.

For `MeetingPhotos` the invariant adds that the history has the photos of now at the
version of now (`Remembered`) and that a browser keeps nothing from the future
(`KeptNotNewer`). The first makes the version check strong enough: a request that
passes it was made from the copy that has these photos. The one request without the
check changes no photo but that of the option it deletes (`OptionGoesKeeps`), which is
why the theorem exempts this photo and no other.

For `Friendships` every action adds a row, accepts one, removes some or keeps the
table (`Adds`, `Accepts`, `Removes`, `Keeps`); each keeps the pairs single and the
ids unused, which is why an acceptance names the request it was meant for. The
overview needs that a row may move from the requests to the friends and never back,
so that reading friends first sees no row twice, and that what it counts is finite. For
`FriendInvitations` whoever a batch has taken up was a friend at some moment of it (`BatchSound`).

For `Polls` the invariant is that a poll with an answer or an outcome belongs to a
meeting that is no draft any more (`AnsweredIsSettled`): a poll is deleted only
in a draft, so nothing that is final can be deleted.

For `Avatars`, `RevisionHasPhoto` is nearly inductive; `ToldHolds` and `KeptHolds` add
what does hold of addresses and of the browser's copy although revisions come back: an
address that was given out is of this life of the photo or of an earlier one, and
within this life never newer; and what is kept under the address of now, if it was told
in this life, is the photo itself. It matters in which life the address was told, not
when the photo was fetched: fetched today by an address from before a removal, it is
replaced by the time the revision comes back. The run `avatars_reused` shows that nothing
holds across lives.

For `Preparation` the invariant is the conjunction of `TypeOK`, `ClaimsFit` and
`CompletedMeetingIsReady`: completion takes `ClaimsFit` to know that what is marked is
covered, and a new row takes its second half to know that nobody has claimed it yet.
What is claimed of a thing is a sum over a finite set, which the community modules
compute by a recursive function. The prover knows such a function by its defining
equation alone, and has no induction principle that takes a predicate; but that a set
of numbers, or of subsets of a finite set, has a least member follows from the
well-foundedness of the subset order (`LeastMember`, `LeastSubset`), and a least
counterexample does for induction. So are proved that the function exists
(`SumsExist`), that sums of natural numbers are natural, that sums of zeros are zero,
and that changing one summand changes the sum by as much (`SumChanges`), which is what
`total - current + quantity` in the code relies on.

For `AvailabilityView` the invariant adds that only participants have answered
(`OnlyMembersAnswer`); then those who have not are the others, which is the
difference the code computes. The recommendation is the loop over the items: by the
same kind of induction, what it keeps after n of them suits the plan and is no worse
than any of the n that does (`BestIsBest`), because `ranksBefore` decides between any
two of them one way or the other (`RankingIsTotal`), is transitive
(`RankingIsTransitive`), and is the lexicographic order of all six keys
(`RankingIsByMerit`). That proof showed that `None`, which
stands for no recommendation yet, must not be a position in the list; it is an
assumption of the module now.

For `Notes` types suffice: a step that changes a note is an authorised `Change` of its
author.

`SetupFrozen`, `EvidenceSound`, `Creation!TypeOK`, `Live!TypeOK` and `PagesNotAhead` are
stated by theorems alone; the type invariants of the composed modules are parts of
`CopiesTypeOK`, `PeopleTypeOK` and `GroupTypeOK`.

Only model-checked: liveness (`NewsArrives`, `UpdateIsShown`, `EveryRequestIsAnswered`),
which is out of the prover's reach, and the counterexamples of the runs that expect one.

## Not modelled, and why

Password hashing and access tokens, image decoding, the calendar text, validation
of lengths and formats, listing and paging, metrics and configuration: no
interaction to check. The time zone and layout code of the client is presentation.
The screens of friends and notes hold no copy that is sent back. Generated query
code is mapped where an operator stands for the query; the rest is represented by
the action that runs it. Accounts of several people in one browser share its cookie
and are one instance of `Sessions` with more accounts; the run has one.

## Plan

The modules above are done. What is left, in order of importance:

1. A composition of `Meeting` and `Preparation` in which `Complete` reads the list.
2. The delayed duplicates of options, polls and requirements, about which no
   document promises anything yet.
