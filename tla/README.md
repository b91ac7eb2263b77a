# MUSIC LOG: a verification project

MUSIC LOG (`MusicDiary/`) is an iOS application for music diaries kept alone or
shared with friends.  It has no server code of its own: phones talk to Firebase
Authentication and Cloud Firestore through the client libraries vendored under
`MusicDiary/Pods`.  There are no tests.  About 2000 lines of Swift under
`MusicDiary/MusicDiary` are the program; the rest of the repository is vendored.

What makes the program hard is that *everything that matters happens in a
callback*.  A button sends a request, the screen goes on, and a closure run later
reads global variables (`currentUID`, `currentDairyId`, `daily_currentDiaryID`,
`currentContentData`, `newContent`) that say by then something else.  A
relation between two documents is kept by two separate writes, from several
phones, none of them in a transaction.

## 1. Inventory

Paths are below `MusicDiary/MusicDiary` unless they start with `Pods`.

| Part | State it keeps | Operations | Talks to | What is hard |
|---|---|---|---|---|
| Session: `Yujin/IntroViewController`, log-out in `Yujin/AppSettingViewController` | `currentUID` (global), Firebase `auth` (keychain) | swipe, sign in, first-login check, log out | Firestore `Users`, main view | check-then-write on two phones; main view shown before the check ends |
| Main view: `Yewon/MainVC` | `diaryData`, `currentDairyId` (global), carousel, write button | load, add diary, scroll, write button query, open, write | Firestore `Users`, `Diary`, `Contents` | overlapping loads, answers out of order, index into a list that is being refilled |
| Daily view: `Jungbin/DailyView` | `daily_currentDiaryID`, `currentContentData`, `currentContentID` (globals), selected day and member, dots | select day, select member, answers, cover download | Firestore `Contents`, Detail | answers and downloads out of order, global content read later |
| Detail: `Jungbin/DetailView` | the buttons' visibility | show, delete, go to edit | globals of the daily view | shows and deletes what the globals say later |
| Write, Edit: `Jungbin/WriteView`, `Jungbin/EditView` | drafts `newContent`, `newCD` (globals) | receive a song, save | Search by `delegate`, Firestore `Contents` | a draft that outlives its screen, day and user |
| Diary settings: `Jungbin/DiarySettingView` | `newMemberList` | add a friend, rename, set the cover song | Firestore `Users`, `Diary` | a membership is two writes; target diary read late |
| App settings: `Yujin/AppSettingViewController` | none of its own | rename, profile image, log out | Firestore `Users`, Auth | user read at the tap |
| Music search: `Yujin/SearchViewController` | `musicData`, `delegate` (global) | search, select | maniadb over HTTP | two answers into one list |
| Firestore client, writes: `core/sync_engine`, `local/local_store`, `local/leveldb_mutation_queue`, `remote/remote_store`, `remote/stream`, `remote/write_stream` under `Pods/FirebaseFirestore/Firestore/core/src` | a mutation queue per account on disk, `write_pipeline_`, the write stream, callbacks | write, change account, restart the network, answers, refusals, retries, process restarts | the service | answers that do not say what they answer, writes sent twice, batch ids used again, credentials and timers of a call that is gone |
| Firestore client, reads: `api/document_reference`, `core/event_manager`, `core/query_listener`, `core/sync_engine`, `core/view`, `remote/remote_store`, `remote/remote_event`, `remote/online_state_tracker`, there too | listeners, views, targets and what is known of them, the watch stream, the online state | `getDocument`, watch, unwatch, events, changes, failures, timeouts | the service, the user's executor | answers of a listen given up taken for the next one's, a caller told twice or never |
| Firestore client, the rest: mutations, documents under pending writes | the local view of a document | apply a mutation on the phone and on the server | | what an update does to a document that is missing |
| Not the program's logic | | | | `AppDelegate`, `SceneDelegate`, `ViewController`, `VC`, cells, fonts, `Yewon/DetailVC` (unused) |

What makes each part correct:

* **Sharing** (session + main view + diary settings + Firestore client): the two
  halves of a membership, `Diary.memberList` and `Users.userDiaryList`, agree;
  no list ever loses a diary; a listed diary carries its id; no handler raises.
* **Main view**: the cards are the user's diaries; `currentDairyId` is the card
  in the centre; the write button is hidden once today's entry is written; a
  diary added is shown.
* **Daily view and detail**: the entry shown is the one of the selected day and
  member; the one deleted is the one on screen and the user's own.
* **Write and edit**: an entry is saved for the user, day and song on screen.
* **Search**: the rows are the results of the last search.
* **Firestore writes**: a queue per account that survives everything but the
  service's answer, sent in its order at least once, whose callers hear at most
  once and only of their own write, and which empties in the end.
* **Firestore reads**: every `getDocument` is answered, once, and an answer said to
  be in sync is no older than the question.

## 2. Modules

| Module | Models | Lines of code it stands for |
|---|---|---|
| `Membership` | what sharing a diary promises, without phones or queues | abstract specification |
| `DiarySharing` | log-in, add diary, invite, the Firestore queue, kill and restart | `IntroViewController`, `MainVC.addDiary`, `DiarySettingViewController.tapAddUserBtn/addUser`, `logOutAction`, `local_store.cc`, `remote_store.cc`, `sync_engine.cc`, `*_mutation.cc` |
| `DiarySharing_proofs` | theorems about `DiarySharing` | |
| `DiaryListing_proofs` | theorems about what is still to come in `DiarySharing` | |
| `MainView` | the carousel, `currentDairyId`, the write button | `MainVC` |
| `MainView_proofs` | theorems about `MainView` | |
| `DailyView` | a day's entry, and the detail screen above it | `DailyViewController`, `DailyViewFuncs`, `DetailViewController` |
| `DailyView_proofs` | theorems about `DailyView` | |
| `EntryEditor` | drafts, write and edit screens, across days and accounts | `WriteViewController`, `EditViewController` |
| `EntryEditor_proofs` | theorems about `EntryEditor` | |
| `MusicSearch` | searches, the result table, the choice of a song | `SearchViewController` |
| `MusicSearch_proofs` | theorems about `MusicSearch` | |
| `WriteQueue` | what the Firestore client promises for a write | abstract specification |
| `WritePipeline` | how it keeps the promise: mutation queue, pipeline, write stream, callbacks, restarts | `sync_engine.cc`, `local_store.cc`, `leveldb_mutation_queue.cc`, `remote_store.cc`, `stream.cc`, `write_stream.cc`, `datastore.cc` |
| `WritePipeline_proofs` | theorems about `WritePipeline`, the refinement included | |
| `DocumentReads` | `getDocument`: listeners, views, targets, watch stream, online state | `document_reference.cc`, `event_listener.h`, `event_manager.cc`, `query_listener.cc`, `view.cc`, `sync_engine.cc`, `remote_store.cc`, `remote_event.cc`, `online_state_tracker.cc`, `watch_stream.cc` |
| `DocumentReads_proofs` | theorems about `DocumentReads` | |
| `MC_*` | definitions TLC needs (symmetries, what a keyword finds) | |

The screens meet in two places only, Firestore documents and global variables.
Each module has the globals it reads and the part of Firestore it writes; what
another screen does to them is an action of the environment (`FriendShares` in
`MainView`, `OthersAct` in `DailyView`, `DailyViewAnswered` in `EntryEditor`).
Composing the modules over shared globals is planned (section 8).  The screens
take from the Firestore client what `WritePipeline` and `DocumentReads` are about: that
writes of an account are committed in order and at least once (the queue `writes`
of `DiarySharing`, whose `Commit` is `ServiceCommits` and the acknowledgement in one
step), and that each read is answered once, possibly from the cache (the sets of
answers under way of every screen's module, their constant `Offline`).

Conventions.  A variable has the name of the Swift variable or Firestore field
where there is one.  A closure on its way is an element of a set, a count per
question, or a sequence when the order of answers matters.  An exception (empty
document path, forced unwrapping, index out of range) is the value `"crashed"` of
`screen` or `proc`: the step is modelled, never excluded.  An operator marked
`\* mutant` is a plausible mistake in the operator that follows it and is used by no
specification.  `history` variables are read by properties only (`hasty` by its bound too): `hasty` (`MainView`) and
`slips` (`EntryEditor`) record that a person acted while an answer was under way,
saved without a choice, or that a download failed; `since` (`DocumentReads`) is the
version a document had when the client began to listen to it.

### 2.1 DiarySharing

*Server*: `userDocs`, `userDiaryList`, `diaryDocs`, `memberList`, `hasDiaryID`.  *Disk of
a phone*: the signed-in account (`auth`), a queue of writes per account (`writes`), of
which a prefix is persisted (`durable`).  *Memory*: `currentUID`, `openDiary`
(`daily_currentDiaryID`), the closures under way (`check`, `completion`, `invites`).

| Action | Code |
|---|---|
| `SignIn`, `Swipe`, `LogOut` | `swipeGestured`, `logOutAction` |
| `AnswerCheck`, `FinishCheck` | the first-login check: the server reads, then the closure may `setData` |
| `AddDiary`, `CompleteAddDiary` | `addDocument` and its completion handler |
| `OpenDiary`, `CloseDiary` | into and out of the daily view |
| `TapAddUser`, `AnswerInvite` | the friend check and the two `updateData` of `addUser` |
| `Persist` | `LocalStore::WriteLocally`: on the worker queue, after the call returned |
| `Commit` | a write reaches the server, is accepted or rejected, is acknowledged |
| `Kill`, `Restart` | unpersisted writes and all closures are lost; persisted writes are not |

A write joins the queue of the account *Firestore* is signed in as, which is not
always the one in `currentUID`.  Updates carry `exists(true)`, sets carry no
precondition.  Reads under way are asked again when the account changes.

### 2.2 MainView

`diaryData` is the list, `cards` the list when the carousel was last reloaded,
`centre` the card in the middle.  `Appear` (`viewWillAppear`), `AnswerUser` and
`AnswerDiary` (the two levels of `loadDiaryData`), `AnswerHideWrite`, `Scroll`
(`scrollViewDidScroll`), `MoveToWrite`, `TapSave`, `OpenCard`, `ReappearDaily`, `GoBack`,
`AddDiary`, `CompleteAddDiary`, `FriendShares`.  Diaries are numbered by their date, and
the list is sorted at every moment, so that `InsertByDate`, which inserts behind the
diaries that are not later, is the append-and-sort of the code.

### 2.3 DailyView

`AnswerQuery` is one answer of `getContentsListForDaily`; `StartCover` is the moment the
background thread reads the URL and `ShowCover` the moment the main queue shows what
it downloaded: three moments, and the code reads the globals afresh at each.
`AnswerDots` is `loadDateForCalendar`.  `GoDetail`, `ShowDetail`, `GoBack`, `TapDelete` are
the detail screen.  An entry is its author, day and whether it has a title; two
entries of a day by the same author are one here.

### 2.4 EntryEditor

`newContent` and `newCD` are globals made at their first access (`Draft`), kept across
screens, days and accounts.  `ChooseForWrite`, `ChooseForEdit` (`sendData`), `ShowChoice`
(its download), `AnswerLoad` (`presentData`), `TapSaveWrite`, `TapSaveEdit`, `Close`.
`AnswerLateLoad` and `ShowLateChoice` are closures of screens that are closed by then.
A song stands for its title, artist and cover.

### 2.5 MusicSearch

`musicData` is the list, `rows` what the cells show: `insertRows` asks for the top cells
only.  `Search`, `SearchNothing`, `Answer`, `AnswerLate`, `ShowCell` (a cell is scrolled
back into view), `SelectRow`, `GoBack`, `Open`.

### 2.6 WritePipeline, and the WriteQueue it implements

Everything in the client runs on one worker queue, so a task is an action:
`WriteMutations`, `WaitForPendingWrites`, `HandleCredentialChange`, `EnableNetwork`,
`DisableNetwork`, `ConnectivityChanges` are calls from outside; `CredentialsArrive`,
`StaleCredentialsArrive` (credentials asked for by an attempt that was closed
since; `Stream` compares `close_count_`), `BackoffElapses`, `IdleTimeout`, `HandshakeCompletes`,
`OnWriteStreamMutationResult`, `OnWriteRejected`, `StreamFails` are the stream's; `Restart` is
the death of the process at any point and its next launch, which loads
`next_batch_id_` from what is left on disk, so that ids are used again.
`FillWritePipeline` is an operator of the queue, the pipeline and the stream's state,
because the code calls it with all three at different stages of a task.  A
`HARD_ASSERT` is a conjunct of its task through `HardAssert`: when it does not hold
the task sets `failed`, which `NoAssertFails` forbids.

What is taken of the service, and no more: one call at a time and in order; it
ends no call with OK while the client is connected; a write it has committed is
never refused later.  Responses that do not parse are left out, the stream token
too (the client only hands it back), and `Open` stands for `Healthy` as well.  Each
account overwrites one document of its own, which is what `SettledOnNewest` is about.

`WriteQueue` says what callers rely on: a queue per account from which the
service commits in order (`attempt` is how far the present connection has come),
`Acknowledge` and `Refuse` take the oldest write out, `Retry` begins again, `Restart`
forgets callers.  The mapping is `queue` without batch ids, `attempt` the number of
answers on their way, `waiting` the writes whose callback is kept.

### 2.7 DocumentReads

`getDocument` is a listener that takes one event.  `GetDocument` is
`AddQueryListener` with, for the first listener of a document, `SyncEngine::Listen` and
`RemoteStore::Listen`; `HandleEvent` runs on the user's executor, mutes the listener
and enqueues `RemoveListener`, which for the last listener is `StopListening`.  Between
the two, more events may be on their way.  `OnWatchStreamChange` reads one message:
an answer to a watch or unwatch, a document together with CURRENT, or a consistent
snapshot, which `RaiseWatchSnapshot` turns into the cache's and the views' new
state.  `outstanding`, `isCurrent`, `pending`, `update` are `WatchChangeAggregator` with its
`TargetState`s; `online`, `failures`, `timer` are `OnlineStateTracker`.  `RaiseEvents`, a part
of every task that may change a view or the online state, is
`QueryListener::OnViewSnapshot` and `OnOnlineStateChanged`: who has had no event yet gets one if the view is
in sync or the client offline, who has had one gets another if the view changed.

Taken as given: a document query is its own target; a document and CURRENT come
in one message; the service answers the requests for a target in order, and a
refusal is read at once; two events under way to a listener stand for more.  Left
out: deletions, writes pending on the document, and `enableNetwork` and
`disableNetwork`, which the application never calls.  Credentials of an attempt
closed since are in `WritePipeline`; both streams share that code.

## 3. Constants that stand for a circumstance

| Constant | Meaning | Why both values |
|---|---|---|
| `AnonymousWrites` | the security rules accept writes of nobody | they are not in the repository; the proofs hold for either |
| `Offline` | a read may miss the server and be answered by the cache, or fail | `getDocument` with the default source falls back |
| `Patient` (`DailyView`) | a person acts only when every answer has come | FALSE is the code; TRUE is what it gets right for a calm user |
| `MaxHaste` (`MainView`) | how often a person acts while an answer is under way | 0 would be a patient person |
| `InOrder` | answers to `hideWrite`'s queries come in the order asked | one stream carries them; nothing in the application relies on an order otherwise |
| `OthersWrite` | other members write and delete meanwhile | |
| `CoversFail` | a download of a cover may fail | its data is unwrapped by force |
| `Untitled` | entries saved without a song exist | the write screen does not ask for one |
| `EmptyText` | a person searches for nothing | |
| `Failing` | a request fails or brings no XML | |
| `Max...` | bounds, named where they guard | |

Patience is never a hidden assumption: it is a constant, or a history variable
the property names, and what goes wrong without it is listed in section 6.

## 4. The runs

The longest run takes about two minutes, the others seconds.  Deadlock is not
checked where a bound on actions, or a crash, lets the model stop.

| Run | What it shows |
|---|---|
| `sharing_one_phone` | two accounts share a phone, two diaries, one kill, one log-out, offline reads, an impatient person: `ListedImpliesMember`, `NeverCrashes` (but for a log-out), and the writes implement `Membership` |
| `sharing_uninterrupted` | two phones, accounts that exist, no kill, reachable server: `ListedHasDiaryID` (the id is written before the diary is listed), `ListsNeverShrink`, and under fairness `MembersSeeDiary` |
| `sharing_login_check` (violation) | two phones log in to the same new account: `ListsNeverShrink` fails |
| `main_view` | three diaries, one at the start, offline reads, a person hasty once: `WriteHiddenOnceWritten` and `SettledNeverRaises` whatever the haste, `CardsAreTheList` and `SelectionIsCentre` without; under fairness `AddedDiaryShown` |
| `daily_view` | every content of two members and two days, the other member writing, downloads that fail: `ShowsLastAsked`, `DeletesOnlyOwn` |
| `daily_delete` (violation) | a late answer under the detail screen: `DeletesEntryShown` fails |
| `editor` | two days, two songs, two entries, late loads, late and failing covers: `SongWhole`, `SavesChoice`, `EditShowsChoice`, `NeverCrashes`, each naming the slips it excepts |
| `editor_account` (violation) | a second user signs in: `SavedForUser` fails |
| `search_overlapping` | overlapping, failing, late, empty and too large answers: `TableConsistent`, `ListIsResult`, `ChoosesRowShown`, `IndicatorStops` |
| `write_pipeline` | two accounts, three writes, a pipeline of two (205 000 states): the pipeline is the beginning of the queue, answers meet their batches, callers hear the truth, waits end, the newest value settles, no assertion fails, `ImplementsWriteQueue`; under fairness `QueueDrains` |
| `reads` | two reads of a document that changes once: `ToldOnce`, `InSyncIsFresh`, `NoAssertFails`, no deadlock; under fairness `EveryGetAnswered` |
| `reads_timeout` (violation) | `UnknownIsTimed` fails: a wait no timer limits |

**Bounds.**  Sharing: the hazards are between two writers and one object, or one
writer and a crash; two phones, two accounts, two diaries, one kill and one
invite make each of them happen, and the theorems of section 5 lift the most
important ones to any number.  One invite suffices because invites do not
interact except through the queue, where `AddDiary`'s writes are the others.
`sharing_login_check` needs one account and one diary.  Main view: with
three diaries, the second of them there at the start, there is a first, a middle and a last card, a card
appended and one inserted before others; one hasty act, two open answers of a kind make loads overlap.
Daily view: two keys that differ in the day and two
that differ in the member.  Editor: a second day or account makes a stale draft
visible, a second song a mixed one, and the second entry follows the first or an
edit of it.  Search: a keyword with two songs, one with more than an
answer displays (sharing songs with the first), one with none; two requests each.
Write pipeline: a pipeline of two is full with a third write behind it; that write
may be another account's, or come after a restart and take over an id.
Reads: two reads of one document are joint, or the second listens again while
answers to the first are on their way, and one change makes old and new differ;
the safety properties of the run were also checked with two documents (1.07 million
states) and with three reads (475 000).
Symmetry is used for diaries, phones and songs in runs without liveness only.

**Fairness.**  `DiarySharing`: weak fairness of `Persist` (Firestore's worker queue runs
what was enqueued), of `Commit` (the write stream delivers while the process runs) and of the
closures (the main queue runs them).  `MainView`: weak fairness of every answer and
completion handler: Firestore calls each once, from the cache if need be.
`WritePipeline` and `DocumentReads`: weak
fairness of timers and of tasks already enqueued; strong fairness of credentials,
handshakes, commits and of reading answers, because a connection may fail
again and again and each failure disables them: what the network lets begin
infinitely often is not broken off each time.  `DocumentReads` asks it of each type of
message, since a stream that always fails after the first message of a call would
bring the same message for ever.  Failures, restarts, account changes, refusals and
writes of others are not fair.
`MusicSearch`: weak fairness of `Answer`: Alamofire calls each handler, with an error
after its timeout.  Nothing a person, a friend or the system does is fair.  Each
fairness is of the action as enabled: a killed or crashed phone owes nothing.

## 5. What is proved

`tlapm` checks these theorems for every value of the constants, under the
assumptions declared with them (named `...Assumption`; TLC evaluates them too).

`DiarySharing_proofs`:

* `SpecImpliesTypeOK`, `SpecImpliesListedImpliesMember`: safety of `Spec`.
* `SpecImpliesNeverCrashes`, `SpecImpliesListedHasDiaryID`: safety while nobody has logged out.
* `SpecImpliesListsNeverShrink`, from `~Offline` and `InitialUsers = Users`, a case of
  `FoundListsNeverShrink` (from `~Offline` alone: the lists of `InitialUsers` never shrink).
  Both hypotheses are needed: `sharing_login_check` refutes it of a new account, section 6
  of an offline log-in.
* `SpecImplementsMembership`: every step is a step of `Membership` or a stutter.

`ListedImpliesMember` is not inductive: a queue could hold a listing nobody granted.
`IInv` says why it does not:

| Conjunct | Needed because |
|---|---|
| `ListingsJustified` | a listing the server accepts follows its `addMember` in the *same* queue, or the member is on the server already; a kill cuts queues to prefixes, which preserves this |
| `ReadyForCreator` | the handler of `addDiary` lists for `currentUID` of *now*; it must be the creator of the acknowledged diary |
| `SessionMatches` | off the intro screen `currentUID` is the account Firestore writes for, so a handler that runs there writes for that account |
| `CreationsUnique` | a set of a diary document would erase its members if the diary existed; ids are minted once and a creation sits in one queue |
| `UpdatesOfExisting` | `addMember` of a missing document is dropped by the server, which would leave its listing unjustified |
| `OpenDiaryExists` | so does an invite's target |
| `FreshDiariesEmpty` | the refinement: creating a diary grants one membership and takes none |

Each action has a lemma `...Keeps`; `Commit` is split by kind of write, `Restart` by the
prefix argument.  What holds until somebody logs out is inductive as `NoLogOutInv`:

| Conjunct | Needed because |
|---|---|
| `HandlersOffIntro` | a completion handler or an invite under way belongs to a phone past the intro screen, where `currentUID` is not empty |
| `ListingsHaveID` | a listing on its way has its diary's `setDiaryID` before it in the same queue, or the id is on the server: the handler of `addDiary` writes both, an invite is for a diary opened from a list |
| `OpenDiaryHasID` | an open diary came from a list, so it has its id |

After a log-out an invite that is answered late writes to the queue of the *next*
account, where no `setDiaryID` precedes it: TLC finds `ListedHasDiaryID` violated without
its condition on `logOuts`.  `FoundUsersKept` says that no set of a user's document is ever
queued for an account that has one, when the login check is answered by the server.

`DiaryListing_proofs`, on top of it, is about members who are *not* listed yet.  From
`~Offline`, while no process is killed and nobody logs out (`Uninterrupted`, the
conditions under which the run checks `MembersSeeDiary`, and each necessary by section 6):
`SpecImpliesNobodyForgotten`, and from `InitialUsers = Users` as well `ListsAgreeWhenQuiet`: when
no phone has a write or a creation's handler under way, `userDiaryList` and `memberList` say
the same.

| Conjunct | Needed because |
|---|---|
| `CreationsAwaited` | a creation under way has its handler waiting, for the account that made it; the handler lists the diary |
| `MembershipsFollowed` | an `addMember` under way has its listing behind it in the same queue, of an account that is signed in |
| `NobodyForgotten` | a member of the server's list is listed, or `ListingToCome`: the listing is in such a queue, or the handler is due |

`MainView_proofs`, for any diaries, any number of answers under way and any haste:

| Invariant | Says | Theorems |
|---|---|---|
| `CardsFollow`, `ListedFirst` | the cards are the data, or old ones that a diary still to come will replace; there is one to come because what was shown or asked for stays listed | `SpecImpliesSettledNeverRaises` |
| `HideFollows` | the last question of `hideWrite` is about the selected diary, or none is open and only a diary to come, which will be asked about, can change the answer | `SpecImpliesWriteHidden` (from `InOrder`) |
| `OneLoad` | at one moment a diary is added, or the user's document asked for, or those of its diaries, each once and none of them shown | `SpecImpliesCardsAreTheList` |
| `CentreSelected` | the first card stays in the centre until all diaries are there | `SpecImpliesSelectionIsCentre` |

| `Complete` | every diary the phone was given, has added or read on the list is shown, or asked for, or the list is; nothing else is | `SettledCardsComplete` |

`OneLoad` and `CentreSelected` are of a person who has never been hasty.  Under them are lemmas about
the library's `InsertAt` and `RemoveAt`, and `InsertedSorted`: the diaries not later than a new one
are an initial segment of a sorted list, so it is inserted in its place.

`DailyView_proofs`: `SpecImpliesTypeOK`; `SpecImpliesContentKnown`: whatever shows, downloads or deletes
an entry finds one in the globals; and for a person who waits (`Patient`)
`PatientDeletesOnlyOwn`, `PatientDeletesEntryShown` (both from `DetailQuiet`: nothing is on the way
while the detail screen shows an entry) and `PatientShowsLastAsked`, from `OneQuestion`: nothing is
asked, or one question is, the last, or its cover is loading, or its answer is shown.
The last needs `~Untitled` as well.  Without its hypotheses each is refuted (section 6).

`EntryEditor_proofs`: everything the run `editor` checks.  `IInv` adds to it

| Conjunct | Needed because |
|---|---|
| `AskedCovered`, `TitledCovered` | what is asked for, and what has a title, has a cover; a song-less entry may have one of an earlier screen but is never opened |
| `EditLoaded` | the edit screen has `newCD` once its answer has come, whatever late answers did to it; so only a hasty save can find it empty |
| `NothingLate` | a person who waits leaves nothing on the way to a closed screen |
| `DraftIsChoice`, `EditFollows` | hence the drafts, which outlive screens, days and accounts, are what this screen chose |

`MusicSearch_proofs`: `SpecImpliesTypeOK`, `SpecImpliesTableConsistent` (table and list have
as many rows, so `insertRows` never raises), `SpecImpliesListIsResult` and the action property
`SpecImpliesChoosesRowShown`.  The first two are inductive together.  The others
rest on `Aligned`: without overlap, the table shows the list, and either nothing is
asked and the list is the result, or exactly one request is open, for the last
keyword, and the list is empty.  `NoneLeft` (a closed screen has no open request
of its own) makes it hold when the screen is opened again.  `SpecImpliesTurnsForRequest`
needs only the first: the indicator turns for a request on its way or a search for nothing.

`WritePipeline_proofs`, for any accounts, any number of writes and any
`kMaxPendingWrites`: `Invariant` (`IInv` is inductive) and from it `TypeCorrect`,
`PipelineIsPrefix`, `AnswersAreMatched`, `AssertionsHold`, `CallersHearTheTruth`, `WaitsEnd`,
`NewestSettles`; and `ClientImplementsWriteQueue`.  `IInv` is type correctness, five of the checked
invariants, and

| Conjunct | Needed because |
|---|---|
| `QueuesOrdered` | batch ids and write numbers grow along a queue, ids stay below `nextId`, accounts share no write; so `NextMutationBatchAfterBatchId` finds the rest of the queue and a removal removes the front |
| `CallShape` | what may be on the wire, and when the idleness timer may run, in each state of the stream and of its handshake |
| `ServiceKnown` | what the service has committed: the answers on the wire, nothing of another account's queue, and not a write it refuses |
| `ValueNewest` | the service's value is the write it committed last in this attempt and, if no queued write is committed, the newest it has: `SettledOnNewest` is the case of an empty queue |
| `CallbacksOfQueued` | a callback kept is of a batch of that id and that write still queued, so an id used again finds no stale callback |
| `ToldKnown` | nobody was told of a write still to be made |

`FillWritePipeline` has lemmas of its own (`ToAddFollows`, `FilledIsPrefix`, `FillEffect`), each
action a lemma `...Keeps`, and `CompleteFrontKeeps` is shared by answers and refusals.
`FullInv` is inductive given `IInv`: while the network is enabled the pipeline holds the queue
or is full (`PipelineFull`), and a pipeline that is not empty has a started stream
(`StreamWanted`); it is what the calls of `FillWritePipeline` at the end of each task are for.
`PipelineStaysFull` and `QueueNeverStalls` follow.

`DocumentReads_proofs`, for any documents, calls and versions, proves every safety
property of `reads`, and that nobody waits for nothing, in six layers, each an induction that may use those before:

| Layer | Inductive with | Theorem |
|---|---|---|
| `Typed` | `OutstandingIsDue`: `outstanding_responses_` is exactly the requests for a target on the wire and the answers to them (`Due` counts those in a sequence; `DueAppend`, `DueTail`); without a call nothing is kept of one; calls not made have no events | `TypesAreKept` |
| `Steady` | the timer runs only while a started stream leaves the state unknown; an idle stream has no targets; targets have a stream and listeners | `AssertsHold` |
| `Calls` | a caller told once is muted, or was refused; a refusal is the last event and ends the listening | `CallersToldOnce` |
| `Fresh` | `ComingIsFresh`: of the updates on the wire, those of an earlier listen are followed by an answer due, the others are of the version listened to or later; so are updates read while the target is active (`PendingIsFresh`) | `SyncedViewsAreFresh` |
| `Awaited` | a caller not told has an event under way or listens for its first (`NotForgotten`), and then there is nothing yet to raise: the view is not in sync and the client not offline (`NothingToRaise`) | |
| `Served` | on an open stream each target's listen is still to be answered, or its update or snapshot to be read (`Coming`), or its view is in sync and the client online (`TargetsServed`) | `CallersWaitForSomething` |

`OutstandingIsDue` is why the last holds: an update is taken for a target only when
`outstanding` is 0, hence when no answer is due, hence when the update is of this listen.

What is proved of the five liveness properties is their safety part, that nothing is lost
on the way, so that only fairness is left to TLC.  TLC checked each inductive invariant
before its proof:

| Liveness, checked by TLC | Safety part, proved | Invariant checked with |
|---|---|---|
| `MembersSeeDiary` | `SpecImpliesNobodyForgotten`, `ListsAgreeWhenQuiet` | two phones without kill and log-out; one phone with one of each (1.75 million states) |
| `AddedDiaryShown` | `SettledCardsComplete` | the constants of `main_view`, with either value of `Offline` |
| `IndicatorStops` | `SpecImpliesTurnsForRequest` | the constants of `search_overlapping` |
| `QueueDrains` | `PipelineStaysFull`, `QueueNeverStalls` | the constants of `write_pipeline` (205 000 states) |
| `EveryGetAnswered` | `CallersWaitForSomething` | two documents, two reads (921 000 states) |

Only model-checked: those five as they stand, since `tlapm` proves nothing from fairness
and no `ENABLED`, and the properties of the four
runs that expect a violation, as they are stated there.  Every safety property that a
passing run checks is a theorem; the runs remain as the check that the definitions
say what they should, that their hypotheses are met, and that mutants break them.

## 6. Where the code and its promises part

Four disagreements with what the repository says have a run of their own:

* **`sharing_login_check`**, `IntroViewController.swift:59`: the first-login check reads, then
  sets without a precondition.  Two phones logging in to a new account: the slower
  one empties the list of diaries of the faster one.
* **`daily_delete`**, `DetailViewController.swift:68`: the button deletes what `currentContentID`
  names at the tap, which a late answer of the view below has changed.
* **`editor_account`**, `WriteViewController.swift:11`: `newContent` keeps the user of its first
  access; the next account's entry is saved under the former.
* **`reads_timeout`**, `remote_store.cc:187`: `StopListening` resets the online state, and with
  it the timer, although the stream goes on starting; the next `Listen` finds the
  stream started and starts no timer.  If the service then accepts the call and
  says nothing, `getDocument` waits without the limit of ten seconds that
  `online_state_tracker.cc:45` promises.

Others came up with no line of the repository that claims the contrary.  Each is
a reachable state of the model; the change that shows it is given.

| Behaviour | Shown by |
|---|---|
| a diary whose creator's phone is killed before the completion handler is listed by nobody | `Kill` after `AddDiary` in `sharing_one_phone`; `MembersSeeDiary` in `sharing_uninterrupted` with `MaxKills = 1` |
| so is a diary added before the first login has written the user document | `MembersSeeDiary` in `sharing_uninterrupted` with `InitialUsers = {bob}` |
| ... or by a user who logs out before the handler runs; the handler then raises | the condition on `logOuts` in `NeverCrashes` |
| an invite answered after a log-out is written to the next account's queue, and may list a diary before its id is there | `ListedHasDiaryID` without its condition on `logOuts` |
| an offline log-in to an existing account that this phone has not cached empties its list later | `ListsNeverShrink` in `sharing_uninterrupted` with `Offline = TRUE` |
| an invite typed for one diary adds the friend to the next one opened | `AnswerInvite` after `CloseDiary` and `OpenDiary` in `sharing_one_phone` |
| overlapping loads show diaries twice | `CardsAreTheList` without `hasty = 0` in `main_view` |
| a late answer moves `currentDairyId` away from the card in the centre; writing and the daily view then use the wrong diary | `SelectionIsCentre` without `hasty = 0` in `main_view` |
| a person who taps before the write button hides writes a second entry | `TapSave` with `hasty = 1` in `main_view` |
| answers of two `hideWrite` queries swapped | `WriteHiddenOnceWritten` in `main_view` with `InOrder = FALSE` |
| crashes: a scroll during a reload; an unreadable first diary; writing before there is a diary | disjuncts of `Scroll`, `SelectFirst`, `TapSave` |
| an answer for another day or member replaces the one selected | `ShowsLastAsked` with the constants of `daily_delete` |
| two answers for the dots replace one list, in the order they come | `AnswerDots` |
| an entry of another member can be deleted | `DeletesOnlyOwn` with the constants of `daily_delete` |
| an entry without a song cannot be told from none | `ShowsLastAsked` in `daily_view` with `Untitled = TRUE` |
| after the detail screen the calendar has one day selected and the view asks for today | `Dismiss` leaves `selectedDate` |
| a draft keeps the day of its first access until the application restarts | `Draft` |
| saving without a choice saves the former song, or a cover without its title | `SavesChoice`, `SongWhole` without their condition on `slips` |
| a late answer of the edit screen mixes title and cover, or replaces the choice | the same for `"hasty"`, and `EditShowsChoice` |
| saving an edit before the entry has loaded raises | `NeverCrashes` without its condition |
| overlapping searches mix their results, and a cell shows another song than its row's | the exception `overlap` of `ListIsResult` and `ChoosesRowShown` |
| the row that says "no result" can be chosen | `SelectRow` with `musicData = <<NoResult>>` |
| an empty search turns the indicator until the next search | `SearchNothing`, hence `~Idle` in `IndicatorStops` |
| more results than an answer displays raise | `TooMany` |

## 7. Not modelled

* The strip of members of the daily view and the list of members of the settings
  (`presentUserList`, `presentDiaryDataForSetting`): a member is chosen by value, and the
  check "already a member" is of the list at the tap, of which a hasty person may have
  seen any part.  `presentUserList` empties the list before the answers of an earlier
  call have come, so that members may appear twice.  Planned.
* Name of a diary, its cover song, name and picture of a user: single updates of
  fields nothing else depends on.
* The text of an entry, which goes the way of its title; sharing a picture of it.
* Of Firestore: security rules (the constant `AnonymousWrites` stands for them),
  queries over collections with their limbo documents and existence filters,
  lasting listeners, transactions, bundles, the garbage collector and the query
  engine.  The application uses the first in `hideWrite` and the daily view, where an
  answer is modelled as what a query finds, asked at one moment.
* Authentication, HTTP, XML, calendar, carousel and image libraries, gRPC, LevelDB,
  BoringSSL: what is used of them is in the modules that use it.  They are
  by far the most of the repository's lines, and none of its logic.
* `DetailVC`, `ViewController`, the Core Data stack of `AppDelegate`: unused.

## 8. Plan

Done: the sharing protocol first, since it spans phones and cannot be tested on
one; then the main view, which every other screen takes its diary from; then
entries (daily view, editor) and the search; then the two halves of the Firestore
client everything above relies on, with what they promise; then proofs of every safety
property the runs check, and of the safety part of the liveness properties.

Next, in this order:

1. `DiarySharing` over `WriteQueue` instead of its own queue, so that what is proved of
   `WritePipeline` is what the sharing protocol assumes.
2. `MemberList`: `presentUserList` and `presentDiaryDataForSetting`.  Overlapping loads, members
   listed twice, a picture's closure that indexes a list emptied since.
3. `MusicLog`, composing session, main view, daily view and editor over the shared
   globals: an account switch must leave nothing of the former user; an edit must show
   in the detail screen below; a saved entry must hide the button.
4. Queries over collections: limbo documents and existence filters above `DocumentReads`.
5. An abstract specification of the entries of a diary, changed by their authors
   only, implemented by `EntryEditor` for a careful, patient person.
6. Theorems: `EntryEditor` implements that specification; and, of two modules composed
   (item 1 or 3), the invariant that relates them.

