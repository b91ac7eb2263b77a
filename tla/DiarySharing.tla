----------------------------- MODULE DiarySharing -----------------------------
(***************************************************************************)
(* How a diary comes to be shared: the two halves of a membership (the     *)
(* memberList of the diary document, the userDiaryList of the user         *)
(* document) are written by separate Firestore writes, from the swipe on   *)
(* the intro screen, the "add diary" button and the "add user" button of   *)
(* several devices.  A device keeps one FIFO mutation queue per Firestore  *)
(* user; a prefix of it is on disk and survives the process.               *)
(***************************************************************************)
EXTENDS Naturals, Sequences, FiniteSets

CONSTANTS
    Devices,          \* phones running the app
    Users,            \* user ids: Google accounts
    Diaries,          \* document ids addDocument may mint
    NoUser,           \* currentUID = "", and Firestore's unauthenticated user
    NoDiary,          \* daily_currentDiaryID = ""
    InitialUsers,     \* users whose document exists at the start
    AnonymousWrites,  \* do the server's rules accept unauthenticated writes?
    Offline,          \* may a read miss the server and be answered by the cache?
    MaxInvites,       \* bound: friend checks started
    MaxKills,         \* bound: times the system kills an app
    MaxLogOuts        \* bound: times somebody logs out

Owners == Users \cup {NoUser}

ASSUME NoUserAssumption == NoUser \notin Users
ASSUME NoDiaryAssumption == NoDiary \notin Diaries
ASSUME InitialUsersAssumption == InitialUsers \subseteq Users
ASSUME FlagsAssumption == {AnonymousWrites, Offline} \subseteq BOOLEAN
ASSUME BoundsAssumption ==
    MaxInvites \in Nat /\ MaxKills \in Nat /\ MaxLogOuts \in Nat

(***************************************************************************)
(* The writes the app issues.                                              *)
(***************************************************************************)
Writes ==
    [op : {"createUser"}, user : Users, diary : {NoDiary}]
    \cup [op : {"createDiary", "addMember", "listDiary"}, user : Users, diary : Diaries]
    \cup [op : {"setDiaryID"}, user : {NoUser}, diary : Diaries]

CreateUser(u)     == [op |-> "createUser",  user |-> u, diary |-> NoDiary]
CreateDiary(d, u) == [op |-> "createDiary", user |-> u, diary |-> d]
SetDiaryID(d)     == [op |-> "setDiaryID",  user |-> NoUser, diary |-> d]
AddMember(d, u)   == [op |-> "addMember",   user |-> u, diary |-> d]
ListDiary(u, d)   == [op |-> "listDiary",   user |-> u, diary |-> d]

VARIABLES
    \* the server
    userDocs,       \* Users documents that exist
    userDiaryList,  \* Users/u.userDiaryList
    diaryDocs,      \* Diary documents that exist
    memberList,     \* Diary/d.memberList
    hasDiaryID,     \* diaries whose diaryID field holds their id (it starts as "")
    minted,         \* ids addDocument has handed out
    \* each device, on disk
    auth,           \* the Firebase user signed in, kept by the keychain
    writes,         \* the mutation queue of each Firestore user
    durable,        \* how many of them WriteLocally has persisted
    known,          \* Users documents the local cache holds
    \* each device, in memory
    proc,           \* "running", "killed" by the system or "crashed"
    screen,         \* "intro", "main" or "diary" (DailyView and its settings)
    currentUID,
    openDiary,      \* daily_currentDiaryID
    check,          \* the getDocument of swipeGestured, per user
    completion,     \* the completion handler of addDiary's addDocument
    invites,        \* getDocuments of tapAddUserBtn: the friends looked up
    \* bounds
    invited, kills, logOuts

server == <<userDocs, userDiaryList, diaryDocs, memberList, hasDiaryID>>
ui     == <<proc, screen, currentUID, openDiary>>
calls  == <<check, completion, invites>>
disk   == <<writes, durable>>
bounds == <<invited, kills, logOuts>>
vars   == <<server, minted, auth, disk, known, ui, calls, bounds>>


TypeOK ==
    /\ userDocs \in SUBSET Users
    /\ userDiaryList \in [Users -> SUBSET Diaries]
    /\ diaryDocs \in SUBSET Diaries
    /\ memberList \in [Diaries -> SUBSET Users]
    /\ hasDiaryID \in SUBSET Diaries
    /\ minted \in SUBSET Diaries
    /\ auth \in [Devices -> Owners]
    /\ writes \in [Devices -> [Owners -> Seq(Writes)]]
    /\ durable \in [Devices -> [Owners -> Nat]]
    /\ \A dev \in Devices, o \in Owners : durable[dev][o] <= Len(writes[dev][o])
    /\ known \in [Devices -> SUBSET Users]
    /\ proc \in [Devices -> {"running", "killed", "crashed"}]
    /\ screen \in [Devices -> {"intro", "main", "diary"}]
    /\ currentUID \in [Devices -> Owners]
    /\ openDiary \in [Devices -> Diaries \cup {NoDiary}]
    /\ check \in [Devices -> [Users -> {"none", "asked", "exists", "absent"}]]
    /\ completion \in [Devices -> [Diaries -> {"none", "awaiting", "ready"}]]
    /\ invites \in [Devices -> SUBSET Users]
    /\ invited \in 0..MaxInvites
    /\ kills \in 0..MaxKills
    /\ logOuts \in 0..MaxLogOuts

Init ==
    /\ userDocs = InitialUsers
    /\ userDiaryList = [u \in Users |-> {}]
    /\ diaryDocs = {}
    /\ memberList = [d \in Diaries |-> {}]
    /\ hasDiaryID = {}
    /\ minted = {}
    /\ auth = [dev \in Devices |-> NoUser]
    /\ writes = [dev \in Devices |-> [o \in Owners |-> <<>>]]
    /\ durable = [dev \in Devices |-> [o \in Owners |-> 0]]
    /\ known = [dev \in Devices |-> {}]
    /\ proc = [dev \in Devices |-> "running"]
    /\ screen = [dev \in Devices |-> "intro"]
    /\ currentUID = [dev \in Devices |-> NoUser]
    /\ openDiary = [dev \in Devices |-> NoDiary]
    /\ check = [dev \in Devices |-> [u \in Users |-> "none"]]
    /\ completion = [dev \in Devices |-> [d \in Diaries |-> "none"]]
    /\ invites = [dev \in Devices |-> {}]
    /\ invited = 0
    /\ kills = 0
    /\ logOuts = 0

-------------------------------------------------------------------------------
(***************************************************************************)
(* The client library.                                                     *)
(***************************************************************************)
Running(dev) == proc[dev] = "running"
Queue(dev) == writes[dev][auth[dev]]

\* A write call on the main queue: the batch joins the queue of the user
\* Firestore is signed in as, whoever the app thinks it is writing for.
Issue(dev, batch) ==
    writes' = [writes EXCEPT ![dev][auth[dev]] = @ \o batch]

\* Latency compensation: a read sees the server's document under the pending
\* writes of the current queue.  A set replaces the document, an update of a
\* document that does not exist is not applied.
Pending(dev, k, w) == k \in DOMAIN Queue(dev) /\ Queue(dev)[k] = w
LocalUserExists(dev, u) ==
    \/ u \in userDocs
    \/ \E k \in DOMAIN Queue(dev) : Pending(dev, k, CreateUser(u))
SetAfter(dev, k, u) ==
    \E j \in DOMAIN Queue(dev) : j > k /\ Pending(dev, j, CreateUser(u))
LocalDiaryList(dev, u) ==
    {d \in Diaries :
        \/ d \in userDiaryList[u] /\ ~SetAfter(dev, 0, u)
        \/ \E k \in DOMAIN Queue(dev) :
              /\ Pending(dev, k, ListDiary(u, d))
              /\ ~SetAfter(dev, k, u)
              /\ \/ u \in userDocs
                 \/ \E j \in 1..(k - 1) : Pending(dev, j, CreateUser(u))}

\* WriteLocally reaches the disk on Firestore's worker queue, after the call.
Persist(dev, o) ==
    /\ durable[dev][o] < Len(writes[dev][o])
    /\ durable' = [durable EXCEPT ![dev][o] = @ + 1]
    /\ UNCHANGED <<server, minted, auth, writes, known, ui, calls, bounds>>

\* What the backend does with a write: a set always succeeds, an update of a
\* missing document fails its precondition and the batch is dropped.
CreateUserOnServer(w) ==
    /\ userDocs' = userDocs \cup {w.user}
    /\ userDiaryList' = [userDiaryList EXCEPT ![w.user] = {}]
    /\ UNCHANGED <<diaryDocs, memberList, hasDiaryID>>
CreateDiaryOnServer(w) ==
    /\ diaryDocs' = diaryDocs \cup {w.diary}
    /\ memberList' = [memberList EXCEPT ![w.diary] = {w.user}]
    /\ hasDiaryID' = hasDiaryID \ {w.diary}
    /\ UNCHANGED <<userDocs, userDiaryList>>
SetDiaryIDOnServer(w) ==
    /\ hasDiaryID' = IF w.diary \in diaryDocs THEN hasDiaryID \cup {w.diary}
                                              ELSE hasDiaryID
    /\ UNCHANGED <<userDocs, userDiaryList, diaryDocs, memberList>>
AddMemberReplacing(w) ==   \* mutant: the field is set, not arrayUnion-ed
    /\ memberList' = IF w.diary \in diaryDocs
                     THEN [memberList EXCEPT ![w.diary] = {w.user}]
                     ELSE memberList
    /\ UNCHANGED <<userDocs, userDiaryList, diaryDocs, hasDiaryID>>
AddMemberOnServer(w) ==
    /\ memberList' = IF w.diary \in diaryDocs
                     THEN [memberList EXCEPT ![w.diary] = @ \cup {w.user}]
                     ELSE memberList
    /\ UNCHANGED <<userDocs, userDiaryList, diaryDocs, hasDiaryID>>
ListDiaryOnServer(w) ==
    /\ userDiaryList' = IF w.user \in userDocs
                        THEN [userDiaryList EXCEPT ![w.user] = @ \cup {w.diary}]
                        ELSE userDiaryList
    /\ UNCHANGED <<userDocs, diaryDocs, memberList, hasDiaryID>>

OnServer(w) ==
    \/ w.op = "createUser"  /\ CreateUserOnServer(w)
    \/ w.op = "createDiary" /\ CreateDiaryOnServer(w)
    \/ w.op = "setDiaryID"  /\ SetDiaryIDOnServer(w)
    \/ w.op = "addMember"   /\ AddMemberOnServer(w)
    \/ w.op = "listDiary"   /\ ListDiaryOnServer(w)

\* The write at the front of the pipeline reaches the server, is acknowledged
\* (or rejected) and leaves the queue.  A completion handler registered in this
\* process is put on the main queue; one of an earlier process is gone.
DeliverableUnpersisted(dev) == Queue(dev) # <<>>   \* mutant: sent before WriteLocally
Deliverable(dev) == durable[dev][auth[dev]] > 0
Commit(dev) ==
    /\ Running(dev)
    /\ Deliverable(dev)
    /\ LET w == Head(Queue(dev))
           accepted == auth[dev] \in Users \/ AnonymousWrites
       IN
       /\ IF accepted THEN OnServer(w) ELSE UNCHANGED server
       /\ known' = IF accepted /\ w.op = "createUser"
                   THEN [known EXCEPT ![dev] = @ \cup {w.user}]
                   ELSE known
       /\ completion' =
            IF w.op = "createDiary" /\ completion[dev][w.diary] = "awaiting"
            THEN [completion EXCEPT ![dev][w.diary] = "ready"]
            ELSE completion
    /\ writes' = [writes EXCEPT ![dev][auth[dev]] = Tail(@)]
    /\ durable' = [durable EXCEPT ![dev][auth[dev]] = @ - 1]
    /\ UNCHANGED <<minted, auth, ui, check, invites, bounds>>

-------------------------------------------------------------------------------
(***************************************************************************)
(* Session: IntroViewController and the log-out button.                    *)
(***************************************************************************)
\* The main queue is first-in first-out and signing in takes many turns of it:
\* a handler already queued runs before the account changes.
MainQueueDrained(dev) == \A d \in Diaries : completion[dev][d] # "ready"

\* A change of user restarts the watch stream: a read under way is asked again.
ReadsAskedAgain(dev) ==
    check' = [check EXCEPT ![dev] =
                [u \in Users |-> IF @[u] = "none" THEN "none" ELSE "asked"]]

SignIn(dev, u) ==
    /\ Running(dev) /\ screen[dev] = "intro" /\ auth[dev] = NoUser
    /\ MainQueueDrained(dev)
    /\ auth' = [auth EXCEPT ![dev] = u]
    /\ ReadsAskedAgain(dev)
    /\ UNCHANGED <<server, minted, disk, known, ui, completion, invites, bounds>>

\* The auth listener finds a user: it sets currentUID, asks for the user's
\* document and shows the main view without waiting for the answer.
Swipe(dev) ==
    /\ Running(dev) /\ screen[dev] = "intro" /\ auth[dev] \in Users
    /\ currentUID' = [currentUID EXCEPT ![dev] = auth[dev]]
    /\ check' = [check EXCEPT ![dev][auth[dev]] = "asked"]
    /\ screen' = [screen EXCEPT ![dev] = "main"]
    /\ UNCHANGED <<server, minted, auth, disk, known, proc, openDiary,
                   completion, invites, bounds>>

\* The server reads the document; its answer is on the way.
AnswerCheck(dev, u) ==
    /\ Running(dev) /\ check[dev][u] = "asked"
    /\ check' = [check EXCEPT ![dev][u] = IF u \in userDocs THEN "exists" ELSE "absent"]
    /\ UNCHANGED <<server, minted, auth, disk, known, ui, completion, invites, bounds>>

\* The handler runs, with the answer or, when the server could not be reached,
\* with what the cache has; a pending set makes the document exist either way.
\* Without a document, for whatever reason, it writes a new one with an empty
\* userDiaryList.
UserNotFound(dev, u) == check[dev][u] # "exists"   \* mutant: the test negated
UserFound(dev, u) ==
    \/ check[dev][u] = "exists" \/ u \in known[dev]
    \/ \E k \in DOMAIN Queue(dev) : Pending(dev, k, CreateUser(u))
FinishCheck(dev, u) ==
    /\ Running(dev) /\ check[dev][u] # "none"
    /\ Offline \/ check[dev][u] # "asked"
    /\ IF UserFound(dev, u) THEN UNCHANGED writes
                            ELSE Issue(dev, <<CreateUser(u)>>)
    /\ known' = IF check[dev][u] = "exists"
                THEN [known EXCEPT ![dev] = @ \cup {u}]
                ELSE known
    /\ check' = [check EXCEPT ![dev][u] = "none"]
    /\ UNCHANGED <<server, minted, auth, durable, ui, completion, invites, bounds>>

\* signOut may fail; the error is printed and the app goes on as logged out.
LogOut(dev) ==
    /\ Running(dev) /\ screen[dev] = "main" /\ logOuts < MaxLogOuts
    /\ \/ auth' = [auth EXCEPT ![dev] = NoUser] /\ ReadsAskedAgain(dev)
       \/ UNCHANGED <<auth, check>>
    /\ currentUID' = [currentUID EXCEPT ![dev] = NoUser]
    /\ screen' = [screen EXCEPT ![dev] = "intro"]
    /\ logOuts' = logOuts + 1
    /\ UNCHANGED <<server, minted, disk, known, proc, openDiary, completion,
                   invites, invited, kills>>

-------------------------------------------------------------------------------
(***************************************************************************)
(* MainVC.addDiary.                                                        *)
(***************************************************************************)
AddDiary(dev, d) ==
    /\ Running(dev) /\ screen[dev] = "main" /\ d \notin minted
    /\ minted' = minted \cup {d}
    /\ Issue(dev, <<CreateDiary(d, currentUID[dev])>>)
    /\ completion' = [completion EXCEPT ![dev][d] = "awaiting"]
    /\ UNCHANGED <<server, auth, durable, known, ui, check, invites, bounds>>

\* The completion handler writes the diaryID field, then lists the diary for
\* the user currentUID names by now.  With currentUID = "" the document path is
\* empty and document(_:) raises.
CreatorWritesListingFirst(dev, d) ==   \* mutant: the two writes swapped
    <<ListDiary(currentUID[dev], d), SetDiaryID(d)>>
CreatorWritesUnlisted(dev, d) ==       \* mutant: userDiaryList not updated
    <<SetDiaryID(d)>>
CreatorWrites(dev, d) ==
    <<SetDiaryID(d), ListDiary(currentUID[dev], d)>>
CompleteAddDiary(dev, d) ==
    /\ Running(dev) /\ completion[dev][d] = "ready"
    /\ completion' = [completion EXCEPT ![dev][d] = "none"]
    /\ \/ /\ currentUID[dev] # NoUser
          /\ Issue(dev, CreatorWrites(dev, d))
          /\ UNCHANGED proc
       \/ /\ currentUID[dev] = NoUser
          /\ Issue(dev, <<SetDiaryID(d)>>)
          /\ proc' = [proc EXCEPT ![dev] = "crashed"]
    /\ UNCHANGED <<server, minted, auth, durable, known, screen, currentUID,
                   openDiary, check, invites, bounds>>

-------------------------------------------------------------------------------
(***************************************************************************)
(* DiarySettingViewController: sharing a diary.                            *)
(***************************************************************************)
\* A diary of the carousel is opened: DailyView copies its id into
\* daily_currentDiaryID, from which the settings are reached.
OpenDiary(dev, d) ==
    /\ Running(dev) /\ screen[dev] = "main"
    /\ d \in LocalDiaryList(dev, currentUID[dev])
    /\ openDiary' = [openDiary EXCEPT ![dev] = d]
    /\ screen' = [screen EXCEPT ![dev] = "diary"]
    /\ UNCHANGED <<server, minted, auth, disk, known, proc, currentUID, calls,
                   bounds>>

CloseDiary(dev) ==
    /\ Running(dev) /\ screen[dev] = "diary"
    /\ screen' = [screen EXCEPT ![dev] = "main"]
    /\ UNCHANGED <<server, minted, auth, disk, known, proc, currentUID,
                   openDiary, calls, bounds>>

\* The member check runs over newMemberList, which fills while the members'
\* documents arrive: at the tap it may be any part of the list, none included.
TapAddUser(dev, friend) ==
    /\ Running(dev) /\ screen[dev] = "diary"
    /\ invited < MaxInvites
    /\ invited' = invited + 1
    /\ invites' = [invites EXCEPT ![dev] = @ \cup {friend}]
    /\ UNCHANGED <<server, minted, auth, disk, known, ui, check, completion,
                   kills, logOuts>>

\* addUser: two writes, to the diary daily_currentDiaryID names by now.
AddUserListingFirst(dev, targetID) ==   \* mutant: the two writes swapped
    Issue(dev, <<ListDiary(targetID, openDiary[dev]),
                 AddMember(openDiary[dev], targetID)>>)
AddUser(dev, targetID) ==
    Issue(dev, <<AddMember(openDiary[dev], targetID),
                 ListDiary(targetID, openDiary[dev])>>)

\* The friend's document is looked up; an error counts as "no such user".
AnswerInvite(dev, friend) ==
    /\ Running(dev) /\ friend \in invites[dev]
    /\ invites' = [invites EXCEPT ![dev] = @ \ {friend}]
    /\ \/ /\ LocalUserExists(dev, friend)
          /\ AddUser(dev, friend)
          /\ known' = IF friend \in userDocs
                      THEN [known EXCEPT ![dev] = @ \cup {friend}]
                      ELSE known
       \/ /\ Offline \/ ~LocalUserExists(dev, friend)
          /\ UNCHANGED <<writes, known>>
    /\ UNCHANGED <<server, minted, auth, durable, ui, check, completion, bounds>>

-------------------------------------------------------------------------------
(***************************************************************************)
(* The process: killed by the system at any moment, started again.  What   *)
(* was not persisted by then is lost, and so is every handler.             *)
(***************************************************************************)
Kill(dev) ==
    /\ Running(dev) /\ kills < MaxKills
    /\ proc' = [proc EXCEPT ![dev] = "killed"]
    /\ kills' = kills + 1
    /\ UNCHANGED <<server, minted, auth, disk, known, screen, currentUID,
                   openDiary, calls, invited, logOuts>>

HandlersKept(dev) == UNCHANGED completion   \* mutant: handlers restored with the queue
HandlersLost(dev) ==
    completion' = [completion EXCEPT ![dev] = [d \in Diaries |-> "none"]]
Restart(dev) ==
    /\ ~Running(dev)
    /\ proc' = [proc EXCEPT ![dev] = "running"]
    /\ writes' = [writes EXCEPT ![dev] =
                    [o \in Owners |-> SubSeq(@[o], 1, durable[dev][o])]]
    /\ screen' = [screen EXCEPT ![dev] = "intro"]
    /\ currentUID' = [currentUID EXCEPT ![dev] = NoUser]
    /\ openDiary' = [openDiary EXCEPT ![dev] = NoDiary]
    /\ check' = [check EXCEPT ![dev] = [u \in Users |-> "none"]]
    /\ HandlersLost(dev)
    /\ invites' = [invites EXCEPT ![dev] = {}]
    /\ UNCHANGED <<server, minted, auth, durable, known, bounds>>

-------------------------------------------------------------------------------
Library(dev) ==
    \/ \E o \in Owners : Persist(dev, o)
    \/ Commit(dev)
Handlers(dev) ==
    \/ \E u \in Users : AnswerCheck(dev, u) \/ FinishCheck(dev, u)
    \/ \E d \in Diaries : CompleteAddDiary(dev, d)
    \/ \E friend \in invites[dev] : AnswerInvite(dev, friend)
Person(dev) ==
    \/ \E u \in Users : SignIn(dev, u) \/ TapAddUser(dev, u)
    \/ Swipe(dev) \/ LogOut(dev) \/ CloseDiary(dev)
    \/ \E d \in Diaries : AddDiary(dev, d) \/ OpenDiary(dev, d)
Next == \E dev \in Devices :
            Library(dev) \/ Handlers(dev) \/ Person(dev) \/ Kill(dev) \/ Restart(dev)

Spec == Init /\ [][Next]_vars

\* A process that runs empties its queues: the worker persists what was issued,
\* the connected write stream delivers it, and the main queue runs its handlers.
Fairness ==
    \A dev \in Devices :
        /\ \A o \in Owners : WF_vars(Persist(dev, o))
        /\ WF_vars(Commit(dev))
        /\ WF_vars(Handlers(dev))
FairSpec == Spec /\ Fairness
-------------------------------------------------------------------------------
(***************************************************************************)
(* What the app owes its users.                                            *)
(***************************************************************************)
\* A diary in a user's userDiaryList names that user in its memberList: nobody
\* is shown a diary that does not know them.  It rests on the order of the two
\* writes of addUser, on the order the queue keeps across kills, and on
\* addDiary listing only after the diary document is acknowledged.
ListedImpliesMember ==
    \A u \in Users : \A d \in userDiaryList[u] : u \in memberList[d]

\* A listed diary carries its id: MainVC takes currentDairyId from the diaryID
\* field, which is "" until the second write of addDiary, and "" is no path.
\* After a log-out it may not: an invite answered then joins another account's
\* queue than the creator's writes.
ListedHasDiaryID ==
    logOuts = 0 => \A u \in Users : userDiaryList[u] \subseteq hasDiaryID

\* Nothing takes a diary out of a user's list: the app has no such operation,
\* and setData writes an empty list only for a user who has no document yet.
ListsNeverShrink ==
    [][\A u \in Users : userDiaryList[u] \subseteq userDiaryList'[u]]_vars

\* No handler of the app raises, unless somebody has logged out: the handler of
\* addDiary makes a path of currentUID, which is "" after a log-out and after a
\* launch, but a launch leaves no handler of the process before.
NeverCrashes ==
    \A dev \in Devices : proc[dev] = "crashed" => logOuts > 0

\* A member eventually has the diary in the list MainVC loads.
MembersSeeDiary ==
    \A d \in Diaries, u \in Users :
        u \in memberList[d] ~> d \in userDiaryList[u]

\* The promise, without queues, devices or processes.
Membership == INSTANCE Membership WITH
    granted <- {m \in Diaries \X Users : m[2] \in memberList[m[1]]},
    listed  <- {m \in Diaries \X Users : m[1] \in userDiaryList[m[2]]}
ImplementsMembership == Membership!Spec
-------------------------------------------------------------------------------
(***************************************************************************)
(* Why ListedImpliesMember holds: an inductive invariant.                  *)
(***************************************************************************)
\* Whose writes the server accepts.
Accepted(o) == o \in Users \/ AnonymousWrites

\* A diary without a document has no members.
FreshDiariesEmpty == \A d \in Diaries \ diaryDocs : memberList[d] = {}

\* Off the intro screen currentUID is the account Firestore writes for.
SessionMatches ==
    \A dev \in Devices :
        IF screen[dev] = "intro" THEN currentUID[dev] = NoUser
        ELSE currentUID[dev] = auth[dev] /\ auth[dev] \in Users

\* A creation under way is of a minted id without a document, sits in its
\* creator's queue, and is the only one of its id.
CreationsUnique ==
    /\ diaryDocs \subseteq minted
    /\ \A dev \in Devices, o \in Owners : \A k \in 1..Len(writes[dev][o]) :
         LET w == writes[dev][o][k] IN
         w.op = "createDiary" =>
           /\ w.diary \in minted \ diaryDocs
           /\ w.user = o /\ o \in Users
           /\ \A dev2 \in Devices, o2 \in Owners :
                \A j \in 1..Len(writes[dev2][o2]) :
                  (/\ writes[dev2][o2][j].op = "createDiary"
                   /\ writes[dev2][o2][j].diary = w.diary)
                     => dev2 = dev /\ o2 = o /\ j = k

\* Every update of a diary, and every listing of one, is of an existing diary.
UpdatesOfExisting ==
    \A dev \in Devices, o \in Owners : \A k \in 1..Len(writes[dev][o]) :
        writes[dev][o][k].op \in {"setDiaryID", "addMember", "listDiary"}
            => writes[dev][o][k].diary \in diaryDocs

\* So is the diary on screen, and the one a pending invite will go to.
OpenDiaryExists ==
    \A dev \in Devices :
        /\ openDiary[dev] \in diaryDocs \cup {NoDiary}
        /\ screen[dev] = "diary" \/ invites[dev] # {} => openDiary[dev] # NoDiary

\* A listing follows its membership in the same queue, unless it is on the
\* server already.
ListingsJustified ==
    \A dev \in Devices, o \in Owners : \A k \in 1..Len(writes[dev][o]) :
        LET w == writes[dev][o][k] IN
        w.op = "listDiary" /\ Accepted(o) =>
            \/ w.user \in memberList[w.diary]
            \/ \E j \in 1..(k - 1) :
                  /\ writes[dev][o][j].op = "addMember"
                  /\ writes[dev][o][j].user = w.user
                  /\ writes[dev][o][j].diary = w.diary

\* A completion handler waiting to run belongs to the account still signed in.
ReadyForCreator ==
    \A dev \in Devices, d \in Diaries :
        completion[dev][d] = "ready" =>
            d \in diaryDocs /\ auth[dev] \in memberList[d] \cup {NoUser}

IInv ==
    /\ TypeOK
    /\ FreshDiariesEmpty
    /\ SessionMatches
    /\ CreationsUnique
    /\ UpdatesOfExisting
    /\ OpenDiaryExists
    /\ ListingsJustified
    /\ ReadyForCreator
    /\ ListedImpliesMember

(***************************************************************************)
(* Why nothing raises and a listed diary has its id while nobody logs out: *)
(* one account's queue per phone, and handlers that run off the intro.     *)
(***************************************************************************)
\* A handler of addDiary waits on the main view or a screen above it.
HandlersOffIntro ==
    \A dev \in Devices :
        /\ proc[dev] # "crashed"
        /\ \A d \in Diaries : completion[dev][d] # "none" => screen[dev] # "intro"

\* The id of a diary is on the server, or on its way there before place k of
\* a queue.
IdBefore(dev, o, k, d) ==
    \/ d \in hasDiaryID
    \/ \E j \in 1..(k - 1) : writes[dev][o][j].op = "setDiaryID" /\ writes[dev][o][j].diary = d

\* It is before every listing of the diary.
ListingsHaveID ==
    \A dev \in Devices, o \in Owners : \A k \in 1..Len(writes[dev][o]) :
        writes[dev][o][k].op = "listDiary" /\ Accepted(o) =>
            IdBefore(dev, o, k, writes[dev][o][k].diary)

\* So it is for the diary an invite is or will be for.
OpenDiaryHasID ==
    \A dev \in Devices :
        openDiary[dev] # NoDiary =>
            /\ auth[dev] \in Users
            /\ IdBefore(dev, auth[dev], Len(writes[dev][auth[dev]]) + 1, openDiary[dev])

NoLogOutInv ==
    logOuts = 0 => /\ HandlersOffIntro
                   /\ ListedHasDiaryID
                   /\ ListingsHaveID
                   /\ OpenDiaryHasID

\* Why a list does not shrink when reads reach the server: a user with a
\* document is found, so no queue holds a set of that document.
FoundUsersKept ==
    \A u \in InitialUsers :
        /\ u \in userDocs
        /\ \A dev \in Devices :
              /\ check[dev][u] # "absent"
              /\ \A o \in Owners : \A k \in 1..Len(writes[dev][o]) :
                    writes[dev][o][k].op = "createUser" => writes[dev][o][k].user # u
===============================================================================
