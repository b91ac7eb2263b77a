------------------------------ MODULE EntryEditor ------------------------------
(***************************************************************************)
(* Writing and editing the entries of one diary on one phone.  The drafts  *)
(* are globals: newContent of the write screen, made at its first access   *)
(* with the user and the moment of that access, and newCD of the edit      *)
(* screen, of which only the cover is ever saved.  They outlive their      *)
(* screens, the day and the account; answers on the way to a screen that   *)
(* was closed still write to them.                                         *)
(***************************************************************************)
EXTENDS Naturals, Sequences, FiniteSetsExt

CONSTANTS
    Users, NoUser,     \* currentUID = ""
    Songs, NoSong,     \* an empty title; no cover
    Placeholder,       \* the text the storyboard gives a label
    NoDraft,           \* newContent before its first access
    MaxDay,            \* bound: days
    MaxEntries,        \* bound: entries of the diary
    MaxAsked           \* bound: answers and downloads left open

ASSUME NamesAssumption ==
    NoUser \notin Users /\ {NoSong, Placeholder} \cap Songs = {}
ASSUME BoundsAssumption ==
    {MaxDay, MaxAsked} \subseteq Nat \ {0} /\ MaxEntries \in Nat

Days  == 1..MaxDay
Ids   == 1..MaxEntries
Entry == [author : Users \cup {NoUser}, day : Days,
          title : Songs \cup {NoSong, Placeholder}, cover : Songs \cup {NoSong}]
ASSUME NoDraftAssumption == NoDraft \notin Entry

VARIABLES
    now,
    contents,          \* the entries of the diary, in the order they were added
    \* globals
    currentUID,
    newContent,
    newCD,             \* newCD.musicCoverUrl
    currentContentID,  \* its place in contents
    \* the screen, and the write or edit screen's own state
    screen,            \* "intro", "main", "write", "edit" or "crashed"
    label,             \* the song whose title the labels show
    getMusic,          \* the song chosen on this screen
    opened,            \* history: the entry the edit screen was opened for
    \* on the way
    loading,           \* is the answer of this edit screen's presentData?
    covers,            \* downloads of a song chosen on this edit screen
    lateLoads,         \* answers of presentData to closed screens, per entry
    lateCovers,        \* downloads of closed edit screens, per song
    images,            \* downloads that only fill a picture
    slips              \* history: "hasty" once the person has acted while an
                       \* answer was on its way, "careless" once a song-less
                       \* entry was saved, "failed" once a download has failed

globals == <<currentUID, newContent, newCD, currentContentID>>
view    == <<screen, label, getMusic, opened>>
asked   == <<loading, covers, lateLoads, lateCovers, images>>
vars    == <<now, contents, globals, view, asked, slips>>

TypeOK ==
    /\ now \in Days
    /\ contents \in Seq(Entry) /\ Len(contents) <= MaxEntries
    /\ currentUID \in Users \cup {NoUser}
    /\ newContent \in Entry \cup {NoDraft}
    /\ newCD \in Songs \cup {NoSong}
    /\ currentContentID \in 0..MaxEntries /\ opened \in 0..MaxEntries
    /\ screen \in {"intro", "main", "write", "edit", "crashed"}
    /\ label \in Songs \cup {NoSong, Placeholder}
    /\ getMusic \in Songs \cup {NoSong}
    /\ loading \in BOOLEAN /\ covers \in Nat /\ images \in Nat
    /\ lateLoads \in [Ids -> Nat] /\ lateCovers \in [Songs -> Nat]
    /\ slips \subseteq {"hasty", "careless", "failed"}

Init ==
    /\ now = 1
    /\ contents = <<>>
    /\ currentUID = NoUser /\ currentContentID = 0
    /\ newContent = NoDraft /\ newCD = NoSong
    /\ screen = "intro" /\ label = Placeholder /\ getMusic = NoSong /\ opened = 0
    /\ loading = FALSE /\ covers = 0 /\ images = 0
    /\ lateLoads = [i \in Ids |-> 0] /\ lateCovers = [s \in Songs |-> 0]
    /\ slips = {}

-------------------------------------------------------------------------------
\* How many answers and downloads are on their way.
Outstanding ==
    covers + images + (IF loading THEN 1 ELSE 0)
    + MapThenSumSet(LAMBDA i : lateLoads[i], Ids)
    + MapThenSumSet(LAMBDA s : lateCovers[s], Songs)
Idle ==
    /\ covers = 0 /\ images = 0 /\ ~loading
    /\ \A i \in Ids : lateLoads[i] = 0
    /\ \A s \in Songs : lateCovers[s] = 0

PersonTaps(careful) ==
    /\ Outstanding < MaxAsked
    /\ slips' = slips \cup (IF Idle THEN {} ELSE {"hasty"})
                     \cup (IF careful THEN {} ELSE {"careless"})
PersonActs == PersonTaps(TRUE)

\* A Swift global is made at its first access, and keeps what it was made with.
DraftOfToday ==   \* mutant: made anew at each access
    [author |-> currentUID, day |-> now, title |-> NoSong, cover |-> NoSong]
Draft ==
    IF newContent # NoDraft THEN newContent
    ELSE [author |-> currentUID, day |-> now, title |-> NoSong, cover |-> NoSong]

\* A screen is closed.  What is on the way to it still comes, and a download
\* will find the song that was chosen last.
Close ==
    /\ screen' = "main"
    /\ loading' = FALSE /\ covers' = 0
    /\ lateLoads' = [i \in Ids |->
         lateLoads[i] + IF loading /\ i = opened THEN 1 ELSE 0]
    /\ lateCovers' = [s \in Songs |->
         lateCovers[s] + IF s = getMusic THEN covers ELSE 0]
    /\ UNCHANGED <<now, currentUID, newCD, currentContentID, label, getMusic,
                   opened, images>>

-------------------------------------------------------------------------------
(***************************************************************************)
(* The write screen.                                                       *)
(***************************************************************************)
WrittenToday ==
    \E i \in DOMAIN contents :
        contents[i].author = currentUID /\ contents[i].day = now

\* The button of the main screen, hidden once today's entry is written.
OpenWrite ==
    /\ screen = "main" /\ PersonActs
    /\ ~WrittenToday
    /\ screen' = "write"
    /\ label' = Placeholder /\ getMusic' = NoSong
    /\ UNCHANGED <<now, contents, globals, opened, asked>>

\* sendData, called by the search screen.
ChooseForWriteTitleOnly(s) ==   \* mutant: the cover of the draft stays
    /\ screen = "write" /\ PersonActs
    /\ getMusic' = s /\ label' = s
    /\ newContent' = [Draft EXCEPT !.title = s]
    /\ images' = images + 1
    /\ UNCHANGED <<now, contents, currentUID, newCD, currentContentID, screen,
                   opened, loading, covers, lateLoads, lateCovers>>
ChooseForWrite(s) ==
    /\ screen = "write" /\ PersonActs
    /\ getMusic' = s /\ label' = s
    /\ newContent' = [Draft EXCEPT !.title = s, !.cover = s]
    /\ images' = images + 1
    /\ UNCHANGED <<now, contents, currentUID, newCD, currentContentID, screen,
                   opened, loading, covers, lateLoads, lateCovers>>

TapSaveWrite ==
    /\ screen = "write" /\ PersonTaps(getMusic # NoSong)
    /\ Len(contents) < MaxEntries
    /\ contents' = Append(contents, Draft)
    /\ newContent' = Draft
    /\ Close

-------------------------------------------------------------------------------
(***************************************************************************)
(* The edit screen.                                                        *)
(***************************************************************************)
\* From the detail screen of an entry that is shown, so one with a title, and
\* whose author is the user: the button is hidden on others.  Its viewDidLoad
\* asks for the entry.
OpenEdit(i) ==
    /\ screen = "main" /\ PersonActs
    /\ contents[i].author = currentUID /\ contents[i].title # NoSong
    /\ currentContentID' = i /\ opened' = i
    /\ screen' = "edit"
    /\ label' = Placeholder /\ getMusic' = NoSong
    /\ loading' = TRUE
    /\ UNCHANGED <<now, contents, currentUID, newContent, newCD, covers, lateLoads,
                   lateCovers, images>>

\* The answer of presentData: the draft of the write screen gets its cover too.
PresentDataUncovered(i) ==   \* mutant: the cover is not kept
    /\ newContent' = [Draft EXCEPT !.cover = contents[i].cover]
    /\ images' = images + 1
    /\ UNCHANGED newCD
PresentData(i) ==
    /\ newContent' = [Draft EXCEPT !.cover = contents[i].cover]
    /\ newCD' = contents[i].cover
    /\ images' = images + 1
AnswerLoad ==
    /\ screen = "edit" /\ loading
    /\ loading' = FALSE
    /\ PresentData(opened)
    /\ label' = contents[opened].title
    /\ UNCHANGED <<now, contents, currentUID, currentContentID, screen, getMusic,
                   opened, covers, lateLoads, lateCovers, slips>>
AnswerLateLoad(i) ==
    /\ screen # "crashed" /\ lateLoads[i] > 0
    /\ lateLoads' = [lateLoads EXCEPT ![i] = @ - 1]
    /\ PresentData(i)
    /\ UNCHANGED <<now, contents, currentUID, currentContentID, view, loading,
                   covers, lateCovers, slips>>

\* sendData: the labels and the cover follow once the cover is downloaded.
ChooseForEdit(s) ==
    /\ screen = "edit" /\ PersonActs
    /\ getMusic' = s
    /\ covers' = covers + 1
    /\ UNCHANGED <<now, contents, globals, screen, label, opened, loading,
                   lateLoads, lateCovers, images>>
ShowChoiceUncovered ==   \* mutant: newCD is forgotten
    /\ screen = "edit" /\ covers > 0
    /\ covers' = covers - 1
    /\ label' = getMusic
    /\ UNCHANGED <<now, contents, globals, screen, getMusic, opened, loading,
                   lateLoads, lateCovers, images, slips>>
ShowChoice ==
    /\ screen = "edit" /\ covers > 0
    /\ covers' = covers - 1
    /\ label' = getMusic /\ newCD' = getMusic
    /\ UNCHANGED <<now, contents, currentUID, newContent, currentContentID, screen,
                   getMusic, opened, loading, lateLoads, lateCovers, images, slips>>
ShowLateChoice(s) ==
    /\ screen # "crashed" /\ lateCovers[s] > 0
    /\ lateCovers' = [lateCovers EXCEPT ![s] = @ - 1]
    /\ newCD' = s
    /\ UNCHANGED <<now, contents, currentUID, newContent, currentContentID, view,
                   loading, covers, lateLoads, images, slips>>

\* updateData: author and date stay, the cover must be there.
TapSaveEdit ==
    /\ screen = "edit" /\ PersonActs
    /\ \/ /\ newCD # NoSong
          /\ contents' = [contents EXCEPT
               ![currentContentID].title = label, ![currentContentID].cover = newCD]
          /\ Close
       \/ /\ newCD = NoSong
          /\ screen' = "crashed"
          /\ UNCHANGED <<now, contents, currentUID, newCD, currentContentID, label,
                         getMusic, opened, asked>>
    /\ UNCHANGED newContent

\* "back" of either screen.
GoBack ==
    /\ screen \in {"write", "edit"} /\ PersonActs
    /\ Close
    /\ UNCHANGED <<contents, newContent>>

-------------------------------------------------------------------------------
\* A picture is there.
ShowImageTwice ==   \* mutant: the completion runs once too often
    /\ screen # "crashed"
    /\ images' = images - 1
    /\ UNCHANGED <<now, contents, globals, view, loading, covers, lateLoads,
                   lateCovers, slips>>
ShowImage ==
    /\ screen # "crashed" /\ images > 0
    /\ images' = images - 1
    /\ UNCHANGED <<now, contents, globals, view, loading, covers, lateLoads,
                   lateCovers, slips>>

\* The data of any download that failed is unwrapped all the same.
CoverFails ==
    /\ screen # "crashed"
    /\ images + covers > 0 \/ \E s \in Songs : lateCovers[s] > 0
    /\ screen' = "crashed" /\ slips' = slips \cup {"failed"}
    /\ UNCHANGED <<now, contents, globals, label, getMusic, opened, asked>>

\* The daily view below the edit screen, which a hasty person opened without
\* waiting, gets a late answer, for an entry of another day or another member.
DailyViewAnswered(i) ==
    /\ screen = "edit"
    /\ currentContentID' = i
    /\ slips' = slips \cup {"hasty"}
    /\ UNCHANGED <<now, contents, currentUID, newContent, newCD, view, asked>>

SignIn(u) ==
    /\ screen = "intro" /\ PersonActs
    /\ currentUID' = u
    /\ screen' = "main"
    /\ UNCHANGED <<now, contents, newContent, newCD, currentContentID, label,
                   getMusic, opened, asked>>

LogOut ==
    /\ screen = "main" /\ PersonActs
    /\ currentUID' = NoUser
    /\ screen' = "intro"
    /\ UNCHANGED <<now, contents, newContent, newCD, currentContentID, label,
                   getMusic, opened, asked>>

\* The process ends, and starts anew: only what is in Firestore remains.
Relaunch ==
    /\ screen' = "intro"
    /\ currentUID' = NoUser /\ newContent' = NoDraft /\ newCD' = NoSong
    /\ currentContentID' = 0 /\ opened' = 0
    /\ label' = Placeholder /\ getMusic' = NoSong
    /\ loading' = FALSE /\ covers' = 0 /\ images' = 0
    /\ lateLoads' = [i \in Ids |-> 0] /\ lateCovers' = [s \in Songs |-> 0]
    /\ UNCHANGED <<now, contents, slips>>

DayPasses ==
    /\ now < MaxDay
    /\ now' = now + 1
    /\ UNCHANGED <<contents, globals, view, asked, slips>>
-------------------------------------------------------------------------------
Answers ==
    \/ AnswerLoad \/ ShowChoice \/ ShowImage \/ CoverFails
    \/ \E i \in Ids : AnswerLateLoad(i)
    \/ \E s \in Songs : ShowLateChoice(s)
Person ==
    \/ OpenWrite \/ TapSaveWrite \/ TapSaveEdit \/ GoBack \/ LogOut
    \/ \E s \in Songs : ChooseForWrite(s) \/ ChooseForEdit(s)
    \/ \E i \in DOMAIN contents : OpenEdit(i)
    \/ \E u \in Users : SignIn(u)
Next ==
    \/ Answers \/ Person \/ Relaunch \/ DayPasses
    \/ \E i \in DOMAIN contents : DailyViewAnswered(i)

Spec == Init /\ [][Next]_vars
-------------------------------------------------------------------------------
Patient == "hasty" \notin slips
Careful == "careless" \notin slips

\* The title and the cover of an entry are of one song, unless a person was
\* hasty or careless.
SongWhole ==
    Patient /\ Careful =>
        \A i \in DOMAIN contents : contents[i].title = contents[i].cover

\* What a person who is neither hasty nor careless saves on the write screen is
\* the song chosen on it.
SavesChoice ==
    [][TapSaveWrite /\ (Patient /\ Careful)' =>
          LET saved == contents'[Len(contents')]
          IN  saved.title = getMusic /\ saved.cover = getMusic]_vars

\* Once every answer is there the edit screen shows, and would save, the song
\* chosen on it, and before a choice the one of the entry.
EditShowsChoice ==
    screen = "edit" /\ Idle /\ Patient /\ Careful =>
        LET song == IF getMusic = NoSong THEN contents[opened].title ELSE getMusic
        IN  label = song /\ newCD = song

\* An entry is saved for the user who is signed in.
SavedForUser ==
    [][TapSaveWrite => contents'[Len(contents')].author = currentUID]_vars

\* No handler unwraps what is not there: while downloads succeed, a person who
\* waits for the answers never sees the app crash.
NeverCrashes == slips \subseteq {"careless"} => screen # "crashed"
-------------------------------------------------------------------------------
(***************************************************************************)
(* The inductive invariant of the proofs.                                  *)
(***************************************************************************)
Covered(i) == i \in DOMAIN contents /\ contents[i].cover # NoSong

\* Only entries with a cover are asked for, and entries are never removed.
AskedCovered ==
    /\ screen = "edit" => currentContentID \in DOMAIN contents /\ Covered(opened)
    /\ \A i \in Ids : lateLoads[i] > 0 => Covered(i)

\* What has a title has a cover; the converse fails for a careless person.
TitledCovered ==
    /\ \A i \in DOMAIN contents : contents[i].title # NoSong => Covered(i)
    /\ newContent # NoDraft /\ newContent.title # NoSong => newContent.cover # NoSong

\* Only the edit screen asks; newCD is there once it has its answer.
EditLoaded ==
    /\ screen \in {"intro", "main", "write"} => ~loading /\ covers = 0
    /\ screen = "edit" =>
         (covers > 0 => getMusic # NoSong) /\ (~loading => newCD # NoSong)

\* A person who waits leaves nothing on the way to a closed screen.
NothingLate ==
    Patient => /\ \A i \in Ids : lateLoads[i] = 0
               /\ \A s \in Songs : lateCovers[s] = 0

\* So the draft is what was chosen on the write screen, ...
DraftIsChoice ==
    Patient /\ screen = "write" /\ getMusic # NoSong =>
        /\ newContent # NoDraft
        /\ newContent.title = getMusic /\ newContent.cover = getMusic

\* ... and the edit screen shows the entry, the choice, or is about to.
EditedSong == IF getMusic = NoSong THEN contents[opened].title ELSE getMusic
EditFollows ==
    Patient /\ Careful /\ screen = "edit" =>
        /\ loading => getMusic = NoSong /\ covers = 0
        /\ ~loading /\ covers = 0 => label = EditedSong /\ newCD = EditedSong

IInv ==
    /\ TypeOK /\ AskedCovered /\ TitledCovered /\ EditLoaded /\ NeverCrashes
    /\ NothingLate /\ DraftIsChoice /\ SongWhole /\ EditFollows
===============================================================================
