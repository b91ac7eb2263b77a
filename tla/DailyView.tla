------------------------------- MODULE DailyView ------------------------------
(***************************************************************************)
(* The daily view of one diary on one phone, and the detail screen above   *)
(* it.  A day of the calendar or a member of the diary is tapped; a query  *)
(* goes out; its answer overwrites the globals currentContentData and      *)
(* currentContentID; a cover is downloaded; then the entry is shown.  Each *)
(* of these steps reads the globals of its own moment, and so does the     *)
(* detail screen when it shows, and deletes, "the" entry.                  *)
(***************************************************************************)
EXTENDS Naturals

CONSTANTS
    Members,       \* the diary's memberList
    Me,            \* currentUID
    Days, Today,
    NoEntry,       \* currentContentID = nil
    Untitled,      \* are there entries saved without a song?
    CoversFail,    \* may the download of a cover fail?
    OthersWrite,   \* do the other members write and delete meanwhile?
    Patient,       \* does a person wait until every answer has come?
    MaxAsked       \* bound: answers and downloads a hasty person leaves open

Keys == [member : Members, day : Days]
Entries == [author : Members, day : Days,
            titled : IF Untitled THEN BOOLEAN ELSE {TRUE}]

ASSUME MembersAssumption == Me \in Members /\ Today \in Days
ASSUME NoEntryAssumption == NoEntry \notin Entries
ASSUME FlagsAssumption == {Untitled, CoversFail, OthersWrite, Patient} \subseteq BOOLEAN
ASSUME BoundAssumption == MaxAsked \in Nat \ {0}

VARIABLES
    contents,          \* the entries of the diary
    \* globals
    currentContentData,
    currentContentID,
    untitled,          \* currentContentData.musicTitle = ""
    events,            \* days with a dot
    \* DailyViewController
    selectedDate,      \* of the calendar
    currentotherUserID,
    noDataLabel,       \* "no entry" is visible
    goDetailBtn,       \* an entry, and the button on it, is visible
    titleLabel,        \* whose text that is
    imageView,         \* whose cover
    lastAsked,         \* history: what getContentsListForDaily was last asked for
    found,             \* history: the entries the answer to that brought
    \* on the way
    queries,           \* answers of getContentsListForDaily, per key
    dotQueries,        \* answers of loadDateForCalendar, per member
    covers,            \* downloads, per entry; of NoEntry, about to read the URL
    \* DetailViewController
    screen,            \* "daily", "detail" or "crashed"
    deleteBtn,         \* is visible
    detailLabel        \* the entry shown

globals == <<currentContentData, currentContentID, untitled>>
labels  == <<noDataLabel, goDetailBtn, titleLabel, imageView>>
choice  == <<selectedDate, currentotherUserID, lastAsked, found>>
detail  == <<screen, deleteBtn, detailLabel>>
vars == <<contents, globals, events, labels, choice, queries, dotQueries, covers,
          detail>>

TypeOK ==
    /\ contents \subseteq Entries /\ found \subseteq Entries
    /\ {currentContentData, currentContentID, titleLabel, imageView, detailLabel}
         \subseteq Entries \cup {NoEntry}
    /\ {untitled, noDataLabel, goDetailBtn, deleteBtn} \subseteq BOOLEAN
    /\ events \subseteq Days
    /\ selectedDate \in Days /\ currentotherUserID \in Members
    /\ lastAsked \in Keys
    /\ queries \in [Keys -> Nat] /\ dotQueries \in [Members -> Nat]
    /\ covers \in [Entries \cup {NoEntry} -> Nat]
    /\ screen \in {"daily", "detail", "crashed"}

Key(m, d) == [member |-> m, day |-> d]
EntriesOf(k) == {e \in contents : e.author = k.member /\ e.day = k.day}

Idle ==
    /\ \A k \in Keys : queries[k] = 0
    /\ \A m \in Members : dotQueries[m] = 0
    /\ \A e \in Entries \cup {NoEntry} : covers[e] = 0
    /\ screen = "detail" => detailLabel # NoEntry
PersonActs ==
    IF Patient THEN Idle
    ELSE /\ \A k \in Keys : queries[k] < MaxAsked
         /\ \A m \in Members : dotQueries[m] < MaxAsked
         /\ \A e \in Entries \cup {NoEntry} : covers[e] < MaxAsked

\* The first viewWillAppear has just run; the globals are those of an earlier
\* visit, if there was one.
Init ==
    /\ contents \in SUBSET Entries
    /\ currentContentData \in Entries \cup {NoEntry}
    /\ currentContentID = currentContentData
    /\ untitled = TRUE
    /\ events \in SUBSET Days
    /\ selectedDate = Today /\ currentotherUserID = Me
    /\ noDataLabel = FALSE /\ goDetailBtn = FALSE
    /\ titleLabel = NoEntry /\ imageView = NoEntry
    /\ lastAsked = Key(Me, Today) /\ found = {}
    /\ queries = [k \in Keys |-> IF k = Key(Me, Today) THEN 1 ELSE 0]
    /\ dotQueries = [m \in Members |-> IF m = Me THEN 1 ELSE 0]
    /\ covers = [e \in Entries \cup {NoEntry} |-> 0]
    /\ screen = "daily" /\ deleteBtn = FALSE /\ detailLabel = NoEntry

-------------------------------------------------------------------------------
(***************************************************************************)
(* Queries.                                                                *)
(***************************************************************************)
\* The empty title stands for "no entry" until an answer brings one.
GetContentsKeepingTitle(k) ==   \* mutant: the title is not emptied
    /\ queries' = [queries EXCEPT ![k] = @ + 1]
    /\ lastAsked' = k /\ found' = {}
    /\ UNCHANGED untitled
GetContentsListForDaily(k) ==
    /\ queries' = [queries EXCEPT ![k] = @ + 1]
    /\ lastAsked' = k /\ found' = {}
    /\ untitled' = TRUE

LoadDateForCalendar(m) == dotQueries' = [dotQueries EXCEPT ![m] = @ + 1]

SetContent(e) ==
    /\ currentContentData' = e
    /\ currentContentID' = e
    /\ untitled' = ~e.titled

\* The answer goes into the globals; the title then decides what is shown.
AnswerQuery(k) ==
    /\ screen # "crashed" /\ queries[k] > 0
    /\ queries' = [queries EXCEPT ![k] = @ - 1]
    /\ IF EntriesOf(k) = {} THEN UNCHANGED globals
                            ELSE \E e \in EntriesOf(k) : SetContent(e)
    /\ \/ /\ untitled'
          /\ noDataLabel' = TRUE /\ goDetailBtn' = FALSE
          /\ UNCHANGED covers
       \/ /\ ~untitled'
          /\ covers' = [covers EXCEPT ![NoEntry] = @ + 1]
          /\ UNCHANGED <<noDataLabel, goDetailBtn>>
    /\ found' = IF k = lastAsked THEN EntriesOf(k) ELSE found
    /\ UNCHANGED <<contents, events, titleLabel, imageView, selectedDate,
                   currentotherUserID, lastAsked, dotQueries, detail>>

\* A background thread reads the URL of the content there is by now, and
\* downloads; then the label takes the text of the content there is by then.
\* The data of a download that has failed is unwrapped all the same.
StartCover ==
    /\ screen # "crashed" /\ covers[NoEntry] > 0
    /\ covers' = [covers EXCEPT ![NoEntry] = @ - 1, ![currentContentData] = @ + 1]
    /\ UNCHANGED <<contents, globals, events, labels, choice, queries, dotQueries,
                   detail>>
ShowCover(e) ==
    /\ screen # "crashed" /\ covers[e] > 0
    /\ covers' = [covers EXCEPT ![e] = @ - 1]
    /\ \/ /\ noDataLabel' = FALSE /\ goDetailBtn' = TRUE
          /\ titleLabel' = currentContentData /\ imageView' = e
          /\ UNCHANGED screen
       \/ CoversFail /\ screen' = "crashed" /\ UNCHANGED labels
    /\ UNCHANGED <<contents, globals, events, choice, queries, dotQueries,
                   deleteBtn, detailLabel>>

AnswerDotsRaw(m) ==   \* mutant: the entries, not the start of their days
    /\ dotQueries[m] > 0
    /\ dotQueries' = [dotQueries EXCEPT ![m] = @ - 1]
    /\ events' = {e \in contents : e.author = m}
    /\ UNCHANGED <<contents, globals, labels, choice, queries, covers, detail>>
AnswerDots(m) ==
    /\ screen # "crashed" /\ dotQueries[m] > 0
    /\ dotQueries' = [dotQueries EXCEPT ![m] = @ - 1]
    /\ events' = {d \in Days : EntriesOf(Key(m, d)) # {}}
    /\ UNCHANGED <<contents, globals, labels, choice, queries, covers, detail>>
-------------------------------------------------------------------------------
(***************************************************************************)
(* The person.                                                             *)
(***************************************************************************)
SelectDate(d) ==
    /\ screen = "daily" /\ PersonActs
    /\ selectedDate' = d
    /\ noDataLabel' = FALSE
    /\ GetContentsListForDaily(Key(currentotherUserID, d))
    /\ UNCHANGED <<contents, currentContentData, currentContentID, events,
                   goDetailBtn, titleLabel, imageView, currentotherUserID,
                   dotQueries, covers, detail>>

\* Another member: the calendar goes back to today.
SelectMember(m) ==
    /\ screen = "daily" /\ PersonActs
    /\ currentotherUserID' = m
    /\ selectedDate' = Today
    /\ GetContentsListForDaily(Key(m, Today))
    /\ LoadDateForCalendar(m)
    /\ UNCHANGED <<contents, currentContentData, currentContentID, events, labels,
                   covers, detail>>

\* viewDidLoad of the detail screen decides once whether the buttons show.
GoDetailUnhidden ==   \* mutant: the buttons are not hidden
    /\ screen = "daily" /\ PersonActs /\ goDetailBtn
    /\ screen' = "detail"
    /\ deleteBtn' = TRUE
    /\ detailLabel' = NoEntry
    /\ UNCHANGED <<contents, globals, events, labels, choice, queries, dotQueries,
                   covers>>
GoDetail ==
    /\ screen = "daily" /\ PersonActs /\ goDetailBtn
    /\ screen' = "detail"
    /\ deleteBtn' = (currentContentData.author = Me)
    /\ detailLabel' = NoEntry
    /\ UNCHANGED <<contents, globals, events, labels, choice, queries, dotQueries,
                   covers>>

\* Its cover has been downloaded: the labels take the content there is by then.
ShowDetail ==
    /\ screen = "detail" /\ detailLabel = NoEntry
    /\ \/ detailLabel' = currentContentData /\ UNCHANGED screen
       \/ CoversFail /\ screen' = "crashed" /\ UNCHANGED detailLabel
    /\ UNCHANGED <<contents, globals, events, labels, choice, queries, dotQueries,
                   covers, deleteBtn>>

\* The detail screen is dismissed and the daily view's viewWillAppear asks for
\* today, whatever day the calendar has selected.
Dismiss ==
    /\ screen' = "daily"
    /\ GetContentsListForDaily(Key(currentotherUserID, Today))
    /\ LoadDateForCalendar(currentotherUserID)
    /\ UNCHANGED <<currentContentData, currentContentID, events, labels,
                   selectedDate, currentotherUserID, covers, deleteBtn, detailLabel>>

GoBack ==
    /\ screen = "detail" /\ PersonActs
    /\ Dismiss
    /\ UNCHANGED contents

TapDelete ==
    /\ screen = "detail" /\ PersonActs /\ deleteBtn
    /\ contents' = contents \ {currentContentID}
    /\ Dismiss

\* Other members, on their phones.
OthersAct(e) ==
    /\ OthersWrite /\ e.author # Me /\ screen # "crashed"
    /\ contents' \in {contents \cup {e}, contents \ {e}}
    /\ UNCHANGED <<globals, events, labels, choice, queries, dotQueries, covers,
                   detail>>
-------------------------------------------------------------------------------
Answers ==
    \/ \E k \in Keys : AnswerQuery(k)
    \/ \E m \in Members : AnswerDots(m)
    \/ \E e \in Entries : ShowCover(e)
    \/ StartCover \/ ShowDetail
Person ==
    \/ \E d \in Days : SelectDate(d)
    \/ \E m \in Members : SelectMember(m)
    \/ GoDetail \/ GoBack \/ TapDelete
Next == Answers \/ Person \/ \E e \in Entries : OthersAct(e)

Spec == Init /\ [][Next]_vars
-------------------------------------------------------------------------------
Settled == Idle /\ screen = "daily"

\* Once every answer is there, the view shows an entry that the last question
\* has found, text and cover, and says "no entry" exactly when it found none.
ShowsLastAsked ==
    Settled =>
        IF found = {}
        THEN noDataLabel /\ ~goDetailBtn
        ELSE /\ goDetailBtn /\ ~noDataLabel
             /\ titleLabel \in found /\ imageView = titleLabel

\* Nobody deletes the entry of somebody else: the button is hidden on those.
DeletesOnlyOwn == [][TapDelete => \A e \in contents \ contents' : e.author = Me]_vars

\* What is deleted is the entry the screen shows, once it shows one.
DeletesEntryShown ==
    [][TapDelete /\ detailLabel # NoEntry => currentContentID = detailLabel]_vars
-------------------------------------------------------------------------------
(***************************************************************************)
(* Why they hold for a person who waits.                                   *)
(***************************************************************************)
\* There is a content as soon as a title, a download or the button is there.
ContentKnown ==
    /\ currentContentID = currentContentData
    /\ (~untitled \/ goDetailBtn) => currentContentData # NoEntry
    /\ (\E e \in Entries \cup {NoEntry} : covers[e] > 0) => currentContentData # NoEntry

\* No answer is under way on the detail screen, so the content its button was
\* made for is the one it shows and deletes.
DetailQuiet ==
    screen = "detail" =>
        /\ \A k \in Keys : queries[k] = 0
        /\ currentContentData # NoEntry
        /\ deleteBtn = (currentContentData.author = Me)
        /\ detailLabel \in {NoEntry, currentContentData}

\* The last question is asked, then its cover is loaded, then it is shown.
Asked(k) == queries = [j \in Keys |-> IF j = k THEN 1 ELSE 0]
NoneAsked == \A k \in Keys : queries[k] = 0
Loading(e) == covers = [c \in Entries \cup {NoEntry} |-> IF c = e THEN 1 ELSE 0]
NoneLoading == \A e \in Entries \cup {NoEntry} : covers[e] = 0

QuestionAsked == /\ Asked(lastAsked) /\ NoneLoading
                 /\ found = {} /\ untitled
CoverLoading  == /\ NoneAsked /\ currentContentData \in found
                 /\ Loading(NoEntry) \/ Loading(currentContentData)
AnswerShown   == /\ NoneAsked /\ NoneLoading
                 /\ IF found = {}
                    THEN noDataLabel /\ ~goDetailBtn
                    ELSE /\ goDetailBtn /\ ~noDataLabel
                         /\ titleLabel = currentContentData /\ imageView = titleLabel
                         /\ currentContentData \in found

OneQuestion ==
    screen # "crashed" => QuestionAsked \/ CoverLoading \/ AnswerShown
===============================================================================
