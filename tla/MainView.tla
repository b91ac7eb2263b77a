------------------------------- MODULE MainView -------------------------------
(***************************************************************************)
(* The main screen of one phone with one account signed in: a carousel of  *)
(* the user's diaries, the global currentDairyId that is meant to name the *)
(* card in the centre, and a write button that hides once today's entry is *)
(* written.  The screen is filled by answers that arrive one by one, in    *)
(* any order, and to a screen that may have been reset meanwhile.          *)
(***************************************************************************)
EXTENDS Naturals, SequencesExt

CONSTANTS
    Diaries,          \* diaries, numbered by their date
    NoDiary,          \* currentDairyId = ""
    InitialDiaries,   \* the user's diaries at the start
    Offline,          \* may a getDocument miss the server?
    InOrder,          \* do hideWrite queries get their answers in order?
    MaxHaste,         \* bound: how often a person acts without waiting
    MaxAsked,         \* bound: answers of a kind such a person leaves open
    MaxEntries        \* bound: entries of today in a diary

ASSUME DiariesAssumption ==
    /\ Diaries \subseteq Nat /\ NoDiary \notin Diaries
    /\ InitialDiaries \subseteq Diaries
ASSUME BoundsAssumption ==
    MaxAsked \in Nat \ {0} /\ {MaxHaste, MaxEntries} \subseteq Nat
ASSUME FlagsAssumption == {Offline, InOrder} \subseteq BOOLEAN

VARIABLES
    \* Firestore, as this phone sees it
    listed,          \* the user's userDiaryList
    adding,          \* diaries whose addDocument awaits its completion handler
    written,         \* today's entries by the user in each diary
    cached,          \* diaries whose document the local cache holds
    \* MainVC
    diaryData, getDiaryList,
    cards,           \* diaryData at the carousel's last reloadData
    centre,          \* index of the card in the centre, 0 in an empty carousel
    writeHidden,     \* writeBtn.isHidden
    \* globals
    currentDairyId,
    target,          \* the diary WriteView or DailyView copied from it
    \* answers on the way
    userAsked,       \* how many of the user's document
    diaryAsked,      \* how many of each diary's document
    hideAsked,       \* of hideWrite's query, in the order asked
    screen,          \* "main", "write", "daily" or "crashed"
    hasty            \* history: how often the person acted while an answer was
                     \* on its way

firestore == <<listed, adding, written, cached>>
carousel  == <<cards, centre>>
asked     == <<userAsked, diaryAsked, hideAsked>>
vars == <<firestore, diaryData, getDiaryList, carousel, writeHidden,
          currentDairyId, target, asked, screen, hasty>>

TypeOK ==
    /\ {listed, adding, cached, getDiaryList} \subseteq SUBSET Diaries
    /\ written \in [Diaries -> 0..MaxEntries]
    /\ diaryData \in Seq(Diaries) /\ cards \in Seq(Diaries)
    /\ centre \in 0..Len(cards)
    /\ writeHidden \in BOOLEAN
    /\ currentDairyId \in Diaries \cup {NoDiary}
    /\ target \in Diaries \cup {NoDiary}
    /\ userAsked \in Nat
    /\ diaryAsked \in [Diaries -> Nat]
    /\ hideAsked \in Seq(Diaries)
    /\ screen \in {"main", "write", "daily", "crashed"}
    /\ hasty \in 0..MaxHaste

\* The first viewWillAppear has just run.
Init ==
    /\ listed = InitialDiaries /\ adding = {} /\ cached = {}
    /\ written \in [Diaries -> 0..MaxEntries]
    /\ \A d \in Diaries : written[d] <= IF d \in InitialDiaries THEN 1 ELSE 0
    /\ diaryData = <<>> /\ getDiaryList = {}
    /\ cards = <<>> /\ centre = 0
    /\ writeHidden = FALSE
    /\ currentDairyId = NoDiary /\ target = NoDiary
    /\ userAsked = 1
    /\ diaryAsked = [d \in Diaries |-> 0] /\ hideAsked = <<>>
    /\ screen = "main" /\ hasty = 0

-------------------------------------------------------------------------------
Elements(s) == {s[i] : i \in DOMAIN s}
InsertByDate(s, d) ==   \* append and sort; s is sorted
    InsertAt(s, Cardinality({i \in DOMAIN s : s[i] <= d}) + 1, d)

Idle ==
    /\ adding = {} /\ userAsked = 0 /\ hideAsked = <<>>
    /\ \A d \in Diaries : diaryAsked[d] = 0
PersonActs ==
    /\ userAsked < MaxAsked /\ Len(hideAsked) < MaxAsked
    /\ \A d \in Diaries : diaryAsked[d] < MaxAsked
    /\ \/ Idle /\ UNCHANGED hasty
       \/ ~Idle /\ hasty < MaxHaste /\ hasty' = hasty + 1

-------------------------------------------------------------------------------
(***************************************************************************)
(* loadDiaryData and its answers.                                          *)
(***************************************************************************)
LoadOntoOld ==   \* mutant: diaryData is not emptied
    userAsked' = userAsked + 1 /\ UNCHANGED diaryData
LoadDiaryData == userAsked' = userAsked + 1 /\ diaryData' = <<>>

\* viewWillAppear: load, and reload the carousel, which is empty by now.
Appear ==
    /\ LoadDiaryData
    /\ cards' = <<>> /\ centre' = 0
    /\ screen' = "main"

\* The user's document, which the log-in has put in the cache: one request for
\* each diary of its list.
AnswerUser ==
    /\ screen # "crashed" /\ userAsked > 0
    /\ userAsked' = userAsked - 1
    /\ getDiaryList' = listed
    /\ diaryAsked' =
         [d \in Diaries |-> diaryAsked[d] + IF d \in listed THEN 1 ELSE 0]
    /\ UNCHANGED <<firestore, diaryData, carousel, writeHidden, currentDairyId,
                   target, hideAsked, screen, hasty>>

\* hideWrite asks for today's entries of the diary currentDairyId names.
HideWriteNever(d) == UNCHANGED hideAsked   \* mutant: the query is forgotten
HideWrite(d) == hideAsked' = Append(hideAsked, d)

\* reloadData keeps the scroll position; a shorter carousel is scrolled back.
ReloadUnclamped(data) ==   \* mutant: the scroll position is kept regardless
    /\ cards' = data
    /\ centre' = IF centre = 0 THEN 1 ELSE centre
Reload(data) ==
    /\ cards' = data
    /\ centre' = IF centre = 0 THEN 1
                 ELSE IF centre > Len(data) THEN Len(data) ELSE centre

\* The end of the answer for a diary, whether or not it brought one: the first
\* diary is selected; there may be none.
SelectFirst(data) ==
    \/ /\ data # <<>>
       /\ diaryData' = data
       /\ currentDairyId' = data[1]
       /\ HideWrite(data[1])
       /\ Reload(data)
       /\ UNCHANGED screen
    \/ /\ data = <<>>
       /\ screen' = "crashed"
       /\ UNCHANGED <<diaryData, currentDairyId, hideAsked, carousel>>
ShowDiary(d) == SelectFirst(InsertByDate(diaryData, d))
AnswerDiary(d) ==
    /\ screen # "crashed" /\ diaryAsked[d] > 0
    /\ diaryAsked' = [diaryAsked EXCEPT ![d] = @ - 1]
    /\ \/ ShowDiary(d) /\ cached' = cached \cup {d}
       \/ Offline /\ d \notin cached /\ SelectFirst(diaryData) /\ UNCHANGED cached
    /\ UNCHANGED <<listed, adding, written, getDiaryList, writeHidden, target,
                   userAsked, hasty>>

AnswerHideWrite(k) ==
    /\ screen # "crashed" /\ k \in DOMAIN hideAsked
    /\ InOrder => k = 1
    /\ hideAsked' = RemoveAt(hideAsked, k)
    /\ writeHidden' = (written[hideAsked[k]] > 0)
    /\ UNCHANGED <<firestore, diaryData, getDiaryList, carousel, currentDairyId,
                   target, userAsked, diaryAsked, screen, hasty>>
-------------------------------------------------------------------------------
(***************************************************************************)
(* The person.                                                             *)
(***************************************************************************)
\* scrollViewDidScroll: the card in the centre is looked up in diaryData, which
\* may be shorter than the carousel.
SelectCardNever(i) == UNCHANGED <<currentDairyId, hideAsked>>   \* mutant
SelectCard(i) ==
    /\ currentDairyId' = diaryData[i]
    /\ HideWrite(diaryData[i])
Scroll(i) ==
    /\ screen = "main" /\ PersonActs
    /\ i \in 1..Len(cards) /\ (i = centre + 1 \/ i + 1 = centre)
    /\ centre' = i
    /\ \/ /\ i <= Len(diaryData)
          /\ SelectCard(i)
          /\ UNCHANGED screen
       \/ /\ i > Len(diaryData)
          /\ screen' = "crashed"
          /\ UNCHANGED <<currentDairyId, hideAsked>>
    /\ UNCHANGED <<firestore, diaryData, getDiaryList, cards, writeHidden, target,
                   userAsked, diaryAsked>>

\* WriteViewController copies currentDairyId when it is made.
MoveToWrite ==
    /\ screen = "main" /\ PersonActs
    /\ ~writeHidden
    /\ target' = currentDairyId
    /\ screen' = "write"
    /\ UNCHANGED <<firestore, diaryData, getDiaryList, carousel, writeHidden,
                   currentDairyId, asked>>

\* With an empty id the collection's path has an empty segment and raises.
TapSave ==
    /\ screen = "write"
    /\ \/ /\ target # NoDiary /\ written[target] < MaxEntries
          /\ written' = [written EXCEPT ![target] = @ + 1]
          /\ Appear
       \/ /\ target = NoDiary
          /\ screen' = "crashed"
          /\ UNCHANGED <<written, diaryData, userAsked, carousel>>
    /\ UNCHANGED <<listed, adding, cached, getDiaryList, writeHidden,
                   currentDairyId, target, diaryAsked, hideAsked, hasty>>

\* A card is tapped, whichever: DailyView opens the diary currentDairyId names,
\* and again each time it reappears from the detail screen.
OpenCard ==
    /\ screen = "main" /\ PersonActs /\ cards # <<>>
    /\ target' = currentDairyId
    /\ screen' = "daily"
    /\ UNCHANGED <<firestore, diaryData, getDiaryList, carousel, writeHidden,
                   currentDairyId, asked>>
ReappearDaily ==
    /\ screen = "daily"
    /\ target' = currentDairyId
    /\ UNCHANGED <<firestore, diaryData, getDiaryList, carousel, writeHidden,
                   currentDairyId, asked, screen, hasty>>

\* "back" of WriteView or of DailyView; the bound is on a hasty person's loads.
GoBack ==
    /\ screen \in {"write", "daily"}
    /\ userAsked < MaxAsked
    /\ Appear
    /\ UNCHANGED <<firestore, getDiaryList, writeHidden, currentDairyId, target,
                   diaryAsked, hideAsked, hasty>>

\* The new diary has the latest date; its handler lists it and loads again, but
\* does not reload the carousel.
AddDiary(d) ==
    /\ screen = "main" /\ PersonActs
    /\ \A e \in listed \cup adding : e < d
    /\ adding' = adding \cup {d}
    /\ UNCHANGED <<listed, written, cached, diaryData, getDiaryList, carousel,
                   writeHidden, currentDairyId, target, asked, screen>>
CompleteAddDiaryUnloaded(d) ==   \* mutant: loadDiaryData is not called
    /\ screen # "crashed" /\ d \in adding
    /\ adding' = adding \ {d}
    /\ listed' = listed \cup {d} /\ cached' = cached \cup {d}
    /\ UNCHANGED <<written, getDiaryList, carousel, writeHidden, currentDairyId,
                   target, asked, diaryData, screen, hasty>>
CompleteAddDiaryEmptied(d) ==   \* mutant: the list is emptied, the user not asked for
    /\ screen # "crashed" /\ d \in adding
    /\ adding' = adding \ {d}
    /\ listed' = listed \cup {d} /\ cached' = cached \cup {d}
    /\ diaryData' = <<>>
    /\ UNCHANGED <<written, getDiaryList, carousel, writeHidden, currentDairyId,
                   target, asked, screen, hasty>>
CompleteAddDiary(d) ==
    /\ screen # "crashed" /\ d \in adding
    /\ adding' = adding \ {d}
    /\ listed' = listed \cup {d} /\ cached' = cached \cup {d}
    /\ LoadDiaryData
    /\ UNCHANGED <<written, getDiaryList, carousel, writeHidden, currentDairyId,
                   target, diaryAsked, hideAsked, screen, hasty>>

\* A friend shares a diary of any date with the user.
FriendShares(d) ==
    /\ screen # "crashed" /\ d \notin listed \cup adding
    /\ listed' = listed \cup {d}
    /\ UNCHANGED <<adding, written, cached, diaryData, getDiaryList, carousel,
                   writeHidden, currentDairyId, target, asked, screen, hasty>>
-------------------------------------------------------------------------------
Answers ==
    \/ AnswerUser
    \/ \E d \in Diaries : AnswerDiary(d) \/ CompleteAddDiary(d)
    \/ \E k \in DOMAIN hideAsked : AnswerHideWrite(k)
Person ==
    \/ \E i \in DOMAIN cards : Scroll(i)
    \/ MoveToWrite \/ TapSave \/ OpenCard \/ ReappearDaily \/ GoBack
    \/ \E d \in Diaries : AddDiary(d)
Next == Answers \/ Person \/ \E d \in Diaries : FriendShares(d)

Spec == Init /\ [][Next]_vars

\* Firestore answers, and the main queue runs the handlers, whatever the person
\* does meanwhile.
Fairness ==
    /\ WF_vars(AnswerUser)
    /\ \A d \in Diaries : WF_vars(AnswerDiary(d)) /\ WF_vars(CompleteAddDiary(d))
    /\ WF_vars(\E k \in DOMAIN hideAsked : AnswerHideWrite(k))
FairSpec == Spec /\ Fairness
-------------------------------------------------------------------------------
Settled == Idle /\ screen = "main"

\* Once every answer is there, and the person waited for each, the cards are
\* diaries of the list that was read, each once and in the order of their dates;
\* only those that can miss the server are left out.
CardsAreTheList ==
    Settled /\ hasty = 0 =>
        /\ cards = diaryData
        /\ Elements(cards) \subseteq getDiaryList
        /\ Offline \/ Elements(cards) = getDiaryList
        /\ \A i, j \in DOMAIN cards : i < j => cards[i] < cards[j]

\* Then too currentDairyId is the card in the centre: it is what the write
\* screen, the daily view and the settings will work on.
SelectionIsCentre ==
    Settled /\ hasty = 0 /\ cards # <<>> => currentDairyId = cards[centre]

\* Once every answer is there the write button is hidden exactly when the
\* selected diary has an entry of today.
WriteHiddenOnceWritten ==
    Settled /\ currentDairyId # NoDiary =>
        writeHidden = (written[currentDairyId] > 0)

\* Once every answer is there no gesture on the main screen raises: the card that
\* scrollViewDidScroll looks up is in diaryData, even after loads that overlapped.
SettledNeverRaises == [][Settled => screen' # "crashed"]_vars

\* A diary added reaches the carousel's data, whatever the person does meanwhile.
AddedDiaryShown ==
    \A d \in Diaries : d \in adding ~> d \in Elements(diaryData) \/ screen = "crashed"
-------------------------------------------------------------------------------
(***************************************************************************)
(* The inductive invariants of the proofs.                                 *)
(***************************************************************************)
DiariesToCome ==
    (\E d \in Diaries : diaryAsked[d] > 0) \/ (userAsked > 0 /\ listed # {})

\* Whatever has been shown or asked for was listed, and diaries stay listed.
ListedFirst ==
    diaryData # <<>> \/ currentDairyId # NoDiary \/ (\E d \in Diaries : diaryAsked[d] > 0)
        => listed # {}

\* The cards are the data, or old ones that an answer to come will replace.
CardsFollow ==
    screen # "crashed" =>
        /\ diaryData # <<>> => cards = diaryData
        /\ cards # <<>> => centre # 0 /\ (diaryData # <<>> \/ DiariesToCome)

\* The last question of hideWrite is about the selected diary; once all are
\* answered only a diary to come, that will be asked about, changes the answer.
HideFollows ==
    screen # "crashed" /\ currentDairyId # NoDiary =>
        \/ hideAsked # <<>> /\ hideAsked[Len(hideAsked)] = currentDairyId
        \/ hideAsked = <<>> /\ writeHidden = (written[currentDairyId] > 0)
        \/ hideAsked = <<>> /\ DiariesToCome

\* One thing at a time, for a person who waits: nothing while on another screen; a
\* diary being added; then the user's document; then those of its diaries, each
\* once and none shown before.
AwayQuiet == screen # "main" => Idle
AddingAlone ==
    adding # {} => /\ userAsked = 0 /\ hideAsked = <<>>
                   /\ \A d \in Diaries : diaryAsked[d] = 0
                   /\ \A d, e \in adding : d = e
UserAskedAlone ==
    userAsked > 0 => /\ userAsked = 1 /\ diaryData = <<>>
                     /\ \A d \in Diaries : diaryAsked[d] = 0
AskedOnce ==
    \A d \in Diaries : diaryAsked[d] > 0 =>
        diaryAsked[d] = 1 /\ d \in getDiaryList \ Elements(diaryData)
DataListed ==
    /\ Elements(diaryData) \subseteq getDiaryList
    /\ Offline \/ userAsked > 0 \/
          \A d \in getDiaryList : diaryAsked[d] > 0 \/ d \in Elements(diaryData)
Sorted(s) == \A i, j \in DOMAIN s : i < j => s[i] < s[j]
OneLoad ==
    screen # "crashed" /\ hasty = 0 =>
        /\ AwayQuiet /\ AddingAlone /\ UserAskedAlone /\ AskedOnce /\ DataListed
        /\ Sorted(diaryData)

\* Until all diaries are there the first card stays in the centre.
CentreSelected ==
    screen # "crashed" /\ hasty = 0 /\ diaryData # <<>> =>
        /\ centre \in DOMAIN cards /\ currentDairyId = cards[centre]
        /\ (\E d \in Diaries : diaryAsked[d] > 0) => centre = 1
===============================================================================
