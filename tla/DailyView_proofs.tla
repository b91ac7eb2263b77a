--------------------------- MODULE DailyView_proofs ---------------------------
(***************************************************************************)
(* Proofs about DailyView: its types, and what a person who waits for      *)
(* every answer may rely on.                                               *)
(***************************************************************************)
EXTENDS DailyView, TLAPS

-------------------------------------------------------------------------------
(***************************************************************************)
(* Type correctness.                                                       *)
(***************************************************************************)
(* What an entry is.                                                       *)
LEMMA EntryFields ==
  ASSUME NEW e \in Entries
  PROVE  e.author \in Members /\ e.day \in Days /\ e.titled \in BOOLEAN
  BY DEF Entries

(* A question about a member and a day is one of the keys.                 *)
LEMMA KeysTyped ==
  ASSUME NEW m \in Members, NEW d \in Days
  PROVE  Key(m, d) \in Keys /\ Key(m, d).member = m /\ Key(m, d).day = d
  BY DEF Key, Keys

(* A question keeps the types of what it changes.                          *)
LEMMA AskTyped ==
  ASSUME queries \in [Keys -> Nat], NEW k \in Keys, GetContentsListForDaily(k)
  PROVE  /\ queries' \in [Keys -> Nat] /\ lastAsked' \in Keys
         /\ found' = {} /\ untitled' = TRUE
  BY DEF GetContentsListForDaily

LEMMA DotsAskTyped ==
  ASSUME dotQueries \in [Members -> Nat], NEW m \in Members, LoadDateForCalendar(m)
  PROVE  dotQueries' \in [Members -> Nat]
  BY DEF LoadDateForCalendar

LEMMA InitTypeOK == Init => TypeOK
<1> SUFFICES ASSUME Init PROVE TypeOK
  OBVIOUS
<1>1. Key(Me, Today) \in Keys /\ Me \in Members /\ Today \in Days
  BY MembersAssumption, KeysTyped
<1> QED BY <1>1 DEF Init, TypeOK

LEMMA AnswerQueryTyped ==
  ASSUME TypeOK, NEW k \in Keys, AnswerQuery(k)
  PROVE  TypeOK'
<1>1. queries' \in [Keys -> Nat]
  <2>1. queries[k] \in Nat /\ queries[k] > 0
    BY DEF TypeOK, AnswerQuery
  <2> QED BY <2>1 DEF TypeOK, AnswerQuery
<1>2. /\ {currentContentData', currentContentID'} \subseteq Entries \cup {NoEntry}
      /\ untitled' \in BOOLEAN
  <2>1. CASE UNCHANGED globals
    BY <2>1 DEF globals, TypeOK
  <2>2. ASSUME NEW e \in EntriesOf(k), SetContent(e)
        PROVE  /\ {currentContentData', currentContentID'} \subseteq Entries \cup {NoEntry}
               /\ untitled' \in BOOLEAN
    <3>1. e \in Entries
      BY DEF EntriesOf, TypeOK
    <3> QED BY <2>2, <3>1, EntryFields DEF SetContent
  <2> QED BY <2>1, <2>2 DEF AnswerQuery
<1>3. /\ {noDataLabel', goDetailBtn'} \subseteq BOOLEAN
      /\ covers' \in [Entries \cup {NoEntry} -> Nat]
  <2>1. CASE noDataLabel' = TRUE /\ goDetailBtn' = FALSE /\ UNCHANGED covers
    BY <2>1 DEF TypeOK
  <2>2. CASE /\ covers' = [covers EXCEPT ![NoEntry] = @ + 1]
             /\ UNCHANGED <<noDataLabel, goDetailBtn>>
    BY <2>2 DEF TypeOK
  <2> QED BY <2>1, <2>2 DEF AnswerQuery
<1>4. found' \subseteq Entries
  BY DEF AnswerQuery, TypeOK, EntriesOf
<1> QED BY <1>1, <1>2, <1>3, <1>4 DEF AnswerQuery, TypeOK, detail

LEMMA StartCoverTyped ==
  ASSUME TypeOK, StartCover
  PROVE  TypeOK'
<1>1. covers' \in [Entries \cup {NoEntry} -> Nat]
  <2>1. covers \in [Entries \cup {NoEntry} -> Nat] /\ covers[NoEntry] \in Nat /\ covers[NoEntry] > 0
    BY DEF TypeOK, StartCover
  <2>2. covers' = [covers EXCEPT ![NoEntry] = @ - 1, ![currentContentData] = @ + 1]
    BY DEF StartCover
  <2>3. currentContentData \in Entries \cup {NoEntry}
    BY DEF TypeOK
  <2>4. CASE currentContentData = NoEntry
    <3>1. covers' = [covers EXCEPT ![NoEntry] = covers[NoEntry]]
      BY <2>1, <2>2, <2>4
    <3> QED BY <2>1, <3>1
  <2>5. CASE currentContentData # NoEntry
    <3>1. covers' = [c \in Entries \cup {NoEntry} |->
                       IF c = currentContentData THEN covers[c] + 1
                       ELSE IF c = NoEntry THEN covers[c] - 1 ELSE covers[c]]
      BY <2>1, <2>2, <2>3, <2>5
    <3> QED BY <2>1, <3>1
  <2> QED BY <2>4, <2>5
<1> QED BY <1>1 DEF StartCover, TypeOK, globals, labels, choice, detail

LEMMA ShowCoverTyped ==
  ASSUME TypeOK, NEW e \in Entries, ShowCover(e)
  PROVE  TypeOK'
<1>1. covers' \in [Entries \cup {NoEntry} -> Nat]
  <2>1. covers[e] \in Nat /\ covers[e] > 0
    BY DEF TypeOK, ShowCover
  <2> QED BY <2>1 DEF TypeOK, ShowCover
<1>2. CASE UNCHANGED screen /\ noDataLabel' = FALSE /\ goDetailBtn' = TRUE
           /\ titleLabel' = currentContentData /\ imageView' = e
  BY <1>1, <1>2 DEF ShowCover, TypeOK, globals, choice
<1>3. CASE screen' = "crashed" /\ UNCHANGED labels
  BY <1>1, <1>3 DEF ShowCover, TypeOK, globals, choice, labels
<1> QED BY <1>2, <1>3 DEF ShowCover

LEMMA AnswersTyped ==
  ASSUME TypeOK, Answers
  PROVE  TypeOK'
<1>1. ASSUME NEW m \in Members, AnswerDots(m) PROVE TypeOK'
  <2>1. dotQueries[m] \in Nat /\ dotQueries[m] > 0
    BY <1>1 DEF TypeOK, AnswerDots
  <2> QED BY <1>1, <2>1 DEF AnswerDots, TypeOK, globals, labels, choice, detail
<1>2. CASE ShowDetail
  BY <1>2 DEF ShowDetail, TypeOK, globals, labels, choice
<1> QED BY <1>1, <1>2, AnswerQueryTyped, StartCoverTyped, ShowCoverTyped DEF Answers

LEMMA DismissTyped ==
  ASSUME TypeOK, Dismiss, contents' \subseteq contents
  PROVE  TypeOK'
<1>1. Key(currentotherUserID, Today) \in Keys /\ currentotherUserID \in Members
  BY MembersAssumption, KeysTyped DEF TypeOK
<1>2. /\ queries' \in [Keys -> Nat] /\ lastAsked' \in Keys
      /\ found' = {} /\ untitled' = TRUE
      /\ dotQueries' \in [Members -> Nat]
  BY <1>1, AskTyped, DotsAskTyped DEF Dismiss, TypeOK
<1> QED BY <1>2 DEF Dismiss, TypeOK, labels

LEMMA PersonTyped ==
  ASSUME TypeOK, Person
  PROVE  TypeOK'
<1>1. ASSUME NEW d \in Days, SelectDate(d) PROVE TypeOK'
  <2>1. Key(currentotherUserID, d) \in Keys
    BY KeysTyped DEF TypeOK
  <2>2. /\ queries' \in [Keys -> Nat] /\ lastAsked' \in Keys
        /\ found' = {} /\ untitled' = TRUE
    BY <1>1, <2>1, AskTyped DEF SelectDate, TypeOK
  <2> QED BY <1>1, <2>2 DEF SelectDate, TypeOK, detail
<1>2. ASSUME NEW m \in Members, SelectMember(m) PROVE TypeOK'
  <2>1. Key(m, Today) \in Keys
    BY MembersAssumption, KeysTyped
  <2>2. /\ queries' \in [Keys -> Nat] /\ lastAsked' \in Keys
        /\ found' = {} /\ untitled' = TRUE
        /\ dotQueries' \in [Members -> Nat]
    BY <1>2, <2>1, AskTyped, DotsAskTyped DEF SelectMember, TypeOK
  <2> QED BY <1>2, <2>2, MembersAssumption DEF SelectMember, TypeOK, detail, labels
<1>3. CASE GoDetail
  BY <1>3 DEF GoDetail, TypeOK, globals, labels, choice
<1>4. CASE GoBack
  BY <1>4, DismissTyped DEF GoBack
<1>5. CASE TapDelete
  BY <1>5, DismissTyped DEF TapDelete
<1> QED BY <1>1, <1>2, <1>3, <1>4, <1>5 DEF Person

LEMMA NextTypeOK == TypeOK /\ [Next]_vars => TypeOK'
<1> SUFFICES ASSUME TypeOK, [Next]_vars PROVE TypeOK'
  OBVIOUS
<1>1. ASSUME NEW e \in Entries, OthersAct(e) PROVE TypeOK'
  BY <1>1 DEF OthersAct, TypeOK, globals, labels, choice, detail
<1>2. CASE UNCHANGED vars
  BY <1>2 DEF vars, TypeOK, globals, labels, choice, detail
<1> QED BY <1>1, <1>2, AnswersTyped, PersonTyped DEF Next

(* Every variable keeps its type, hasty person or not: no answer is taken  *)
(* that is not under way, and the button says whose entry it is for.       *)
THEOREM SpecImpliesTypeOK == Spec => []TypeOK
<1> QED BY InitTypeOK, NextTypeOK, PTL DEF Spec

-------------------------------------------------------------------------------
(***************************************************************************)
(* The globals, the downloads and the button agree that there is a content.*)
(***************************************************************************)
LEMMA AnswersKeepContent ==
  ASSUME TypeOK, ContentKnown, Answers
  PROVE  ContentKnown'
<1> DEFINE Wanted == (~untitled \/ goDetailBtn) \/ (\E e \in Entries \cup {NoEntry} : covers[e] > 0)
<1>1. /\ currentContentID = currentContentData
      /\ Wanted => currentContentData # NoEntry
  BY DEF ContentKnown
<1>2. ASSUME NEW k \in Keys, AnswerQuery(k) PROVE ContentKnown'
  <2>1. ASSUME NEW e \in EntriesOf(k), SetContent(e) PROVE ContentKnown'
    <3>1. e \in Entries
      BY DEF EntriesOf, TypeOK
    <3> QED BY <2>1, <3>1, NoEntryAssumption DEF SetContent, ContentKnown
  <2>2. CASE UNCHANGED globals
    <3>1. untitled' = untitled /\ currentContentData' = currentContentData
          /\ currentContentID' = currentContentID
      BY <2>2 DEF globals
    <3>2. CASE untitled /\ goDetailBtn' = FALSE /\ UNCHANGED covers
      BY <1>1, <3>1, <3>2 DEF ContentKnown
    <3>3. CASE ~untitled
      BY <1>1, <3>1, <3>3 DEF ContentKnown
    <3> QED BY <1>2, <3>1, <3>2, <3>3 DEF AnswerQuery
  <2> QED BY <1>2, <2>1, <2>2 DEF AnswerQuery
<1>3. CASE StartCover
  <2>1. covers[NoEntry] > 0 /\ UNCHANGED <<currentContentData, currentContentID>>
    BY <1>3 DEF StartCover, globals
  <2>2. currentContentData # NoEntry
    BY <1>1, <2>1
  <2> QED BY <1>1, <2>1, <2>2 DEF ContentKnown
<1>4. ASSUME NEW e \in Entries, ShowCover(e) PROVE ContentKnown'
  <2>1. covers[e] > 0 /\ UNCHANGED <<currentContentData, currentContentID>>
    BY <1>4 DEF ShowCover, globals
  <2>2. currentContentData # NoEntry
    BY <1>1, <2>1
  <2> QED BY <1>1, <2>1, <2>2 DEF ContentKnown
<1>5. CASE UNCHANGED <<globals, goDetailBtn, covers>>
  BY <1>5 DEF ContentKnown, globals
<1>6. ASSUME NEW m \in Members, AnswerDots(m) PROVE ContentKnown'
  BY <1>5, <1>6 DEF AnswerDots, labels
<1>7. CASE ShowDetail
  BY <1>5, <1>7 DEF ShowDetail, labels
<1> QED BY <1>2, <1>3, <1>4, <1>6, <1>7 DEF Answers

LEMMA NextContentKnown == TypeOK /\ ContentKnown /\ [Next]_vars => ContentKnown'
<1> SUFFICES ASSUME TypeOK, ContentKnown, [Next]_vars PROVE ContentKnown'
  OBVIOUS
<1>1. CASE /\ UNCHANGED <<currentContentData, currentContentID, goDetailBtn, covers>>
           /\ untitled' = TRUE \/ UNCHANGED untitled
  BY <1>1 DEF ContentKnown
<1>2. CASE Person
  <2>1. CASE Dismiss
    BY <1>1, <2>1 DEF Dismiss, GetContentsListForDaily, labels
  <2>2. ASSUME NEW d \in Days, SelectDate(d) PROVE ContentKnown'
    BY <1>1, <2>2 DEF SelectDate, GetContentsListForDaily
  <2>3. ASSUME NEW m \in Members, SelectMember(m) PROVE ContentKnown'
    BY <1>1, <2>3 DEF SelectMember, GetContentsListForDaily, labels
  <2>4. CASE GoDetail
    BY <1>1, <2>4 DEF GoDetail, globals, labels
  <2> QED BY <1>2, <2>1, <2>2, <2>3, <2>4 DEF Person, GoBack, TapDelete
<1>3. ASSUME NEW e \in Entries, OthersAct(e) PROVE ContentKnown'
  BY <1>1, <1>3 DEF OthersAct, globals, labels
<1>4. CASE UNCHANGED vars
  BY <1>1, <1>4 DEF vars, globals, labels
<1> QED BY <1>2, <1>3, <1>4, AnswersKeepContent DEF Next

THEOREM SpecImpliesContentKnown == Spec => []ContentKnown
<1>1. Init => ContentKnown
  BY DEF Init, ContentKnown
<1> QED BY <1>1, NextContentKnown, SpecImpliesTypeOK, PTL DEF Spec

-------------------------------------------------------------------------------
(***************************************************************************)
(* The detail screen of a person who waits.                                *)
(***************************************************************************)
LEMMA NextDetailQuiet ==
  ASSUME Patient, TypeOK, ContentKnown, DetailQuiet, [Next]_vars
  PROVE  DetailQuiet'
<1> USE DEF DetailQuiet
<1>1. CASE UNCHANGED <<queries, currentContentData, detail>>
  BY <1>1 DEF detail
<1>2. CASE screen' # "detail"
  BY <1>2
<1>3. ASSUME NEW k \in Keys, AnswerQuery(k) PROVE DetailQuiet'
  <2>1. screen # "detail" /\ UNCHANGED screen
    <3>1. queries[k] # 0
      BY <1>3 DEF AnswerQuery, TypeOK
    <3> QED BY <1>3, <3>1 DEF AnswerQuery, detail
  <2> QED BY <1>2, <2>1
<1>4. ASSUME NEW m \in Members, AnswerDots(m) PROVE DetailQuiet'
  BY <1>1, <1>4 DEF AnswerDots, globals
<1>5. ASSUME NEW e \in Entries, ShowCover(e) PROVE DetailQuiet'
  <2>1. UNCHANGED <<queries, currentContentData, deleteBtn, detailLabel>>
        /\ (UNCHANGED screen \/ screen' = "crashed")
    BY <1>5 DEF ShowCover, globals
  <2> QED BY <2>1
<1>6. CASE StartCover
  BY <1>1, <1>6 DEF StartCover, globals
<1>7. CASE ShowDetail
  <2>1. /\ UNCHANGED <<queries, currentContentData, deleteBtn>> /\ screen = "detail"
        /\ detailLabel' = currentContentData \/ screen' = "crashed"
    BY <1>7 DEF ShowDetail, globals
  <2> QED BY <2>1
<1>8. ASSUME NEW d \in Days, SelectDate(d) PROVE DetailQuiet'
  BY <1>2, <1>8 DEF SelectDate, detail
<1>9. ASSUME NEW m \in Members, SelectMember(m) PROVE DetailQuiet'
  BY <1>2, <1>9 DEF SelectMember, detail
<1>10. CASE GoDetail
  <2>1. /\ UNCHANGED <<queries, currentContentData>> /\ goDetailBtn
        /\ deleteBtn' = (currentContentData.author = Me) /\ detailLabel' = NoEntry
        /\ \A k \in Keys : queries[k] = 0
    BY <1>10 DEF GoDetail, globals, PersonActs, Idle
  <2>2. currentContentData # NoEntry
    BY <2>1 DEF ContentKnown
  <2> QED BY <2>1, <2>2
<1>11. CASE GoBack \/ TapDelete
  BY <1>2, <1>11 DEF GoBack, TapDelete, Dismiss
<1>12. ASSUME NEW e \in Entries, OthersAct(e) PROVE DetailQuiet'
  BY <1>1, <1>12 DEF OthersAct, globals
<1>13. CASE UNCHANGED vars
  BY <1>1, <1>13 DEF vars, globals
<1>14. CASE Answers
  BY <1>3, <1>4, <1>5, <1>6, <1>7, <1>14 DEF Answers
<1>15. CASE Person
  BY <1>8, <1>9, <1>10, <1>11, <1>15 DEF Person
<1> QED BY <1>12, <1>13, <1>14, <1>15 DEF Next

LEMMA DetailStaysQuiet ==
  ASSUME Patient
  PROVE  Spec => []DetailQuiet
<1>1. Init => DetailQuiet
  BY DEF Init, DetailQuiet
<1>2. TypeOK /\ ContentKnown /\ DetailQuiet /\ [Next]_vars => DetailQuiet'
  BY NextDetailQuiet
<1> QED BY <1>1, <1>2, SpecImpliesTypeOK, SpecImpliesContentKnown, PTL DEF Spec

(* Whoever waits for the answers deletes entries of their own only: the    *)
(* button hidden when the screen opened is still the one of the content    *)
(* that the tap finds in the globals.                                      *)
THEOREM PatientDeletesOnlyOwn ==
  ASSUME Patient
  PROVE  Spec => DeletesOnlyOwn
<1>1. ContentKnown /\ DetailQuiet /\ [Next]_vars
        => [TapDelete => \A e \in contents \ contents' : e.author = Me]_vars
  <2> SUFFICES ASSUME ContentKnown, DetailQuiet, TapDelete, NEW e \in contents \ contents'
               PROVE  e.author = Me
    OBVIOUS
  <2>1. e = currentContentID /\ deleteBtn /\ screen = "detail"
    BY DEF TapDelete
  <2> QED BY <2>1 DEF DetailQuiet, ContentKnown
<1> QED BY <1>1, DetailStaysQuiet, SpecImpliesContentKnown, PTL DEF Spec, DeletesOnlyOwn

(* ... and it is the entry the screen shows.                               *)
THEOREM PatientDeletesEntryShown ==
  ASSUME Patient
  PROVE  Spec => DeletesEntryShown
<1>1. ContentKnown /\ DetailQuiet /\ [Next]_vars
        => [TapDelete /\ detailLabel # NoEntry => currentContentID = detailLabel]_vars
  <2> SUFFICES ASSUME ContentKnown, DetailQuiet, TapDelete, detailLabel # NoEntry
               PROVE  currentContentID = detailLabel
    OBVIOUS
  <2> QED BY DEF TapDelete, DetailQuiet, ContentKnown
<1> QED BY <1>1, DetailStaysQuiet, SpecImpliesContentKnown, PTL DEF Spec, DeletesEntryShown

-------------------------------------------------------------------------------
(***************************************************************************)
(* One question at a time.                                                 *)
(***************************************************************************)
(* Of counters that are all zero, the one that is raised becomes one.      *)
LEMMA FirstOne ==
  ASSUME NEW S, NEW k \in S, NEW f, f = [x \in S |-> 0]
  PROVE  [f EXCEPT ![k] = @ + 1] = [x \in S |-> IF x = k THEN 1 ELSE 0]
OBVIOUS

(* The only counter that is one is passed on.                              *)
LEMMA MoveOne ==
  ASSUME NEW S, NEW j \in S, NEW k \in S, j # k,
         NEW f, f = [x \in S |-> IF x = j THEN 1 ELSE 0]
  PROVE  [f EXCEPT ![j] = @ - 1, ![k] = @ + 1] = [x \in S |-> IF x = k THEN 1 ELSE 0]
<1>1. /\ DOMAIN f = S /\ f[j] = 1 /\ f[k] = 0 /\ f[j] - 1 = 0 /\ f[k] + 1 = 1
      /\ \A x \in S : x # j => f[x] = 0
  OBVIOUS
<1>2. [f EXCEPT ![j] = @ - 1, ![k] = @ + 1]
        = [x \in S |-> IF x = k THEN f[k] + 1 ELSE IF x = j THEN f[j] - 1 ELSE f[x]]
  BY <1>1
<1>3. \A x \in S : (IF x = k THEN f[k] + 1 ELSE IF x = j THEN f[j] - 1 ELSE f[x])
                    = (IF x = k THEN 1 ELSE 0)
  BY <1>1
<1> QED BY <1>2, <1>3

(* A question asked when nothing is under way is the only one.             *)
LEMMA AskedAlone ==
  ASSUME TypeOK, Idle, NEW k \in Keys, GetContentsListForDaily(k), UNCHANGED covers
  PROVE  QuestionAsked'
<1>1. queries' = [j \in Keys |-> IF j = k THEN 1 ELSE 0]
  <2>1. queries \in [Keys -> Nat] /\ \A j \in Keys : queries[j] = 0
    BY DEF TypeOK, Idle
  <2>2. queries = [j \in Keys |-> 0]
    BY <2>1
  <2>3. [queries EXCEPT ![k] = @ + 1] = [j \in Keys |-> IF j = k THEN 1 ELSE 0]
    BY <2>2, FirstOne
  <2> QED BY <2>3 DEF GetContentsListForDaily
<1>2. lastAsked' = k /\ found' = {} /\ untitled' = TRUE
  BY DEF GetContentsListForDaily
<1>3. \A e \in Entries \cup {NoEntry} : covers'[e] = 0
  BY DEF Idle
<1> QED BY <1>1, <1>2, <1>3 DEF QuestionAsked, Asked, NoneLoading

(* Only the answer to the last question can come; it shows or loads.       *)
LEMMA AnswerQueryOneQuestion ==
  ASSUME ~Untitled, TypeOK, OneQuestion, NEW k \in Keys, AnswerQuery(k)
  PROVE  OneQuestion'
<1>1. queries[k] # 0 /\ screen # "crashed"
  BY DEF AnswerQuery, TypeOK
<1>2. QuestionAsked
  BY <1>1 DEF OneQuestion, CoverLoading, AnswerShown, NoneAsked
<1>3. k = lastAsked /\ queries = [j \in Keys |-> IF j = k THEN 1 ELSE 0]
  BY <1>1, <1>2 DEF QuestionAsked, Asked
<1>4. NoneAsked'
  BY <1>3 DEF AnswerQuery, NoneAsked
<1>5. found' = EntriesOf(k)
  BY <1>3 DEF AnswerQuery
<1>6. untitled = TRUE /\ \A e \in Entries \cup {NoEntry} : covers[e] = 0
  BY <1>2 DEF QuestionAsked, NoneLoading, TypeOK
<1>7. CASE EntriesOf(k) = {}
  <2>1. untitled' = TRUE
    BY <1>6, <1>7 DEF AnswerQuery, globals
  <2>2. noDataLabel' = TRUE /\ goDetailBtn' = FALSE /\ UNCHANGED covers
    BY <2>1 DEF AnswerQuery
  <2>3. AnswerShown'
    BY <1>4, <1>5, <1>6, <1>7, <2>2 DEF AnswerShown, NoneLoading
  <2> QED BY <2>3 DEF OneQuestion
<1>8. CASE EntriesOf(k) # {}
  <2>1. PICK e \in EntriesOf(k) : SetContent(e)
    BY <1>8 DEF AnswerQuery
  <2>2. e \in Entries
    BY DEF EntriesOf, TypeOK
  <2>3. e.titled = TRUE
    BY <2>2 DEF Entries
  <2>4. untitled' = FALSE /\ currentContentData' = e
    BY <2>1, <2>3 DEF SetContent
  <2>5. covers' = [covers EXCEPT ![NoEntry] = @ + 1]
    BY <2>4 DEF AnswerQuery
  <2>6. covers' = [c \in Entries \cup {NoEntry} |-> IF c = NoEntry THEN 1 ELSE 0]
    <3>1. covers \in [Entries \cup {NoEntry} -> Nat]
      BY DEF TypeOK
    <3> DEFINE S == Entries \cup {NoEntry}
    <3>2. covers = [c \in S |-> 0] /\ NoEntry \in S
      BY <1>6, <3>1
    <3> HIDE DEF S
    <3>3. [covers EXCEPT ![NoEntry] = @ + 1] = [c \in S |-> IF c = NoEntry THEN 1 ELSE 0]
      BY <3>2, FirstOne
    <3> QED BY <2>5, <3>3 DEF S
  <2>7. CoverLoading'
    BY <1>4, <1>5, <2>4, <2>6 DEF CoverLoading, Loading
  <2> QED BY <2>7 DEF OneQuestion
<1> QED BY <1>7, <1>8

LEMMA StartCoverOneQuestion ==
  ASSUME TypeOK, ContentKnown, OneQuestion, StartCover
  PROVE  OneQuestion'
<1>1. covers[NoEntry] # 0 /\ screen # "crashed" /\ covers[NoEntry] > 0
  BY DEF StartCover, TypeOK
<1>2. currentContentData \in Entries
  BY <1>1 DEF ContentKnown, TypeOK
<1>3. CoverLoading /\ covers = [c \in Entries \cup {NoEntry} |-> IF c = NoEntry THEN 1 ELSE 0]
  BY <1>1, <1>2, NoEntryAssumption
     DEF OneQuestion, QuestionAsked, AnswerShown, NoneLoading, CoverLoading, Loading
<1>4. covers' = [c \in Entries \cup {NoEntry} |-> IF c = currentContentData THEN 1 ELSE 0]
  <2>1. currentContentData # NoEntry
    BY <1>2, NoEntryAssumption
  <2> DEFINE S == Entries \cup {NoEntry}
  <2>2. /\ covers = [c \in S |-> IF c = NoEntry THEN 1 ELSE 0]
        /\ NoEntry \in S /\ currentContentData \in S
    BY <1>2, <1>3
  <2> HIDE DEF S
  <2>3. [covers EXCEPT ![NoEntry] = @ - 1, ![currentContentData] = @ + 1]
          = [c \in S |-> IF c = currentContentData THEN 1 ELSE 0]
    BY <2>1, <2>2, MoveOne
  <2> QED BY <2>3 DEF StartCover, S
<1>5. CoverLoading'
  BY <1>3, <1>4 DEF CoverLoading, NoneAsked, Loading, StartCover, globals, choice
<1> QED BY <1>5 DEF OneQuestion

LEMMA ShowCoverOneQuestion ==
  ASSUME TypeOK, OneQuestion, NEW e \in Entries, ShowCover(e)
  PROVE  OneQuestion'
<1>1. covers[e] # 0 /\ screen # "crashed" /\ e # NoEntry
  BY NoEntryAssumption DEF ShowCover, TypeOK
<1>2. CoverLoading
  BY <1>1 DEF OneQuestion, QuestionAsked, AnswerShown, NoneLoading
<1>3. e = currentContentData /\ covers = [c \in Entries \cup {NoEntry} |-> IF c = e THEN 1 ELSE 0]
  BY <1>1, <1>2 DEF CoverLoading, Loading
<1>4. CASE screen' = "crashed"
  BY <1>4 DEF OneQuestion
<1>5. CASE /\ noDataLabel' = FALSE /\ goDetailBtn' = TRUE
           /\ titleLabel' = currentContentData /\ imageView' = e
  <2>1. NoneLoading'
    BY <1>3 DEF ShowCover, NoneLoading
  <2>2. NoneAsked' /\ currentContentData' \in found' /\ UNCHANGED currentContentData
    BY <1>2 DEF CoverLoading, NoneAsked, ShowCover, choice, globals
  <2>3. AnswerShown'
    BY <1>3, <1>5, <2>1, <2>2 DEF AnswerShown
  <2> QED BY <2>3 DEF OneQuestion
<1> QED BY <1>4, <1>5 DEF ShowCover

LEMMA NextOneQuestion ==
  ASSUME Patient, ~Untitled, TypeOK, ContentKnown, OneQuestion, [Next]_vars
  PROVE  OneQuestion'
<1>1. ASSUME UNCHANGED <<globals, labels, queries, lastAsked, found, covers>>,
             screen' # "crashed" => screen # "crashed"
      PROVE  OneQuestion'
  BY <1>1 DEF OneQuestion, QuestionAsked, CoverLoading, AnswerShown, Asked, NoneAsked,
              Loading, NoneLoading, globals, labels
<1>2. CASE Answers
  <2>1. ASSUME NEW m \in Members, AnswerDots(m) PROVE OneQuestion'
    BY <1>1, <2>1 DEF AnswerDots, choice, detail
  <2>2. CASE ShowDetail
    BY <1>1, <2>2 DEF ShowDetail, choice
  <2> QED BY <1>2, <2>1, <2>2, AnswerQueryOneQuestion, StartCoverOneQuestion,
             ShowCoverOneQuestion DEF Answers
<1>3. CASE Person
  <2>1. CASE Dismiss /\ Idle
    <3>1. Key(currentotherUserID, Today) \in Keys
      BY MembersAssumption, KeysTyped DEF TypeOK
    <3> QED BY <2>1, <3>1, AskedAlone DEF Dismiss, OneQuestion
  <2>2. ASSUME NEW d \in Days, SelectDate(d) PROVE OneQuestion'
    <3>1. Key(currentotherUserID, d) \in Keys
      BY KeysTyped DEF TypeOK
    <3> QED BY <2>2, <3>1, AskedAlone DEF SelectDate, PersonActs, OneQuestion
  <2>3. ASSUME NEW m \in Members, SelectMember(m) PROVE OneQuestion'
    <3>1. Key(m, Today) \in Keys
      BY MembersAssumption, KeysTyped
    <3> QED BY <2>3, <3>1, AskedAlone DEF SelectMember, PersonActs, OneQuestion
  <2>4. CASE GoDetail
    BY <1>1, <2>4 DEF GoDetail, choice
  <2> QED BY <1>3, <2>1, <2>2, <2>3, <2>4 DEF Person, GoBack, TapDelete, PersonActs
<1>4. ASSUME NEW e \in Entries, OthersAct(e) PROVE OneQuestion'
  BY <1>1, <1>4 DEF OthersAct, choice, detail
<1>5. CASE UNCHANGED vars
  BY <1>1, <1>5 DEF vars, choice, detail
<1> QED BY <1>2, <1>3, <1>4, <1>5 DEF Next

(* Whoever waits sees, once every answer has come, what the last question  *)
(* has found, or that it found nothing: no answer to an earlier question   *)
(* is left to overwrite it, and its cover is the one downloaded.           *)
THEOREM PatientShowsLastAsked ==
  ASSUME Patient, ~Untitled
  PROVE  Spec => []ShowsLastAsked
<1>1. Init => OneQuestion
  <2> SUFFICES ASSUME Init PROVE QuestionAsked
    BY DEF OneQuestion
  <2> QED BY DEF Init, QuestionAsked, Asked, NoneLoading
<1>2. TypeOK /\ ContentKnown /\ OneQuestion /\ [Next]_vars => OneQuestion'
  BY NextOneQuestion
<1>3. TypeOK /\ OneQuestion => ShowsLastAsked
  <2> SUFFICES ASSUME TypeOK, OneQuestion, Idle, screen = "daily"
               PROVE  IF found = {}
                      THEN noDataLabel /\ ~goDetailBtn
                      ELSE /\ goDetailBtn /\ ~noDataLabel
                           /\ titleLabel \in found /\ imageView = titleLabel
    BY DEF ShowsLastAsked, Settled
  <2>1. ~QuestionAsked
    BY DEF QuestionAsked, Asked, Idle, TypeOK
  <2>2. ~CoverLoading
    <3>1. currentContentData \in Entries \cup {NoEntry}
      BY DEF TypeOK
    <3> QED BY <3>1 DEF CoverLoading, Loading, Idle
  <2> QED BY <2>1, <2>2 DEF OneQuestion, AnswerShown
<1> QED BY <1>1, <1>2, <1>3, SpecImpliesTypeOK, SpecImpliesContentKnown, PTL DEF Spec
===============================================================================
