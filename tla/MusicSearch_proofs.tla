-------------------------- MODULE MusicSearch_proofs --------------------------
(***************************************************************************)
(* Proofs about MusicSearch, for every set of songs and keywords and every *)
(* number of overlapping requests.  The table's cells are well typed       *)
(* because a row index of the table is one of the list, and the two are of *)
(* one length because every answer adds as many rows as it appends songs.  *)
(***************************************************************************)
EXTENDS MusicSearch, SequenceTheorems, TLAPS

IInv == TypeOK /\ TableConsistent

-------------------------------------------------------------------------------
(* The emptied table. *)
LEMMA NoRows == <<>> \in Seq(Rows) /\ Len(<<>>) = 0
  BY EmptySeq

(* An answer has rows to show. *)
LEMMA ResultTyped == \A k \in Keywords : Result(k) \in Seq(Rows)
<1> SUFFICES ASSUME NEW k \in Keywords PROVE Result(k) \in Seq(Rows)
  OBVIOUS
<1>1. CASE Found[k] = <<>>
  BY <1>1 DEF Result, Rows
<1>2. CASE Found[k] # <<>>
  <2>1. Found[k] \in Seq(Songs)
    BY FoundAssumption
  <2>2. Seq(Songs) \subseteq Seq(Rows)
    BY DEF Rows
  <2> QED BY <1>2, <2>1, <2>2 DEF Result
<1> QED BY <1>1, <1>2

(* An answer adds as many rows to the table as to the list. *)
LEMMA AppendResultKeeps ==
  ASSUME musicData \in Seq(Rows), rows \in Seq(Rows), TableConsistent,
         NEW result \in Seq(Rows), AppendResult(result)
  PROVE  musicData' \in Seq(Rows) /\ rows' \in Seq(Rows) /\ TableConsistent'
<1> DEFINE n == Len(result)
           top == SubSeq(musicData', 1, n)
<1>1. musicData' \in Seq(Rows) /\ Len(musicData') = Len(musicData) + n
  BY ConcatProperties DEF AppendResult
<1>2. n \in Nat /\ Len(musicData) \in Nat /\ Len(rows) \in Nat
  BY LenProperties
<1>3. top \in Seq(Rows) /\ Len(top) = n
  <2>1. 1 \in Int /\ n \in Int
    BY <1>2
  <2>2. \A i \in 1..n : musicData'[i] \in Rows
    <3> TAKE i \in 1..n
    <3>1. i \in 1..Len(musicData')
      BY <1>1, <1>2
    <3> QED BY <1>1, <3>1, ElementOfSeq
  <2>3. top \in Seq(Rows) /\ Len(top) = IF 1 <= n THEN n - 1 + 1 ELSE 0
    BY <2>1, <2>2, SubSeqProperties
  <2> QED BY <1>2, <2>3
<1>4. rows' = top \o rows
  BY DEF AppendResult, InsertRows
<1>5. rows' \in Seq(Rows) /\ Len(rows') = n + Len(rows)
  <2> HIDE DEF n, top
  <2>1. top \o rows \in Seq(Rows) /\ Len(top \o rows) = Len(top) + Len(rows)
    BY <1>3, ConcatProperties
  <2> QED BY <1>3, <1>4, <2>1
<1> QED BY <1>1, <1>2, <1>5 DEF TableConsistent
-------------------------------------------------------------------------------
LEMMA InitIInv == Init => IInv
<1> SUFFICES ASSUME Init PROVE IInv
  OBVIOUS
<1>1. requests \in [Keywords -> Nat] /\ lateRequests \in [Keywords -> Nat]
  BY DEF Init
<1>2. musicData \in Seq(Rows) /\ rows \in Seq(Rows) /\ searched \in Seq(Rows)
  BY NoRows DEF Init
<1>3. TableConsistent
  BY DEF Init, TableConsistent
<1> QED BY <1>1, <1>2, <1>3 DEF Init, IInv, TypeOK

LEMMA NextIInv == IInv /\ [Next]_vars => IInv'
<1> SUFFICES ASSUME IInv, [Next]_vars PROVE IInv'
  OBVIOUS
<1> USE DEF IInv, TypeOK, TableConsistent, table, history
<1>1. ASSUME NEW k \in Keywords, Search(k) PROVE IInv'
  BY <1>1, NoRows, ResultTyped DEF Search, EmptyTable
<1>2. ASSUME NEW k \in Keywords, Answer(k) PROVE IInv'
  <2>1. /\ requests' \in [Keywords -> Nat] /\ loadingIndicator' \in BOOLEAN
        /\ screen' \in {"open", "closed", "crashed"}
        /\ UNCHANGED <<lateRequests, history, target>>
    <3>1. requests' \in [Keywords -> Nat]
      BY <1>2 DEF Answer
    <3>2. loadingIndicator' \in BOOLEAN
      BY <1>2 DEF Answer
    <3>3. screen' \in {"open", "closed", "crashed"}
      BY <1>2 DEF Answer
    <3> QED BY <1>2, <3>1, <3>2, <3>3 DEF Answer
  <2>2. CASE AppendResult(Result(k))
    <3>1. musicData' \in Seq(Rows) /\ rows' \in Seq(Rows) /\ TableConsistent'
      BY <2>2, ResultTyped, AppendResultKeeps
    <3> QED BY <2>1, <3>1
  <2>3. CASE UNCHANGED table
    BY <2>1, <2>3
  <2> QED BY <1>2, <2>2, <2>3 DEF Answer
<1>3. ASSUME NEW k \in Keywords, AnswerLate(k) PROVE IInv'
  BY <1>3 DEF AnswerLate
<1>4. ASSUME NEW i \in DOMAIN rows, ShowCell(i) PROVE IInv'
  <2>1. musicData[i] \in Rows
    BY ElementOfSeq, LenProperties
  <2>2. rows' \in Seq(Rows) /\ Len(rows') = Len(rows)
    BY <1>4, <2>1, ExceptSeq DEF ShowCell
  <2> QED BY <1>4, <2>2 DEF ShowCell
<1>5. ASSUME NEW i \in DOMAIN rows, SelectRow(i) PROVE IInv'
  <2>1. musicData[i] \in Rows
    BY ElementOfSeq, LenProperties
  <2> QED BY <1>5, <2>1 DEF SelectRow, Close
<1>6. ASSUME SearchNothing PROVE IInv'
  BY <1>6, NoRows DEF SearchNothing, EmptyTable
<1>7. ASSUME GoBack PROVE IInv'
  BY <1>7 DEF GoBack, Close
<1>8. ASSUME Open PROVE IInv'
  BY <1>8, NoRows DEF Open
<1>9. CASE UNCHANGED vars
  BY <1>9 DEF vars
<1> QED BY <1>1, <1>2, <1>3, <1>4, <1>5, <1>6, <1>7, <1>8, <1>9 DEF Next

THEOREM SpecImpliesIInv == Spec => []IInv
<1> QED BY InitIInv, NextIInv, PTL DEF Spec

-------------------------------------------------------------------------------
(* Every variable of the search screen keeps its type, whatever answers come   *)
(* to it (searchButtonPressed, didSelectRowAt).                                *)
THEOREM SpecImpliesTypeOK == Spec => []TypeOK
<1>1. IInv => TypeOK
  BY DEF IInv
<1> QED BY <1>1, SpecImpliesIInv, PTL

(* The table never has another number of rows than the list, so that no        *)
(* insertion raises, however many searches overlap (insertRows).               *)
THEOREM SpecImpliesTableConsistent == Spec => []TableConsistent
<1>1. IInv => TableConsistent
  BY DEF IInv
<1> QED BY <1>1, SpecImpliesIInv, PTL

-------------------------------------------------------------------------------
(***************************************************************************)
(* Searches that do not overlap.  Of the screen's requests at most the one *)
(* of the last search is on the way, and then the table is still empty;    *)
(* once its answer has come, list and cells are that answer.  A closed     *)
(* screen has no requests left that would come to the next one.            *)
(***************************************************************************)
OneAsked(k) == requests[k] = 1 /\ \A j \in Keywords \ {k} : requests[j] = 0
NoneLeft == screen = "closed" => Idle
Aligned ==
    screen = "open" /\ ~overlap =>
        /\ rows = musicData
        /\ \/ Idle /\ (musicData = searched \/ (Failing /\ musicData = <<>>))
           \/ \E k \in Keywords :
                OneAsked(k) /\ searched = Result(k) /\ musicData = <<>>

(* An answer that comes to an empty table is what the table shows. *)
LEMMA AppendToEmpty ==
  ASSUME musicData = <<>>, rows = <<>>, NEW result \in Seq(Rows),
         AppendResult(result)
  PROVE  musicData' = result /\ rows' = result
<1>1. musicData' = result
  BY ConcatEmptySeq DEF AppendResult
<1>2. SubSeq(result, 1, Len(result)) = result
  BY SubSeqFull
<1>3. rows' = result \o <<>>
  BY <1>1, <1>2 DEF AppendResult, InsertRows
<1> QED BY <1>1, <1>3, ConcatEmptySeq

LEMMA InitAligned == Init => Aligned
  BY DEF Init, Aligned, Idle

LEMMA NextNoneLeft == IInv /\ NoneLeft /\ [Next]_vars => NoneLeft'
<1> SUFFICES ASSUME IInv, NoneLeft, [Next]_vars, screen' = "closed" PROVE Idle'
  BY DEF NoneLeft
<1>1. CASE Close
  BY <1>1 DEF Close, Idle
<1>2. CASE UNCHANGED <<requests, screen>>
  BY <1>2 DEF NoneLeft, Idle
<1>3. ASSUME NEW k \in Keywords, AnswerLate(k) PROVE UNCHANGED <<requests, screen>>
  BY <1>3 DEF AnswerLate
<1>4. ASSUME NEW k \in Keywords, Search(k) \/ Answer(k) PROVE FALSE
  BY <1>4 DEF Search, Answer
<1>5. ASSUME NEW i \in DOMAIN rows, ShowCell(i) PROVE FALSE
  BY <1>5 DEF ShowCell
<1>6. ASSUME SearchNothing \/ Open PROVE FALSE
  BY <1>6 DEF SearchNothing, Open
<1>7. ASSUME NEW i \in DOMAIN rows, SelectRow(i) PROVE Close
  BY <1>7 DEF SelectRow
<1>8. CASE GoBack
  BY <1>1, <1>8 DEF GoBack
<1>9. CASE UNCHANGED vars
  BY <1>2, <1>9 DEF vars
<1> QED BY <1>1, <1>2, <1>3, <1>4, <1>5, <1>6, <1>7, <1>8, <1>9 DEF Next

LEMMA NextAligned == IInv /\ NoneLeft /\ Aligned /\ [Next]_vars => Aligned'
<1> SUFFICES ASSUME IInv, NoneLeft, Aligned, [Next]_vars, screen' = "open", ~overlap'
             PROVE  /\ rows' = musicData'
                    /\ \/ Idle' /\ (musicData' = searched'
                                      \/ (Failing /\ musicData' = <<>>))
                       \/ \E k \in Keywords : OneAsked(k)' /\ searched' = Result(k)
                                               /\ musicData' = <<>>
  BY DEF Aligned, Result
<1> USE DEF table, history
<1>0. requests \in [Keywords -> Nat]
  BY DEF IInv, TypeOK
<1>1. ASSUME NEW k \in Keywords, Search(k) PROVE \E j \in Keywords :
        /\ OneAsked(j)' /\ searched' = Result(j)
        /\ musicData' = <<>> /\ rows' = <<>>
  <2>1. Idle
    BY <1>1 DEF Search
  <2>2. OneAsked(k)'
    BY <1>0, <1>1, <2>1 DEF Search, OneAsked, Idle
  <2> QED BY <1>1, <2>2 DEF Search, EmptyTable
<1>2. ASSUME NEW k \in Keywords, Answer(k)
      PROVE  /\ Idle' /\ rows' = musicData'
             /\ musicData' = searched' \/ (Failing /\ musicData' = <<>>)
  <2>1. screen = "open" /\ ~overlap /\ requests[k] > 0
    BY <1>2 DEF Answer
  <2>2. PICK j \in Keywords :
          OneAsked(j) /\ searched = Result(j) /\ musicData = <<>>
    BY <1>0, <2>1 DEF Aligned, Idle
  <2>3. j = k /\ rows = <<>>
    BY <2>1, <2>2 DEF OneAsked, Aligned
  <2>4. Idle'
    BY <1>0, <1>2, <2>2, <2>3 DEF Answer, OneAsked, Idle
  <2>5. CASE AppendResult(Result(k))
    <3>1. musicData' = Result(k) /\ rows' = Result(k)
      BY <2>2, <2>3, <2>5, ResultTyped, AppendToEmpty
    <3> QED BY <1>2, <2>2, <2>3, <2>4, <3>1 DEF Answer
  <2>6. CASE Failing /\ UNCHANGED table
    BY <1>2, <2>2, <2>3, <2>4, <2>6 DEF Answer
  <2> QED BY <1>2, <2>5, <2>6 DEF Answer
<1>3. CASE UNCHANGED <<table, requests, history, screen>>
  BY <1>3 DEF Aligned, Idle, OneAsked
<1>4. ASSUME NEW k \in Keywords, AnswerLate(k)
      PROVE  UNCHANGED <<table, requests, history, screen>>
  BY <1>4 DEF AnswerLate, IInv, TypeOK
<1>5. ASSUME NEW i \in DOMAIN rows, ShowCell(i) PROVE FALSE
  BY <1>5 DEF ShowCell, Aligned
<1>6. ASSUME NEW i \in DOMAIN rows, SelectRow(i) PROVE FALSE
  BY <1>6 DEF SelectRow, Close
<1>7. ASSUME SearchNothing
      PROVE  Idle' /\ rows' = musicData' /\ musicData' = searched'
  BY <1>7 DEF SearchNothing, EmptyTable, Idle
<1>8. CASE GoBack
  BY <1>8 DEF GoBack, Close
<1>9. ASSUME Open
      PROVE  Idle' /\ rows' = musicData' /\ musicData' = searched'
  BY <1>9 DEF Open, Idle, NoneLeft
<1>10. CASE UNCHANGED vars
  BY <1>3, <1>10 DEF vars
<1> QED BY <1>1, <1>2, <1>3, <1>4, <1>5, <1>6, <1>7, <1>8, <1>9, <1>10 DEF Next

THEOREM SpecImpliesAligned == Spec => []Aligned
<1>1. Init => NoneLeft
  BY DEF Init, NoneLeft
<1> QED BY <1>1, NextNoneLeft, InitAligned, NextAligned, SpecImpliesIInv, PTL
        DEF Spec

(* Once every answer is there the list is what the last search has found, or   *)
(* empty if its request has failed, unless it overlapped with an earlier one   *)
(* (searchButtonPressed).                                                      *)
THEOREM SpecImpliesListIsResult == Spec => []ListIsResult
<1>1. IInv /\ Aligned => ListIsResult
  BY DEF Aligned, ListIsResult, Idle, OneAsked
<1> QED BY <1>1, SpecImpliesIInv, SpecImpliesAligned, PTL

(* The song chosen is the one the row shows, with the same exception           *)
(* (didSelectRowAt, cellForRowAt).                                             *)
THEOREM SpecImpliesChoosesRowShown == Spec => ChoosesRowShown
<1>1. Aligned /\ [Next]_vars =>
        [~overlap => \A i \in DOMAIN rows : SelectRow(i) => target' = rows[i]]_vars
  BY DEF Aligned, SelectRow
<1> QED BY <1>1, SpecImpliesAligned, PTL DEF Spec, ChoosesRowShown

-------------------------------------------------------------------------------
(* The indicator turns for a request that is on the way, or since a search     *)
(* for nothing, which sends none and which nothing but another search ends.    *)
TurnsForRequest ==
    screen = "open" /\ loadingIndicator => ~Idle \/ searched = <<>>

(* No answer, however many searches overlap and whichever of them fail, leaves *)
(* the indicator turning with nothing on the way (searchButtonPressed).  With  *)
(* fairness this is why IndicatorStops.                                        *)
THEOREM SpecImpliesTurnsForRequest == Spec => []TurnsForRequest
<1>1. Init => TurnsForRequest
  BY DEF Init, TurnsForRequest
<1>2. IInv /\ TurnsForRequest /\ [Next]_vars => TurnsForRequest'
  <2> SUFFICES ASSUME IInv, TurnsForRequest, [Next]_vars PROVE TurnsForRequest'
    OBVIOUS
  <2> USE DEF TurnsForRequest
  <2>1. ASSUME NEW k \in Keywords, Search(k) PROVE TurnsForRequest'
    <3>1. requests[k] \in Nat /\ requests'[k] = requests[k] + 1
      BY <2>1 DEF Search, IInv, TypeOK
    <3> QED BY <3>1 DEF Idle
  <2>2. ASSUME NEW k \in Keywords, Answer(k) PROVE TurnsForRequest'
    BY <2>2 DEF Answer
  <2>3. CASE SearchNothing
    BY <2>3 DEF SearchNothing
  <2>4. CASE Open
    BY <2>4 DEF Open
  <2>5. CASE GoBack \/ \E i \in DOMAIN rows : SelectRow(i)
    BY <2>5 DEF GoBack, SelectRow, Close
  <2>6. ASSUME NEW k \in Keywords, AnswerLate(k) PROVE TurnsForRequest'
    BY <2>6 DEF AnswerLate, Idle, history
  <2>7. CASE UNCHANGED vars \/ \E i \in DOMAIN rows : ShowCell(i)
    BY <2>7 DEF vars, ShowCell, Idle, history
  <2> QED BY <2>1, <2>2, <2>3, <2>4, <2>5, <2>6, <2>7 DEF Next
<1> QED BY <1>1, <1>2, SpecImpliesIInv, PTL DEF Spec
===============================================================================
