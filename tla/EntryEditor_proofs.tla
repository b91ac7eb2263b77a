-------------------------- MODULE EntryEditor_proofs --------------------------
(***************************************************************************)
(* Proofs about EntryEditor, for every set of users and songs and every    *)
(* bound.  The drafts are globals, so what they hold on one screen depends *)
(* on what was left on the way to others: the inductive invariant says     *)
(* what can be on the way, and what the drafts are then.                   *)
(***************************************************************************)
EXTENDS EntryEditor, SequenceTheorems, TLAPS

(* Sequences of entries *)

LEMMA SavedLast ==
  ASSUME NEW s \in Seq(Entry), NEW e \in Entry
  PROVE  /\ Append(s, e) \in Seq(Entry)
         /\ Len(Append(s, e)) = Len(s) + 1
         /\ Append(s, e)[Len(s) + 1] = e
         /\ \A i \in DOMAIN s : Append(s, e)[i] = s[i]
         /\ DOMAIN Append(s, e) = DOMAIN s \cup {Len(s) + 1}
<1>1. /\ Append(s, e) \in Seq(Entry) /\ Len(Append(s, e)) = Len(s) + 1
      /\ Append(s, e)[Len(s) + 1] = e
      /\ \A i \in 1..Len(s) : Append(s, e)[i] = s[i]
  BY AppendProperties
<1>2. Len(s) \in Nat /\ DOMAIN s = 1..Len(s)
  BY LenProperties
<1>3. DOMAIN Append(s, e) = 1..(Len(s) + 1)
  BY <1>1, LenProperties
<1> QED BY <1>1, <1>2, <1>3

Titles == Songs \cup {NoSong, Placeholder}
Covers == Songs \cup {NoSong}
Rewrite(s, i, t, c) == [s EXCEPT ![i].title = t, ![i].cover = c]
LEMMA Rewritten ==
  ASSUME NEW s \in Seq(Entry), NEW i \in DOMAIN s,
         NEW t \in Titles, NEW c \in Covers
  PROVE  /\ Rewrite(s, i, t, c) \in Seq(Entry)
         /\ Len(Rewrite(s, i, t, c)) = Len(s)
         /\ DOMAIN Rewrite(s, i, t, c) = DOMAIN s
         /\ Rewrite(s, i, t, c)[i].title = t /\ Rewrite(s, i, t, c)[i].cover = c
         /\ \A j \in DOMAIN s : j # i => Rewrite(s, i, t, c)[j] = s[j]
<1>1. DOMAIN s = 1..Len(s) /\ Len(s) \in Nat /\ s[i] \in Entry
  BY LenProperties, ElementOfSeq
<1> DEFINE e == [[s[i] EXCEPT !.title = t] EXCEPT !.cover = c]
<1>2. e \in Entry /\ e.title = t /\ e.cover = c
  BY <1>1 DEF Entry, Titles, Covers
<1>3. Rewrite(s, i, t, c) = [s EXCEPT ![i] = e]
  BY DEF Rewrite
<1> HIDE DEF e
<1>4. [s EXCEPT ![i] = e] \in Seq(Entry) /\ Len([s EXCEPT ![i] = e]) = Len(s)
  BY <1>1, <1>2, ExceptSeq
<1>5. /\ DOMAIN [s EXCEPT ![i] = e] = DOMAIN s /\ [s EXCEPT ![i] = e][i] = e
      /\ \A j \in DOMAIN s : j # i => [s EXCEPT ![i] = e][j] = s[j]
  OBVIOUS
<1> QED BY <1>2, <1>3, <1>4, <1>5

LEMMA EntryAt ==
  ASSUME NEW s \in Seq(Entry), NEW i \in DOMAIN s
  PROVE  /\ s[i] \in Entry
         /\ s[i].title \in Songs \cup {NoSong, Placeholder}
         /\ s[i].cover \in Songs \cup {NoSong}
<1>1. s[i] \in Entry
  BY LenProperties, ElementOfSeq
<1> QED BY <1>1 DEF Entry

(* Places of entries are ids.                                              *)
LEMMA PlaceTyped ==
  ASSUME TypeOK, NEW i \in DOMAIN contents
  PROVE  i \in Ids /\ i \in 0..MaxEntries
<1>1. DOMAIN contents = 1..Len(contents) /\ Len(contents) \in Nat
  BY LenProperties DEF TypeOK
<1> QED BY <1>1, BoundsAssumption DEF TypeOK, Ids

LEMMA DraftTyped ==
  ASSUME TypeOK
  PROVE  Draft \in Entry
BY DEF TypeOK, Draft, Entry

(* The draft with another song in it.                                      *)
LEMMA DraftChanged ==
  ASSUME TypeOK, NEW t \in Songs, NEW c \in Songs \cup {NoSong}
  PROVE  /\ [Draft EXCEPT !.title = t, !.cover = c] \in Entry
         /\ [Draft EXCEPT !.title = t, !.cover = c].title = t
         /\ [Draft EXCEPT !.title = t, !.cover = c].cover = c
         /\ [Draft EXCEPT !.cover = c] \in Entry
         /\ [Draft EXCEPT !.cover = c].title = Draft.title
         /\ [Draft EXCEPT !.cover = c].cover = c
<1>1. Draft \in Entry
  BY DraftTyped
<1> QED BY <1>1 DEF Entry
(* What updateData leaves.                                                 *)
LEMMA EditSaved ==
  ASSUME TypeOK, currentContentID \in DOMAIN contents,
         contents' = [contents EXCEPT
            ![currentContentID].title = label, ![currentContentID].cover = newCD]
  PROVE  /\ contents' \in Seq(Entry) /\ Len(contents') = Len(contents)
         /\ DOMAIN contents' = DOMAIN contents
         /\ contents'[currentContentID].title = label
         /\ contents'[currentContentID].cover = newCD
         /\ \A i \in DOMAIN contents : i # currentContentID => contents'[i] = contents[i]
<1>1. contents \in Seq(Entry) /\ label \in Titles /\ newCD \in Covers
  BY DEF TypeOK, Titles, Covers
<1>2. contents' = Rewrite(contents, currentContentID, label, newCD)
  BY DEF Rewrite
<1>3. /\ Rewrite(contents, currentContentID, label, newCD) \in Seq(Entry)
      /\ Len(Rewrite(contents, currentContentID, label, newCD)) = Len(contents)
      /\ DOMAIN Rewrite(contents, currentContentID, label, newCD) = DOMAIN contents
  BY <1>1, Rewritten
<1>4. /\ Rewrite(contents, currentContentID, label, newCD)[currentContentID].title = label
      /\ Rewrite(contents, currentContentID, label, newCD)[currentContentID].cover = newCD
  BY <1>1, Rewritten
<1>5. \A i \in DOMAIN contents : i # currentContentID =>
        Rewrite(contents, currentContentID, label, newCD)[i] = contents[i]
  BY <1>1, Rewritten
<1> QED BY <1>2, <1>3, <1>4, <1>5
-------------------------------------------------------------------------------
(***************************************************************************)
(* What a tap does to the history.                                         *)
(***************************************************************************)
LEMMA Tapped ==
  ASSUME TypeOK, NEW careful, PersonTaps(careful)
  PROVE  /\ slips \subseteq slips' /\ slips' \subseteq {"hasty", "careless", "failed"}
         /\ slips' \subseteq slips \cup {"hasty", "careless"}
         /\ Patient' => Patient /\ Idle
         /\ Careful' => Careful /\ careful
BY DEF PersonTaps, Patient, Careful, TypeOK

LEMMA Acted ==
  ASSUME TypeOK, PersonActs
  PROVE  /\ slips \subseteq slips' /\ slips' \subseteq {"hasty", "careless", "failed"}
         /\ slips' \subseteq slips \cup {"hasty", "careless"}
         /\ Patient' => Patient /\ Idle
         /\ Careful' => Careful
BY DEF PersonActs, PersonTaps, Patient, Careful, TypeOK
-------------------------------------------------------------------------------
(***************************************************************************)
(* Type correctness, which needs that only entries of the diary are asked  *)
(* for.                                                                    *)
(***************************************************************************)
LEMMA InitTyped == Init => TypeOK
<1> SUFFICES ASSUME Init PROVE TypeOK
  OBVIOUS
<1>1. contents \in Seq(Entry) /\ Len(contents) = 0
  BY EmptySeq DEF Init
<1>2. now \in Days /\ 0 \in 0..MaxEntries /\ Len(contents) <= MaxEntries
  BY <1>1, BoundsAssumption DEF Init, Days
<1>3. lateLoads \in [Ids -> Nat] /\ lateCovers \in [Songs -> Nat]
  BY DEF Init
<1> QED BY <1>1, <1>2, <1>3 DEF Init, TypeOK

LEMMA CloseTyped ==
  ASSUME TypeOK, Close
  PROVE  /\ now' \in Days /\ currentUID' \in Users \cup {NoUser}
         /\ newCD' \in Songs \cup {NoSong}
         /\ currentContentID' \in 0..MaxEntries /\ opened' \in 0..MaxEntries
         /\ screen' \in {"intro", "main", "write", "edit", "crashed"}
         /\ label' \in Songs \cup {NoSong, Placeholder}
         /\ getMusic' \in Songs \cup {NoSong}
         /\ loading' \in BOOLEAN /\ covers' \in Nat /\ images' \in Nat
         /\ lateLoads' \in [Ids -> Nat] /\ lateCovers' \in [Songs -> Nat]
<1>1. lateLoads' \in [Ids -> Nat]
  <2>1. \A i \in Ids : lateLoads[i] \in Nat /\ (IF loading /\ i = opened THEN 1 ELSE 0) \in Nat
    BY DEF TypeOK
  <2> QED BY <2>1 DEF Close
<1>2. lateCovers' \in [Songs -> Nat]
  <2>1. \A s \in Songs : lateCovers[s] \in Nat /\ (IF s = getMusic THEN covers ELSE 0) \in Nat
    BY DEF TypeOK
  <2> QED BY <2>1 DEF Close
<1> QED BY <1>1, <1>2 DEF Close, TypeOK

LEMMA PresentTyped ==
  ASSUME TypeOK, NEW i \in DOMAIN contents, PresentData(i)
  PROVE  /\ newContent' \in Entry \cup {NoDraft}
         /\ newCD' \in Songs \cup {NoSong} /\ images' \in Nat
<1>1. contents[i].cover \in Songs \cup {NoSong}
  BY EntryAt DEF TypeOK
<1>2. [Draft EXCEPT !.cover = contents[i].cover] \in Entry
  BY <1>1, DraftTyped DEF Entry
<1> QED BY <1>1, <1>2 DEF PresentData, TypeOK

LEMMA AnswersTyped ==
  ASSUME TypeOK, AskedCovered, EditLoaded, Answers
  PROVE  TypeOK'
<1>1. CASE AnswerLoad
  <2>1. opened \in DOMAIN contents
    BY <1>1 DEF AnswerLoad, AskedCovered, Covered
  <2>2. contents[opened].title \in Songs \cup {NoSong, Placeholder}
    BY <2>1, EntryAt DEF TypeOK
  <2>3. /\ newContent' \in Entry \cup {NoDraft}
        /\ newCD' \in Songs \cup {NoSong} /\ images' \in Nat
    BY <1>1, <2>1, PresentTyped DEF AnswerLoad
  <2> QED BY <1>1, <2>2, <2>3 DEF AnswerLoad, TypeOK
<1>2. CASE ShowChoice
  <2>1. covers' \in Nat
    BY <1>2 DEF ShowChoice, TypeOK
  <2> QED BY <1>2, <2>1 DEF ShowChoice, TypeOK
<1>3. CASE ShowImage
  <2>1. images' \in Nat
    BY <1>3 DEF ShowImage, TypeOK
  <2> QED BY <1>3, <2>1 DEF ShowImage, TypeOK, globals, view
<1>4. CASE CoverFails
  BY <1>4 DEF CoverFails, TypeOK, globals, asked
<1>5. ASSUME NEW i \in Ids, AnswerLateLoad(i) PROVE TypeOK'
  <2>1. i \in DOMAIN contents /\ lateLoads[i] \in Nat /\ lateLoads[i] > 0
    BY <1>5 DEF AnswerLateLoad, AskedCovered, Covered, TypeOK
  <2>2. /\ newContent' \in Entry \cup {NoDraft}
        /\ newCD' \in Songs \cup {NoSong} /\ images' \in Nat
    BY <1>5, <2>1, PresentTyped DEF AnswerLateLoad
  <2>3. lateLoads' \in [Ids -> Nat]
    BY <1>5, <2>1 DEF AnswerLateLoad, TypeOK
  <2> QED BY <1>5, <2>2, <2>3 DEF AnswerLateLoad, TypeOK, view
<1>6. ASSUME NEW s \in Songs, ShowLateChoice(s) PROVE TypeOK'
  <2>1. lateCovers[s] \in Nat /\ lateCovers[s] > 0
    BY <1>6 DEF ShowLateChoice, TypeOK
  <2>2. lateCovers' \in [Songs -> Nat]
    BY <1>6, <2>1 DEF ShowLateChoice, TypeOK
  <2> QED BY <1>6, <2>2 DEF ShowLateChoice, TypeOK, view
<1> QED BY <1>1, <1>2, <1>3, <1>4, <1>5, <1>6 DEF Answers

LEMMA PersonTyped ==
  ASSUME TypeOK, AskedCovered, EditLoaded, Person
  PROVE  TypeOK'
<1>1. CASE OpenWrite
  BY <1>1, Acted DEF OpenWrite, TypeOK, globals, asked
<1>2. CASE TapSaveWrite
  <2>1. slips' \subseteq {"hasty", "careless", "failed"}
    BY <1>2, Tapped DEF TapSaveWrite
  <2>2. Draft \in Entry
    BY DraftTyped
  <2>3. contents' \in Seq(Entry) /\ Len(contents') = Len(contents) + 1
    BY <1>2, <2>2, SavedLast DEF TapSaveWrite, TypeOK
  <2>4. Len(contents') <= MaxEntries
    BY <1>2, <2>3, BoundsAssumption, LenProperties DEF TapSaveWrite, TypeOK
  <2>5. newContent' \in Entry \cup {NoDraft}
    BY <1>2, <2>2 DEF TapSaveWrite
  <2> QED BY <1>2, <2>1, <2>3, <2>4, <2>5, CloseTyped DEF TapSaveWrite, TypeOK
<1>3. CASE TapSaveEdit
  <2>1. slips' \subseteq {"hasty", "careless", "failed"} /\ UNCHANGED newContent
    BY <1>3, Acted DEF TapSaveEdit
  <2>2. CASE Close /\ contents' = [contents EXCEPT
               ![currentContentID].title = label, ![currentContentID].cover = newCD]
    <3>1. currentContentID \in DOMAIN contents
      BY <1>3 DEF TapSaveEdit, AskedCovered
    <3>2. contents' \in Seq(Entry) /\ Len(contents') = Len(contents)
      BY <2>2, <3>1, EditSaved
    <3> QED BY <2>1, <2>2, <3>2, CloseTyped DEF TypeOK
  <2>3. CASE /\ screen' = "crashed"
             /\ UNCHANGED <<now, contents, currentUID, newCD, currentContentID, label,
                            getMusic, opened, asked>>
    BY <2>1, <2>3 DEF TypeOK, asked
  <2> QED BY <1>3, <2>2, <2>3 DEF TapSaveEdit
<1>4. CASE GoBack
  BY <1>4, Acted, CloseTyped DEF GoBack, TypeOK
<1>5. CASE LogOut
  BY <1>5, Acted DEF LogOut, TypeOK, asked
<1>6. ASSUME NEW s \in Songs, ChooseForWrite(s) PROVE TypeOK'
  <2>1. newContent' \in Entry \cup {NoDraft}
    BY <1>6, DraftChanged DEF ChooseForWrite
  <2>2. images' \in Nat
    BY <1>6 DEF ChooseForWrite, TypeOK
  <2> QED BY <1>6, <2>1, <2>2, Acted DEF ChooseForWrite, TypeOK
<1>7. ASSUME NEW s \in Songs, ChooseForEdit(s) PROVE TypeOK'
  <2>1. covers' \in Nat
    BY <1>7 DEF ChooseForEdit, TypeOK
  <2> QED BY <1>7, <2>1, Acted DEF ChooseForEdit, TypeOK, globals
<1>8. ASSUME NEW i \in DOMAIN contents, OpenEdit(i) PROVE TypeOK'
  <2>1. i \in 0..MaxEntries
    BY PlaceTyped
  <2> QED BY <1>8, <2>1, Acted DEF OpenEdit, TypeOK
<1>9. ASSUME NEW u \in Users, SignIn(u) PROVE TypeOK'
  BY <1>9, Acted DEF SignIn, TypeOK, asked
<1> QED BY <1>1, <1>2, <1>3, <1>4, <1>5, <1>6, <1>7, <1>8, <1>9 DEF Person

LEMMA NextTyped ==
  ASSUME TypeOK, AskedCovered, EditLoaded, [Next]_vars
  PROVE  TypeOK'
<1>1. CASE Relaunch
  <2>1. lateLoads' \in [Ids -> Nat] /\ lateCovers' \in [Songs -> Nat]
    BY <1>1 DEF Relaunch
  <2>2. currentContentID' \in 0..MaxEntries /\ opened' \in 0..MaxEntries
    BY <1>1, BoundsAssumption DEF Relaunch
  <2> QED BY <1>1, <2>1, <2>2 DEF Relaunch, TypeOK
<1>2. CASE DayPasses
  <2>1. now' \in Days
    BY <1>2, BoundsAssumption DEF DayPasses, TypeOK, Days
  <2> QED BY <1>2, <2>1 DEF DayPasses, TypeOK, globals, view, asked
<1>3. ASSUME NEW i \in DOMAIN contents, DailyViewAnswered(i) PROVE TypeOK'
  <2>1. i \in 0..MaxEntries
    BY PlaceTyped
  <2> QED BY <1>3, <2>1 DEF DailyViewAnswered, TypeOK, view, asked
<1>4. CASE UNCHANGED vars
  BY <1>4 DEF vars, TypeOK, globals, view, asked
<1> QED BY <1>1, <1>2, <1>3, <1>4, AnswersTyped, PersonTyped DEF Next
-------------------------------------------------------------------------------
(***************************************************************************)
(* What is asked for, what has a title and what the edit screen has loaded *)
(* has a cover, so that no handler unwraps what is not there.              *)
(***************************************************************************)
CoversThere == AskedCovered /\ TitledCovered /\ EditLoaded /\ NeverCrashes

LEMMA InitCovers == Init => CoversThere
BY DEF Init, CoversThere, AskedCovered, TitledCovered, EditLoaded, NeverCrashes

(* An answer of presentData brings a cover.                                *)
LEMMA PresentCovers ==
  ASSUME TypeOK, NEW i, Covered(i), PresentData(i)
  PROVE  /\ newContent' # NoDraft /\ newContent'.cover # NoSong
         /\ newCD' # NoSong
<1>1. contents[i].cover \in Songs \cup {NoSong} /\ contents[i].cover # NoSong
  BY EntryAt DEF TypeOK, Covered
<1>2. /\ [Draft EXCEPT !.cover = contents[i].cover] \in Entry
      /\ [Draft EXCEPT !.cover = contents[i].cover].cover = contents[i].cover
  BY <1>1, DraftTyped DEF Entry
<1> QED BY <1>1, <1>2, NoDraftAssumption DEF PresentData

(* The draft has a cover when it has a title.                              *)
LEMMA DraftCovered ==
  ASSUME TypeOK, TitledCovered, Draft.title # NoSong
  PROVE  Draft.cover # NoSong
<1>1. CASE newContent # NoDraft
  BY <1>1 DEF Draft, TitledCovered
<1>2. CASE newContent = NoDraft
  BY <1>2 DEF Draft
<1> QED BY <1>1, <1>2

(* Closing a screen leaves only what was asked for on the way.             *)
LEMMA CloseCovers ==
  ASSUME TypeOK, AskedCovered, EditLoaded, Close, screen # "crashed",
         \A i \in DOMAIN contents : Covered(i) => Covered(i)'
  PROVE  AskedCovered' /\ EditLoaded' /\ NeverCrashes'
<1>1. ASSUME NEW i \in Ids, lateLoads'[i] > 0 PROVE Covered(i)
  <2>1. lateLoads'[i] = lateLoads[i] + IF loading /\ i = opened THEN 1 ELSE 0
    BY DEF Close
  <2>2. lateLoads[i] > 0 \/ (loading /\ i = opened)
    BY <1>1, <2>1 DEF TypeOK
  <2>3. CASE lateLoads[i] > 0
    BY <2>3 DEF AskedCovered
  <2>4. CASE loading /\ i = opened
    <3>1. screen = "edit"
      BY <2>4 DEF EditLoaded, TypeOK
    <3> QED BY <2>4, <3>1 DEF AskedCovered
  <2> QED BY <2>2, <2>3, <2>4
<1>2. \A i \in Ids : lateLoads'[i] > 0 => Covered(i)'
  BY <1>1 DEF Covered
<1> QED BY <1>2 DEF AskedCovered, EditLoaded, NeverCrashes, Close

LEMMA AnswersCovers ==
  ASSUME TypeOK, CoversThere, Answers
  PROVE  CoversThere'
<1> USE DEF CoversThere
<1>1. CASE AnswerLoad
  <2>1. Covered(opened) /\ PresentData(opened)
    BY <1>1 DEF AnswerLoad, AskedCovered
  <2>2. newContent' # NoDraft /\ newContent'.cover # NoSong /\ newCD' # NoSong
    BY <2>1, PresentCovers
  <2>3. AskedCovered'
    BY <1>1 DEF AnswerLoad, AskedCovered, Covered
  <2>4. TitledCovered'
    BY <1>1, <2>2 DEF AnswerLoad, TitledCovered, Covered
  <2> QED BY <1>1, <2>2, <2>3, <2>4 DEF AnswerLoad, EditLoaded, NeverCrashes
<1>2. CASE ShowChoice
  <2>1. getMusic # NoSong
    BY <1>2 DEF ShowChoice, EditLoaded
  <2>2. AskedCovered' /\ TitledCovered' /\ NeverCrashes'
    BY <1>2 DEF ShowChoice, AskedCovered, TitledCovered, Covered, NeverCrashes
  <2> QED BY <1>2, <2>1, <2>2 DEF ShowChoice, EditLoaded
<1>3. CASE ShowImage
  BY <1>3 DEF ShowImage, AskedCovered, TitledCovered, Covered, EditLoaded, NeverCrashes,
              globals, view
<1>4. CASE CoverFails
  BY <1>4 DEF CoverFails, AskedCovered, TitledCovered, Covered, EditLoaded, NeverCrashes,
              globals, asked
<1>5. ASSUME NEW i \in Ids, AnswerLateLoad(i) PROVE CoversThere'
  <2>1. Covered(i) /\ PresentData(i)
    BY <1>5 DEF AnswerLateLoad, AskedCovered
  <2>2. newContent' # NoDraft /\ newContent'.cover # NoSong /\ newCD' # NoSong
    BY <2>1, PresentCovers
  <2>3. \A j \in Ids : lateLoads'[j] > 0 => lateLoads[j] > 0
    BY <1>5 DEF AnswerLateLoad, TypeOK
  <2>4. AskedCovered'
    BY <1>5, <2>3 DEF AnswerLateLoad, AskedCovered, Covered, view
  <2>5. TitledCovered'
    BY <1>5, <2>2 DEF AnswerLateLoad, TitledCovered, Covered
  <2> QED BY <1>5, <2>2, <2>4, <2>5 DEF AnswerLateLoad, EditLoaded, NeverCrashes, view
<1>6. ASSUME NEW s \in Songs, ShowLateChoice(s) PROVE CoversThere'
  <2>1. newCD' # NoSong
    BY <1>6, NamesAssumption DEF ShowLateChoice
  <2>2. AskedCovered' /\ TitledCovered' /\ NeverCrashes'
    BY <1>6 DEF ShowLateChoice, AskedCovered, TitledCovered, Covered, NeverCrashes, view
  <2> QED BY <1>6, <2>1, <2>2 DEF ShowLateChoice, EditLoaded, view
<1> QED BY <1>1, <1>2, <1>3, <1>4, <1>5, <1>6 DEF Answers

LEMMA PersonCovers ==
  ASSUME TypeOK, CoversThere, Person
  PROVE  CoversThere'
<1> USE DEF CoversThere
<1>1. CASE OpenWrite
  BY <1>1 DEF OpenWrite, AskedCovered, TitledCovered, Covered, EditLoaded, NeverCrashes,
              globals, asked
<1>2. CASE TapSaveWrite
  <2>1. Draft \in Entry /\ contents \in Seq(Entry)
    BY DraftTyped DEF TypeOK
  <2>2. /\ contents' = Append(contents, Draft) /\ newContent' = Draft
        /\ screen = "write" /\ Close
    BY <1>2 DEF TapSaveWrite
  <2>3. /\ \A i \in DOMAIN contents : contents'[i] = contents[i]
        /\ contents'[Len(contents) + 1] = Draft
        /\ DOMAIN contents' = DOMAIN contents \cup {Len(contents) + 1}
    BY <2>1, <2>2, SavedLast
  <2>4. \A i \in DOMAIN contents : Covered(i) => Covered(i)'
    BY <2>3 DEF Covered
  <2>5. AskedCovered' /\ EditLoaded' /\ NeverCrashes'
    BY <2>2, <2>4, CloseCovers
  <2>6. ASSUME NEW i \in DOMAIN contents', contents'[i].title # NoSong PROVE Covered(i)'
    <3>1. CASE i \in DOMAIN contents
      BY <2>3, <2>4, <2>6, <3>1 DEF TitledCovered
    <3>2. CASE i = Len(contents) + 1
      BY <2>3, <2>6, <3>2, DraftCovered DEF Covered
    <3> QED BY <2>3, <3>1, <3>2
  <2>7. TitledCovered'
    BY <2>2, <2>6, DraftCovered DEF TitledCovered
  <2> QED BY <2>5, <2>7
<1>3. CASE TapSaveEdit
  <2>1. screen = "edit" /\ PersonActs /\ UNCHANGED newContent
    BY <1>3 DEF TapSaveEdit
  <2>2. CASE newCD # NoSong /\ Close /\ contents' = [contents EXCEPT
               ![currentContentID].title = label, ![currentContentID].cover = newCD]
    <3>1. currentContentID \in DOMAIN contents
      BY <2>1 DEF AskedCovered
    <3>3. /\ DOMAIN contents' = DOMAIN contents
          /\ contents'[currentContentID].cover = newCD
          /\ \A i \in DOMAIN contents : i # currentContentID => contents'[i] = contents[i]
      BY <2>2, <3>1, EditSaved
    <3>4. \A i \in DOMAIN contents : Covered(i) \/ i = currentContentID => Covered(i)'
      BY <2>2, <3>1, <3>3 DEF Covered
    <3>5. AskedCovered' /\ EditLoaded' /\ NeverCrashes'
      BY <2>1, <2>2, <3>4, CloseCovers
    <3>6. \A i \in DOMAIN contents' : contents'[i].title # NoSong => Covered(i)'
      BY <3>3, <3>4 DEF TitledCovered
    <3>7. TitledCovered'
      BY <2>1, <3>6 DEF TitledCovered
    <3> QED BY <3>5, <3>7
  <2>3. CASE newCD = NoSong /\ screen' = "crashed"
             /\ UNCHANGED <<now, contents, currentUID, newCD, currentContentID, label,
                            getMusic, opened, asked>>
    <3>1. loading
      BY <2>1, <2>3 DEF EditLoaded
    <3>2. ~Patient'
      BY <2>1, <3>1, Acted DEF Idle
    <3>3. NeverCrashes'
      BY <3>2 DEF NeverCrashes, Patient
    <3> QED BY <2>1, <2>3, <3>3
            DEF AskedCovered, TitledCovered, Covered, EditLoaded, asked
  <2> QED BY <1>3, <2>2, <2>3 DEF TapSaveEdit
<1>4. CASE GoBack
  <2>1. \A i \in DOMAIN contents : Covered(i) => Covered(i)'
    BY <1>4 DEF GoBack, Covered
  <2>2. AskedCovered' /\ EditLoaded' /\ NeverCrashes'
    BY <1>4, <2>1, CloseCovers DEF GoBack
  <2> QED BY <1>4, <2>2 DEF GoBack, TitledCovered, Covered
<1>5. CASE LogOut
  BY <1>5 DEF LogOut, AskedCovered, TitledCovered, Covered, EditLoaded, NeverCrashes, asked
<1>6. ASSUME NEW s \in Songs, ChooseForWrite(s) PROVE CoversThere'
  <2>1. newContent'.cover = s /\ s # NoSong
    BY <1>6, DraftChanged, NamesAssumption DEF ChooseForWrite
  <2> QED BY <1>6, <2>1
          DEF ChooseForWrite, AskedCovered, TitledCovered, Covered, EditLoaded, NeverCrashes
<1>7. ASSUME NEW s \in Songs, ChooseForEdit(s) PROVE CoversThere'
  <2>1. s # NoSong
    BY NamesAssumption
  <2>2. AskedCovered' /\ TitledCovered' /\ NeverCrashes'
    BY <1>7 DEF ChooseForEdit, AskedCovered, TitledCovered, Covered, NeverCrashes, globals
  <2> QED BY <1>7, <2>1, <2>2 DEF ChooseForEdit, EditLoaded, globals
<1>8. ASSUME NEW i \in DOMAIN contents, OpenEdit(i) PROVE CoversThere'
  <2>1. Covered(i)
    BY <1>8 DEF OpenEdit, TitledCovered
  <2>2. covers = 0
    BY <1>8 DEF OpenEdit, EditLoaded
  <2>3. AskedCovered' /\ TitledCovered' /\ NeverCrashes'
    BY <1>8, <2>1 DEF OpenEdit, AskedCovered, TitledCovered, Covered, NeverCrashes
  <2> QED BY <1>8, <2>2, <2>3 DEF OpenEdit, EditLoaded
<1>9. ASSUME NEW u \in Users, SignIn(u) PROVE CoversThere'
  BY <1>9 DEF SignIn, AskedCovered, TitledCovered, Covered, EditLoaded, NeverCrashes, asked
<1> QED BY <1>1, <1>2, <1>3, <1>4, <1>5, <1>6, <1>7, <1>8, <1>9 DEF Person

LEMMA NextCovers ==
  ASSUME TypeOK, CoversThere, [Next]_vars
  PROVE  CoversThere'
<1> USE DEF CoversThere
<1>1. CASE Relaunch
  BY <1>1 DEF Relaunch, AskedCovered, TitledCovered, Covered, EditLoaded, NeverCrashes
<1>2. CASE DayPasses
  BY <1>2 DEF DayPasses, AskedCovered, TitledCovered, Covered, EditLoaded, NeverCrashes,
              globals, view, asked
<1>3. ASSUME NEW i \in DOMAIN contents, DailyViewAnswered(i) PROVE CoversThere'
  BY <1>3 DEF DailyViewAnswered, AskedCovered, TitledCovered, Covered, EditLoaded,
              NeverCrashes, view, asked
<1>4. CASE UNCHANGED vars
  BY <1>4 DEF vars, AskedCovered, TitledCovered, Covered, EditLoaded, NeverCrashes,
              globals, view, asked
<1> QED BY <1>1, <1>2, <1>3, <1>4, AnswersCovers, PersonCovers DEF Next
-------------------------------------------------------------------------------
(***************************************************************************)
(* What a person who waits for the answers sees.                           *)
(***************************************************************************)
Waiting == NothingLate /\ DraftIsChoice /\ SongWhole /\ EditFollows

LEMMA InitWaiting == Init => Waiting
<1> SUFFICES ASSUME Init PROVE Waiting
  OBVIOUS
<1>1. DOMAIN contents = {}
  BY DEF Init
<1> QED BY <1>1 DEF Init, Waiting, NothingLate, DraftIsChoice, SongWhole, EditFollows

(* Once slipped, always slipped.                                           *)
LEMMA SlipsKept ==
  ASSUME TypeOK, [Next]_vars
  PROVE  slips \subseteq slips'
<1>1. CASE Answers
  BY <1>1 DEF Answers, AnswerLoad, ShowChoice, ShowImage, CoverFails, AnswerLateLoad,
              ShowLateChoice
<1>2. CASE Person
  <2>1. slips' = slips \/ (PersonActs \/ \E c \in BOOLEAN : PersonTaps(c))
    BY <1>2 DEF Person, OpenWrite, TapSaveWrite, TapSaveEdit, GoBack, LogOut, ChooseForWrite,
                ChooseForEdit, OpenEdit, SignIn
  <2> QED BY <2>1, Acted, Tapped
<1>3. CASE Relaunch \/ DayPasses \/ UNCHANGED vars
  BY <1>3 DEF Relaunch, DayPasses, vars
<1>4. ASSUME NEW i \in DOMAIN contents, DailyViewAnswered(i) PROVE slips \subseteq slips'
  BY <1>4 DEF DailyViewAnswered
<1> QED BY <1>1, <1>2, <1>3, <1>4 DEF Next

LEMMA PatientBefore ==
  ASSUME TypeOK, [Next]_vars, Patient'
  PROVE  Patient
BY SlipsKept DEF Patient

LEMMA CarefulBefore ==
  ASSUME TypeOK, [Next]_vars, Careful'
  PROVE  Careful
BY SlipsKept DEF Careful

(* What a closed screen of a person who waits leaves: nothing.             *)
LEMMA CloseWaiting ==
  ASSUME TypeOK, Close, Idle, SongWhole'
  PROVE  Waiting'
<1>1. \A i \in Ids : lateLoads'[i] = 0
  <2>1. ~loading /\ \A i \in Ids : lateLoads[i] = 0
    BY DEF Idle
  <2>2. \A i \in Ids : (IF loading /\ i = opened THEN 1 ELSE 0) = 0
    BY <2>1
  <2>3. \A i \in Ids : lateLoads'[i] = 0 + 0
    BY <2>1, <2>2 DEF Close
  <2> QED BY <2>3
<1>2. \A s \in Songs : lateCovers'[s] = 0
  <2>1. covers = 0 /\ \A s \in Songs : lateCovers[s] = 0
    BY DEF Idle
  <2>2. \A s \in Songs : lateCovers'[s] = 0 + 0
    BY <2>1 DEF Close
  <2> QED BY <2>2
<1>3. screen' = "main"
  BY DEF Close
<1> QED BY <1>1, <1>2, <1>3 DEF Waiting, NothingLate, DraftIsChoice, EditFollows

LEMMA AnswersWaiting ==
  ASSUME TypeOK, AskedCovered, EditLoaded, Waiting, Patient, Answers
  PROVE  Waiting'
<1> USE DEF Waiting
<1>1. CASE AnswerLoad
  <2>1. NothingLate' /\ DraftIsChoice' /\ SongWhole'
    BY <1>1 DEF AnswerLoad, NothingLate, DraftIsChoice, SongWhole, Patient, Careful
  <2>2. ASSUME Careful' PROVE label' = EditedSong' /\ newCD' = EditedSong'
    <3>1. Careful /\ opened \in DOMAIN contents
      BY <1>1, <2>2 DEF AnswerLoad, Careful, AskedCovered, Covered
    <3>2. getMusic = NoSong
      BY <1>1, <3>1 DEF AnswerLoad, EditFollows
    <3>3. contents[opened].title = contents[opened].cover
      BY <3>1 DEF SongWhole
    <3> QED BY <1>1, <3>2, <3>3 DEF AnswerLoad, PresentData, EditedSong
  <2> QED BY <1>1, <2>1, <2>2 DEF AnswerLoad, EditFollows
<1>2. CASE ShowChoice
  <2>1. NothingLate' /\ DraftIsChoice' /\ SongWhole'
    BY <1>2 DEF ShowChoice, NothingLate, DraftIsChoice, SongWhole, Patient, Careful
  <2>2. ASSUME Careful' PROVE ~loading' /\ label' = EditedSong' /\ newCD' = EditedSong'
    <3>1. ~loading
      BY <1>2, <2>2 DEF ShowChoice, EditFollows, Careful
    <3>2. getMusic # NoSong
      BY <1>2 DEF ShowChoice, EditLoaded
    <3> QED BY <1>2, <3>1, <3>2 DEF ShowChoice, EditedSong
  <2> QED BY <2>1, <2>2 DEF EditFollows
<1>3. CASE ShowImage
  BY <1>3 DEF ShowImage, NothingLate, DraftIsChoice, SongWhole, EditFollows, EditedSong,
              Patient, Careful, globals, view
<1>4. CASE CoverFails
  BY <1>4 DEF CoverFails, NothingLate, DraftIsChoice, SongWhole, EditFollows,
              Patient, Careful, globals, asked
<1>5. ASSUME NEW i \in Ids, AnswerLateLoad(i) PROVE FALSE
  BY <1>5 DEF AnswerLateLoad, NothingLate
<1>6. ASSUME NEW s \in Songs, ShowLateChoice(s) PROVE FALSE
  BY <1>6 DEF ShowLateChoice, NothingLate
<1> QED BY <1>1, <1>2, <1>3, <1>4, <1>5, <1>6 DEF Answers

(* What a person who waits and chose a song saves on the write screen.     *)
LEMMA SavedIsChoice ==
  ASSUME TypeOK, DraftIsChoice, TapSaveWrite, Patient', Careful'
  PROVE  Draft.title = getMusic /\ Draft.cover = getMusic
<1>1. Patient /\ screen = "write" /\ getMusic # NoSong
  BY Tapped DEF TapSaveWrite
<1> QED BY <1>1 DEF DraftIsChoice, Draft

(* Tapping while the answers are there keeps an entry's title and cover.   *)
LEMMA SongStaysWhole ==
  ASSUME SongWhole, Patient, Careful' => Careful, UNCHANGED contents
  PROVE  SongWhole'
BY DEF SongWhole

LEMMA PersonWaiting ==
  ASSUME TypeOK, AskedCovered, Waiting, Patient, Patient', Person
  PROVE  Waiting'
<1> USE DEF Waiting
<1>1. CASE OpenWrite
  <2>1. SongWhole'
    BY <1>1, Acted, SongStaysWhole DEF OpenWrite
  <2> QED BY <1>1, <2>1 DEF OpenWrite, NothingLate, DraftIsChoice, EditFollows, asked
<1>2. CASE TapSaveWrite
  <2>1. Draft \in Entry /\ contents \in Seq(Entry)
    BY DraftTyped DEF TypeOK
  <2>2. Idle /\ (Careful' => Careful)
    BY <1>2, Tapped DEF TapSaveWrite
  <2>3. contents' = Append(contents, Draft) /\ Close
    BY <1>2 DEF TapSaveWrite
  <2>4. /\ \A i \in DOMAIN contents : contents'[i] = contents[i]
        /\ contents'[Len(contents) + 1] = Draft
        /\ DOMAIN contents' = DOMAIN contents \cup {Len(contents) + 1}
    BY <2>1, <2>3, SavedLast
  <2>5. Careful' => Draft.title = Draft.cover
    BY <1>2, SavedIsChoice
  <2>6. SongWhole'
    BY <2>2, <2>4, <2>5 DEF SongWhole
  <2> QED BY <2>2, <2>3, <2>6, CloseWaiting
<1>3. CASE TapSaveEdit
  <2>1. screen = "edit" /\ Idle /\ (Careful' => Careful)
    BY <1>3, Acted DEF TapSaveEdit
  <2>2. CASE newCD # NoSong /\ Close /\ contents' = [contents EXCEPT
               ![currentContentID].title = label, ![currentContentID].cover = newCD]
    <3>1. currentContentID \in DOMAIN contents
      BY <2>1 DEF AskedCovered
    <3>2. /\ DOMAIN contents' = DOMAIN contents
          /\ contents'[currentContentID].title = label
          /\ contents'[currentContentID].cover = newCD
          /\ \A i \in DOMAIN contents : i # currentContentID => contents'[i] = contents[i]
      BY <2>2, <3>1, EditSaved
    <3>5. Careful => label = newCD
      BY <2>1 DEF EditFollows, Idle
    <3>6. SongWhole'
      BY <2>1, <3>2, <3>5 DEF SongWhole
    <3> QED BY <2>1, <2>2, <3>6, CloseWaiting
  <2>3. CASE newCD = NoSong /\ screen' = "crashed"
             /\ UNCHANGED <<now, contents, currentUID, newCD, currentContentID, label,
                            getMusic, opened, asked>>
    <3>1. SongWhole'
      BY <2>1, <2>3, SongStaysWhole
    <3> QED BY <2>3, <3>1 DEF NothingLate, DraftIsChoice, EditFollows, asked
  <2> QED BY <1>3, <2>2, <2>3 DEF TapSaveEdit
<1>4. CASE GoBack
  <2>1. Idle /\ SongWhole'
    BY <1>4, Acted, SongStaysWhole DEF GoBack
  <2> QED BY <1>4, <2>1, CloseWaiting DEF GoBack
<1>5. CASE LogOut
  <2>1. SongWhole'
    BY <1>5, Acted, SongStaysWhole DEF LogOut
  <2> QED BY <1>5, <2>1 DEF LogOut, NothingLate, DraftIsChoice, EditFollows, asked
<1>6. ASSUME NEW s \in Songs, ChooseForWrite(s) PROVE Waiting'
  <2>1. SongWhole'
    BY <1>6, Acted, SongStaysWhole DEF ChooseForWrite
  <2>2. newContent' \in Entry /\ newContent'.title = s /\ newContent'.cover = s
    BY <1>6, DraftChanged DEF ChooseForWrite
  <2>3. DraftIsChoice'
    BY <1>6, <2>2, NoDraftAssumption DEF ChooseForWrite, DraftIsChoice
  <2> QED BY <1>6, <2>1, <2>3 DEF ChooseForWrite, NothingLate, EditFollows
<1>7. ASSUME NEW s \in Songs, ChooseForEdit(s) PROVE Waiting'
  <2>1. SongWhole'
    BY <1>7, Acted, SongStaysWhole DEF ChooseForEdit
  <2>2. ~loading' /\ covers' = 1
    BY <1>7, Acted DEF ChooseForEdit, Idle
  <2> QED BY <1>7, <2>1, <2>2 DEF ChooseForEdit, NothingLate, DraftIsChoice, EditFollows
<1>8. ASSUME NEW i \in DOMAIN contents, OpenEdit(i) PROVE Waiting'
  <2>1. SongWhole'
    BY <1>8, Acted, SongStaysWhole DEF OpenEdit
  <2>2. covers' = 0 /\ loading' /\ getMusic' = NoSong
    BY <1>8, Acted DEF OpenEdit, Idle
  <2> QED BY <1>8, <2>1, <2>2 DEF OpenEdit, NothingLate, DraftIsChoice, EditFollows
<1>9. ASSUME NEW u \in Users, SignIn(u) PROVE Waiting'
  <2>1. SongWhole'
    BY <1>9, Acted, SongStaysWhole DEF SignIn
  <2> QED BY <1>9, <2>1 DEF SignIn, NothingLate, DraftIsChoice, EditFollows, asked
<1> QED BY <1>1, <1>2, <1>3, <1>4, <1>5, <1>6, <1>7, <1>8, <1>9 DEF Person

LEMMA NextWaiting ==
  ASSUME TypeOK, AskedCovered, EditLoaded, Waiting, [Next]_vars
  PROVE  Waiting'
<1>1. CASE ~Patient'
  BY <1>1 DEF Waiting, NothingLate, DraftIsChoice, SongWhole, EditFollows
<1>2. CASE Patient'
  <2> USE DEF Waiting
  <2>1. Patient
    BY <1>2, PatientBefore
  <2>2. CASE Relaunch
    BY <2>2 DEF Relaunch, NothingLate, DraftIsChoice, SongWhole, EditFollows, Patient, Careful
  <2>3. CASE DayPasses
    BY <2>3 DEF DayPasses, NothingLate, DraftIsChoice, SongWhole, EditFollows, EditedSong,
                Patient, Careful, globals, view, asked
  <2>4. ASSUME NEW i \in DOMAIN contents, DailyViewAnswered(i) PROVE FALSE
    BY <1>2, <2>4 DEF DailyViewAnswered, Patient
  <2>5. CASE UNCHANGED vars
    BY <2>5 DEF vars, NothingLate, DraftIsChoice, SongWhole, EditFollows, EditedSong,
                Patient, Careful, globals, view, asked
  <2> QED BY <1>2, <2>1, <2>2, <2>3, <2>4, <2>5, AnswersWaiting, PersonWaiting DEF Next
<1> QED BY <1>1, <1>2
-------------------------------------------------------------------------------
(***************************************************************************)
(* The theorems.                                                           *)
(***************************************************************************)
LEMMA SpecImpliesIInv == Spec => []IInv
<1>1. Init => IInv
  BY InitTyped, InitCovers, InitWaiting DEF IInv, CoversThere, Waiting
<1>2. IInv /\ [Next]_vars => IInv'
  BY NextTyped, NextCovers, NextWaiting DEF IInv, CoversThere, Waiting
<1> QED BY <1>1, <1>2, PTL DEF Spec

(* Every variable stays in its type: only entries that exist are loaded and *)
(* only their fields are written.                                           *)
THEOREM SpecImpliesTypeOK == Spec => []TypeOK
<1>1. IInv => TypeOK
  BY DEF IInv
<1> QED BY <1>1, SpecImpliesIInv, PTL

(* A person who waits for the answers, and whose downloads succeed, never   *)
(* makes updateData unwrap a cover that is not there, careless or not.      *)
THEOREM SpecImpliesNeverCrashes == Spec => []NeverCrashes
<1>1. IInv => NeverCrashes
  BY DEF IInv
<1> QED BY <1>1, SpecImpliesIInv, PTL

(* Titles and covers stay of one song while the person waits and chooses.   *)
THEOREM SpecImpliesSongWhole == Spec => []SongWhole
<1>1. IInv => SongWhole
  BY DEF IInv
<1> QED BY <1>1, SpecImpliesIInv, PTL

(* The edit screen shows and would save the choice, or else the entry.      *)
THEOREM SpecImpliesEditShowsChoice == Spec => []EditShowsChoice
<1>1. IInv => EditShowsChoice
  BY DEF IInv, EditFollows, EditedSong, EditShowsChoice, Idle
<1> QED BY <1>1, SpecImpliesIInv, PTL

(* What is saved on the write screen is the song chosen on it.              *)
THEOREM SpecImpliesSavesChoice == Spec => SavesChoice
<1>1. IInv /\ [Next]_vars =>
        [TapSaveWrite /\ (Patient /\ Careful)' =>
            LET saved == contents'[Len(contents')]
            IN  saved.title = getMusic /\ saved.cover = getMusic]_vars
  <2> SUFFICES ASSUME IInv, TapSaveWrite, Patient', Careful'
               PROVE  LET saved == contents'[Len(contents')]
                      IN  saved.title = getMusic /\ saved.cover = getMusic
    OBVIOUS
  <2>1. contents' = Append(contents, Draft)
    BY DEF TapSaveWrite
  <2>2. Draft \in Entry /\ contents \in Seq(Entry)
    BY DraftTyped DEF IInv, TypeOK
  <2>3. contents'[Len(contents')] = Draft
    BY <2>1, <2>2, SavedLast
  <2>4. Draft.title = getMusic /\ Draft.cover = getMusic
    BY SavedIsChoice DEF IInv
  <2> QED BY <2>3, <2>4
<1> QED BY <1>1, SpecImpliesIInv, PTL DEF Spec, SavesChoice
===============================================================================
