---------------------------- MODULE MainView_proofs ----------------------------
(***************************************************************************)
(* Proofs about MainView, for every set of diaries, every number of answers *)
(* on the way and every haste.  What the screen shows is put together from  *)
(* answers of three kinds, and the invariants say what the answers still to *)
(* come will make of it.                                                    *)
(***************************************************************************)
EXTENDS MainView, SequenceTheorems, FiniteSetTheorems, TLAPS

(* Sequences of diaries *)

LEMMA Inserted ==
  ASSUME NEW S, NEW s \in Seq(S), NEW d \in S, NEW k \in 0..Len(s)
  PROVE  /\ InsertAt(s, k + 1, d) \in Seq(S)
         /\ Len(InsertAt(s, k + 1, d)) = Len(s) + 1
         /\ \A i \in 1..(Len(s) + 1) : InsertAt(s, k + 1, d)[i] =
              IF i <= k THEN s[i] ELSE IF i = k + 1 THEN d ELSE s[i - 1]
<1> DEFINE a == SubSeq(s, 1, k)
           b == a \o <<d>>
           c == SubSeq(s, k + 1, Len(s))
<1>0. Len(s) \in Nat /\ k \in Nat /\ k <= Len(s)
  BY LenProperties
<1>1. a \in Seq(S) /\ Len(a) = k /\ \A i \in 1..k : a[i] = s[i]
  BY <1>0, SubSeqProperties
<1>2. c \in Seq(S) /\ Len(c) = Len(s) - k /\ \A i \in 1..(Len(s) - k) : c[i] = s[k + i]
  BY <1>0, SubSeqProperties
<1>3. <<d>> \in Seq(S) /\ Len(<<d>>) = 1 /\ <<d>>[1] = d
  OBVIOUS
<1>4. InsertAt(s, k + 1, d) = b \o c
  <2>1. (k + 1) - 1 = k
    BY <1>0
  <2> QED BY <2>1 DEF InsertAt
<1>5. b \in Seq(S) /\ Len(b) = k + 1
      /\ \A i \in 1..(k + 1) : b[i] = IF i <= k THEN a[i] ELSE <<d>>[i - k]
  <2> HIDE DEF a, c
  <2> QED BY <1>0, <1>1, <1>3, ConcatProperties
<1> HIDE DEF a, b, c
<1>6. b \o c \in Seq(S) /\ Len(b \o c) = Len(s) + 1
      /\ \A i \in 1..(Len(s) + 1) :
            (b \o c)[i] = IF i <= k + 1 THEN b[i] ELSE c[i - (k + 1)]
  BY <1>0, <1>2, <1>5, ConcatProperties
<1>7. ASSUME NEW i \in 1..(Len(s) + 1)
      PROVE  (b \o c)[i] = IF i <= k THEN s[i] ELSE IF i = k + 1 THEN d ELSE s[i - 1]
  <2>1. CASE i <= k
    BY <1>0, <1>1, <1>5, <1>6, <2>1
  <2>2. CASE i = k + 1
    BY <1>0, <1>3, <1>5, <1>6, <2>2
  <2>3. CASE i > k + 1
    <3>1. i - (k + 1) \in 1..(Len(s) - k) /\ k + (i - (k + 1)) = i - 1
      BY <1>0, <2>3
    <3>2. (b \o c)[i] = c[i - (k + 1)] /\ ~(i <= k) /\ i # k + 1
      BY <1>0, <1>6, <2>3
    <3>3. c[i - (k + 1)] = s[k + (i - (k + 1))]
      BY <1>2, <3>1
    <3> QED BY <3>1, <3>2, <3>3
  <2>4. i <= k \/ i = k + 1 \/ i > k + 1
    BY <1>0
  <2> QED BY <2>1, <2>2, <2>3, <2>4
<1> DEFINE r == b \o c
<1>8. /\ r \in Seq(S) /\ Len(r) = Len(s) + 1
      /\ \A i \in 1..(Len(s) + 1) :
            r[i] = IF i <= k THEN s[i] ELSE IF i = k + 1 THEN d ELSE s[i - 1]
  BY <1>6, <1>7
<1>9. InsertAt(s, k + 1, d) = r
  BY <1>4
<1> HIDE DEF r
<1> QED BY <1>8, <1>9

LEMMA Removed ==
  ASSUME NEW S, NEW s \in Seq(S), NEW k \in 1..Len(s)
  PROVE  /\ RemoveAt(s, k) \in Seq(S)
         /\ Len(RemoveAt(s, k)) = Len(s) - 1
         /\ \A i \in 1..(Len(s) - 1) : RemoveAt(s, k)[i] =
              IF i < k THEN s[i] ELSE s[i + 1]
<1> DEFINE a == SubSeq(s, 1, k - 1)
           c == SubSeq(s, k + 1, Len(s))
<1>0. Len(s) \in Nat /\ k \in Nat /\ 1 <= k /\ k <= Len(s)
  BY LenProperties
<1>1. a \in Seq(S) /\ Len(a) = k - 1 /\ \A i \in 1..(k - 1) : a[i] = s[i]
  BY <1>0, SubSeqProperties
<1>2. c \in Seq(S) /\ Len(c) = Len(s) - k /\ \A i \in 1..(Len(s) - k) : c[i] = s[k + i]
  BY <1>0, SubSeqProperties
<1>3. RemoveAt(s, k) = a \o c
  BY DEF RemoveAt
<1> HIDE DEF a, c
<1>4. a \o c \in Seq(S) /\ Len(a \o c) = Len(s) - 1
      /\ \A i \in 1..(Len(s) - 1) : (a \o c)[i] = IF i <= k - 1 THEN a[i] ELSE c[i - (k - 1)]
  <2>1. Len(a) + Len(c) = Len(s) - 1
    BY <1>0, <1>1, <1>2
  <2>2. /\ a \o c \in Seq(S) /\ Len(a \o c) = Len(a) + Len(c)
        /\ \A i \in 1..(Len(a) + Len(c)) : (a \o c)[i] = IF i <= Len(a) THEN a[i] ELSE c[i - Len(a)]
    BY <1>1, <1>2, ConcatProperties
  <2> QED BY <1>1, <2>1, <2>2
<1>5. ASSUME NEW i \in 1..(Len(s) - 1)
      PROVE  (a \o c)[i] = IF i < k THEN s[i] ELSE s[i + 1]
  <2>1. CASE i < k
    BY <1>0, <1>1, <1>4, <2>1
  <2>2. CASE i >= k
    <3>1. i - (k - 1) \in 1..(Len(s) - k) /\ k + (i - (k - 1)) = i + 1
      BY <1>0, <2>2
    <3>2. (a \o c)[i] = c[i - (k - 1)] /\ ~(i < k)
      BY <1>0, <1>4, <2>2
    <3>3. c[i - (k - 1)] = s[k + (i - (k - 1))]
      BY <1>2, <3>1
    <3> QED BY <3>1, <3>2, <3>3
  <2>3. i < k \/ i >= k
    BY <1>0
  <2> QED BY <2>1, <2>2, <2>3
<1> DEFINE r == a \o c
<1>6. /\ r \in Seq(S) /\ Len(r) = Len(s) - 1
      /\ \A i \in 1..(Len(s) - 1) : r[i] = IF i < k THEN s[i] ELSE s[i + 1]
  BY <1>4, <1>5
<1>7. RemoveAt(s, k) = r
  BY <1>3
<1> HIDE DEF r
<1> QED BY <1>6, <1>7

(* How many of s are not later than d, so where d is inserted.             *)
Earlier(s, d) == Cardinality({i \in DOMAIN s : s[i] <= d})

LEMMA EarlierTyped ==
  ASSUME NEW s \in Seq(Diaries), NEW d
  PROVE  /\ Earlier(s, d) \in 0..Len(s)
         /\ IsFiniteSet({i \in DOMAIN s : s[i] <= d})
<1> DEFINE E == {i \in DOMAIN s : s[i] <= d}
<1>1. Len(s) \in Nat /\ DOMAIN s = 1..Len(s)
  BY LenProperties
<1>2. IsFiniteSet(1..Len(s)) /\ Cardinality(1..Len(s)) = Len(s)
  <2>1. IsFiniteSet(1..Len(s)) /\ Cardinality(1..Len(s)) = IF 1 > Len(s) THEN 0 ELSE Len(s) - 1 + 1
    BY <1>1, FS_Interval
  <2> QED BY <1>1, <2>1
<1>3. E \in SUBSET (1..Len(s))
  BY <1>1
<1> HIDE DEF E
<1>4. IsFiniteSet(E) /\ Cardinality(E) <= Cardinality(1..Len(s))
  BY <1>2, <1>3, FS_Subset
<1>5. Cardinality(E) \in Nat
  BY <1>4, FS_CardinalityType
<1>6. Cardinality(E) \in 0..Len(s)
  BY <1>1, <1>2, <1>4, <1>5
<1> QED BY <1>4, <1>6 DEF E, Earlier

LEMMA InsertedByDate ==
  ASSUME NEW s \in Seq(Diaries), NEW d \in Diaries
  PROVE  /\ InsertByDate(s, d) \in Seq(Diaries)
         /\ Len(InsertByDate(s, d)) = Len(s) + 1
         /\ DOMAIN InsertByDate(s, d) = 1..(Len(s) + 1)
         /\ \A i \in 1..(Len(s) + 1) : InsertByDate(s, d)[i] =
              IF i <= Earlier(s, d) THEN s[i]
              ELSE IF i = Earlier(s, d) + 1 THEN d ELSE s[i - 1]
<1> DEFINE k == Earlier(s, d)
<1>1. k \in 0..Len(s)
  BY EarlierTyped
<1>2. InsertByDate(s, d) = InsertAt(s, k + 1, d)
  BY DEF InsertByDate, Earlier
<1> HIDE DEF k
<1>3. /\ InsertAt(s, k + 1, d) \in Seq(Diaries)
      /\ Len(InsertAt(s, k + 1, d)) = Len(s) + 1
      /\ \A i \in 1..(Len(s) + 1) : InsertAt(s, k + 1, d)[i] =
           IF i <= k THEN s[i] ELSE IF i = k + 1 THEN d ELSE s[i - 1]
  BY <1>1, Inserted
<1>4. DOMAIN InsertAt(s, k + 1, d) = 1..(Len(s) + 1)
  BY <1>3, LenProperties
<1> QED BY <1>2, <1>3, <1>4 DEF k

LEMMA InsertNotEmpty ==
  ASSUME NEW s \in Seq(Diaries), NEW d \in Diaries
  PROVE  InsertByDate(s, d) # <<>> /\ 1 \in DOMAIN InsertByDate(s, d)
<1>1. Len(InsertByDate(s, d)) = Len(s) + 1 /\ Len(s) \in Nat
      /\ DOMAIN InsertByDate(s, d) = 1..(Len(s) + 1)
  BY InsertedByDate, LenProperties
<1> QED BY <1>1, EmptySeq

LEMMA ElementsInserted ==
  ASSUME NEW s \in Seq(Diaries), NEW d \in Diaries
  PROVE  Elements(InsertByDate(s, d)) = Elements(s) \cup {d}
<1> DEFINE r == InsertByDate(s, d)
           k == Earlier(s, d)
<1>1. /\ DOMAIN r = 1..(Len(s) + 1) /\ DOMAIN s = 1..Len(s) /\ Len(s) \in Nat
      /\ \A i \in 1..(Len(s) + 1) :
           r[i] = IF i <= k THEN s[i] ELSE IF i = k + 1 THEN d ELSE s[i - 1]
  BY InsertedByDate, LenProperties
<1>2. k \in Nat /\ k <= Len(s)
  <2>1. k \in 0..Len(s)
    BY EarlierTyped
  <2> QED BY <1>1, <2>1
<1> HIDE DEF r, k
<1>3. ASSUME NEW i \in DOMAIN r PROVE r[i] \in Elements(s) \cup {d}
  <2>1. CASE i <= k
    <3>1. i \in DOMAIN s /\ r[i] = s[i]
      BY <1>1, <1>2, <2>1
    <3> QED BY <3>1 DEF Elements
  <2>2. CASE i = k + 1
    BY <1>1, <1>2, <2>2
  <2>3. CASE i > k + 1
    <3>1. i - 1 \in DOMAIN s /\ ~(i <= k) /\ i # k + 1
      BY <1>1, <1>2, <2>3
    <3>2. r[i] = s[i - 1]
      BY <1>1, <3>1
    <3> QED BY <3>1, <3>2 DEF Elements
  <2>4. i <= k \/ i = k + 1 \/ i > k + 1
    BY <1>1, <1>2
  <2> QED BY <2>1, <2>2, <2>3, <2>4
<1>4. ASSUME NEW i \in DOMAIN s PROVE \E j \in DOMAIN r : r[j] = s[i]
  <2>1. CASE i <= k
    <3>1. i \in DOMAIN r /\ r[i] = s[i]
      BY <1>1, <1>2, <2>1
    <3> QED BY <3>1
  <2>2. CASE i > k
    <3>1. i + 1 \in 1..(Len(s) + 1) /\ ~(i + 1 <= k) /\ i + 1 # k + 1 /\ (i + 1) - 1 = i
      BY <1>1, <1>2, <2>2
    <3>2. r[i + 1] = s[i]
      BY <1>1, <3>1
    <3> QED BY <1>1, <3>1, <3>2
  <2>3. i <= k \/ i > k
    BY <1>1, <1>2
  <2> QED BY <2>1, <2>2, <2>3
<1>5. \E j \in DOMAIN r : r[j] = d
  <2>1. k + 1 \in 1..(Len(s) + 1) /\ ~(k + 1 <= k)
    BY <1>1, <1>2
  <2>2. r[k + 1] = d
    BY <1>1, <2>1
  <2> QED BY <1>1, <2>1, <2>2
<1>6. Elements(r) = Elements(s) \cup {d}
  BY <1>3, <1>4, <1>5 DEF Elements
<1> QED BY <1>6 DEF r

(* A set of positions that holds every lower one is an initial segment.    *)
LEMMA InitialSegment ==
  ASSUME NEW n \in Nat, NEW E \in SUBSET (1..n),
         \A i \in E : \A j \in 1..n : j <= i => j \in E
  PROVE  E = 1..Cardinality(E)
<1> DEFINE m == Cardinality(E)
<1>1. IsFiniteSet(1..n)
  BY FS_Interval
<1>2. IsFiniteSet(E) /\ m \in Nat
  BY <1>1, FS_Subset, FS_CardinalityType
<1>3. ASSUME NEW i \in E PROVE i \in 1..m
  <2>1. i \in Nat /\ i >= 1 /\ i <= n
    OBVIOUS
  <2>2. (1..i) \in SUBSET E
    BY <2>1
  <2>3. Cardinality(1..i) <= Cardinality(E)
    BY <1>2, <2>2, FS_Subset
  <2>4. Cardinality(1..i) = i
    <3>1. Cardinality(1..i) = IF 1 > i THEN 0 ELSE i - 1 + 1
      BY <2>1, FS_Interval
    <3> QED BY <2>1, <3>1
  <2> QED BY <1>2, <2>1, <2>3, <2>4
<1> HIDE DEF m
<1>4. E \in SUBSET (1..m)
  BY <1>3
<1>5. IsFiniteSet(1..m) /\ Cardinality(1..m) = m
  <2>1. IsFiniteSet(1..m) /\ Cardinality(1..m) = IF 1 > m THEN 0 ELSE m - 1 + 1
    BY <1>2, FS_Interval
  <2> QED BY <1>2, <2>1
<1>6. Cardinality(1..m) = Cardinality(E)
  BY <1>5 DEF m
<1>7. 1..m = E
  BY <1>4, <1>5, <1>6, FS_Subset
<1> QED BY <1>7 DEF m

(* A diary that is not among sorted ones is inserted in its place.         *)
LEMMA InsertedSorted ==
  ASSUME NEW s \in Seq(Diaries), NEW d \in Diaries, Sorted(s), d \notin Elements(s)
  PROVE  Sorted(InsertByDate(s, d))
<1> DEFINE r == InsertByDate(s, d)
           k == Earlier(s, d)
           E == {i \in DOMAIN s : s[i] <= d}
<1>1. /\ DOMAIN r = 1..(Len(s) + 1) /\ DOMAIN s = 1..Len(s) /\ Len(s) \in Nat
      /\ \A i \in 1..(Len(s) + 1) :
           r[i] = IF i <= k THEN s[i] ELSE IF i = k + 1 THEN d ELSE s[i - 1]
  BY InsertedByDate, LenProperties
<1>2. k \in Nat /\ k <= Len(s)
  <2>1. k \in 0..Len(s)
    BY EarlierTyped
  <2> QED BY <1>1, <2>1
<1>3. \A i \in DOMAIN s : s[i] \in Nat /\ s[i] # d
  BY <1>1, ElementOfSeq, DiariesAssumption DEF Elements
<1>4. d \in Nat
  BY DiariesAssumption
<1>5. E = 1..k
  <2>1. E \in SUBSET (1..Len(s))
    BY <1>1
  <2>2. ASSUME NEW i \in E, NEW j \in 1..Len(s), j <= i PROVE j \in E
    <3>1. i \in DOMAIN s /\ j \in DOMAIN s /\ s[i] <= d
      BY <1>1
    <3>2. j = i \/ s[j] < s[i]
      BY <1>1, <2>2, <3>1 DEF Sorted
    <3>3. s[j] <= d
      BY <1>3, <1>4, <3>1, <3>2
    <3> QED BY <3>1, <3>3
  <2> HIDE DEF E
  <2>3. E = 1..Cardinality(E)
    BY <1>1, <2>1, <2>2, InitialSegment
  <2>4. Cardinality(E) = k
    BY DEF E, Earlier
  <2> QED BY <2>3, <2>4
<1>6. \A i \in DOMAIN s : (i <= k => s[i] < d) /\ (i > k => d < s[i])
  <2> SUFFICES ASSUME NEW i \in DOMAIN s PROVE (i <= k => s[i] < d) /\ (i > k => d < s[i])
    OBVIOUS
  <2>1. i \in Nat /\ i >= 1 /\ (i <= k <=> i \in 1..k)
    BY <1>1, <1>2
  <2>2. i \in E <=> s[i] <= d
    OBVIOUS
  <2>3. i <= k <=> s[i] <= d
    BY <1>5, <2>1, <2>2
  <2>4. s[i] \in Nat /\ s[i] # d
    BY <1>3
  <2> QED BY <1>2, <1>4, <2>1, <2>3, <2>4
<1> HIDE DEF r, k, E
<1>7. ASSUME NEW i \in DOMAIN r, NEW j \in DOMAIN r, i < j
      PROVE  r[i] < r[j]
  <2>1. /\ i \in 1..(Len(s) + 1) /\ j \in 1..(Len(s) + 1)
        /\ (i <= k \/ i = k + 1 \/ i > k + 1) /\ (j <= k \/ j = k + 1 \/ j > k + 1)
    BY <1>1, <1>2
  <2>2. CASE j <= k
    <3>1. i <= k /\ i \in DOMAIN s /\ j \in DOMAIN s
      BY <1>1, <1>2, <1>7, <2>1, <2>2
    <3>2. r[i] = s[i] /\ r[j] = s[j]
      BY <1>1, <2>1, <2>2, <3>1
    <3> QED BY <1>7, <3>1, <3>2 DEF Sorted
  <2>3. CASE j = k + 1
    <3>1. i <= k /\ i \in DOMAIN s /\ ~(j <= k)
      BY <1>1, <1>2, <1>7, <2>1, <2>3
    <3>2. r[i] = s[i] /\ r[j] = d
      BY <1>1, <2>1, <2>3, <3>1
    <3> QED BY <1>6, <3>1, <3>2
  <2>4. CASE j > k + 1
    <3>1. j - 1 \in DOMAIN s /\ j - 1 > k /\ ~(j <= k) /\ j # k + 1
      BY <1>1, <1>2, <2>1, <2>4
    <3>2. r[j] = s[j - 1]
      BY <1>1, <2>1, <3>1
    <3>3. CASE i <= k
      <4>1. i \in DOMAIN s /\ i < j - 1
        BY <1>1, <1>2, <2>1, <3>1, <3>3
      <4>2. r[i] = s[i]
        BY <1>1, <2>1, <3>3
      <4> QED BY <3>1, <3>2, <4>1, <4>2 DEF Sorted
    <3>4. CASE i = k + 1
      <4>1. ~(i <= k)
        BY <1>2, <3>4
      <4>2. r[i] = d
        BY <1>1, <2>1, <3>4, <4>1
      <4> QED BY <1>6, <3>1, <3>2, <4>2
    <3>5. CASE i > k + 1
      <4>1. i - 1 \in DOMAIN s /\ i - 1 < j - 1 /\ ~(i <= k) /\ i # k + 1
        BY <1>1, <1>2, <1>7, <2>1, <3>5
      <4>2. r[i] = s[i - 1]
        BY <1>1, <2>1, <4>1
      <4> QED BY <3>1, <3>2, <4>1, <4>2 DEF Sorted
    <3> QED BY <2>1, <3>3, <3>4, <3>5
  <2> QED BY <2>1, <2>2, <2>3, <2>4
<1>8. Sorted(r)
  BY <1>7 DEF Sorted
<1> QED BY <1>8 DEF r
-------------------------------------------------------------------------------
(***************************************************************************)
(* Type correctness.                                                       *)
(***************************************************************************)
LEMMA SeqNotEmpty ==
  ASSUME NEW S, NEW s \in Seq(S)
  PROVE  /\ Len(s) \in Nat /\ DOMAIN s = 1..Len(s) /\ \A i \in DOMAIN s : s[i] \in S
         /\ s # <<>> <=> Len(s) > 0
         /\ s # <<>> => 1 \in DOMAIN s /\ Len(s) \in DOMAIN s
<1>1. Len(s) \in Nat /\ DOMAIN s = 1..Len(s)
  BY LenProperties
<1>2. \A i \in DOMAIN s : s[i] \in S
  BY <1>1, ElementOfSeq
<1>3. s = <<>> <=> Len(s) = 0
  BY EmptySeq
<1> QED BY <1>1, <1>2, <1>3

LEMMA ListsTyped ==
  ASSUME TypeOK
  PROVE  /\ listed \in SUBSET Diaries /\ adding \in SUBSET Diaries
         /\ cached \in SUBSET Diaries /\ getDiaryList \in SUBSET Diaries
BY DEF TypeOK

LEMMA InitTyped == Init => TypeOK
<1> SUFFICES ASSUME Init PROVE TypeOK
  OBVIOUS
<1>1. /\ listed \in SUBSET Diaries /\ adding \in SUBSET Diaries
      /\ cached \in SUBSET Diaries /\ getDiaryList \in SUBSET Diaries
  BY DiariesAssumption DEF Init
<1>2. diaryData \in Seq(Diaries) /\ cards \in Seq(Diaries) /\ hideAsked \in Seq(Diaries)
  BY EmptySeq DEF Init
<1>3. centre \in 0..Len(cards)
  <2>1. centre = 0 /\ Len(cards) = 0
    BY EmptySeq DEF Init
  <2> QED BY <2>1
<1>4. diaryAsked \in [Diaries -> Nat]
  BY DEF Init
<1>5. hasty \in 0..MaxHaste
  BY BoundsAssumption DEF Init
<1> QED BY <1>1, <1>2, <1>3, <1>4, <1>5 DEF Init, TypeOK

LEMMA AppearTyped ==
  ASSUME TypeOK, Appear
  PROVE  /\ diaryData' \in Seq(Diaries) /\ cards' \in Seq(Diaries)
         /\ centre' \in 0..Len(cards') /\ userAsked' \in Nat
         /\ screen' \in {"main", "write", "daily", "crashed"}
<1>1. diaryData' = <<>> /\ cards' = <<>> /\ centre' = 0 /\ screen' = "main"
      /\ userAsked' = userAsked + 1
  BY DEF Appear, LoadDiaryData
<1>2. <<>> \in Seq(Diaries) /\ Len(<<>>) = 0
  BY EmptySeq
<1>3. userAsked' \in Nat
  BY <1>1 DEF TypeOK
<1> QED BY <1>1, <1>2, <1>3

(* What the end of an answer for a diary does, when there is one.          *)
LEMMA Selects ==
  ASSUME TypeOK, NEW data \in Seq(Diaries), SelectFirst(data), data # <<>>
  PROVE  /\ UNCHANGED screen /\ diaryData' = data /\ cards' = data
         /\ currentDairyId' = data[1] /\ hideAsked' = Append(hideAsked, data[1])
         /\ data[1] \in Diaries
         /\ centre' = IF centre = 0 THEN 1
                      ELSE IF centre > Len(data) THEN Len(data) ELSE centre
         /\ centre' \in DOMAIN data
<1>1. UNCHANGED screen
  BY DEF SelectFirst
<1>2. Len(data) \in Nat /\ DOMAIN data = 1..Len(data) /\ data[1] \in Diaries /\ Len(data) > 0
  BY SeqNotEmpty
<1>3. /\ diaryData' = data /\ cards' = data
      /\ currentDairyId' = data[1] /\ hideAsked' = Append(hideAsked, data[1])
      /\ centre' = IF centre = 0 THEN 1
                   ELSE IF centre > Len(data) THEN Len(data) ELSE centre
  BY DEF SelectFirst, HideWrite, Reload
<1>4. centre \in Nat
  BY SeqNotEmpty DEF TypeOK
<1>5. centre' \in DOMAIN data
  BY <1>2, <1>3, <1>4
<1> QED BY <1>1, <1>2, <1>3, <1>5

LEMMA SelectTyped ==
  ASSUME TypeOK, NEW data \in Seq(Diaries), SelectFirst(data)
  PROVE  /\ diaryData' \in Seq(Diaries) /\ cards' \in Seq(Diaries)
         /\ centre' \in 0..Len(cards')
         /\ currentDairyId' \in Diaries \cup {NoDiary}
         /\ hideAsked' \in Seq(Diaries)
         /\ screen' \in {"main", "write", "daily", "crashed"}
<1>1. CASE data # <<>>
  <2>1. /\ UNCHANGED screen /\ diaryData' = data /\ cards' = data
        /\ currentDairyId' = data[1] /\ hideAsked' = Append(hideAsked, data[1])
        /\ data[1] \in Diaries /\ centre' \in DOMAIN data
    BY <1>1, Selects
  <2>2. hideAsked' \in Seq(Diaries)
    BY <2>1, AppendProperties DEF TypeOK
  <2>3. centre' \in 0..Len(cards')
    <3>1. centre' \in 1..Len(data)
      BY <2>1, SeqNotEmpty
    <3> QED BY <2>1, <3>1
  <2> QED BY <2>1, <2>2, <2>3 DEF TypeOK
<1>2. CASE data = <<>>
  <2>1. UNCHANGED <<diaryData, currentDairyId, hideAsked, carousel>> /\ screen' = "crashed"
    BY <1>2 DEF SelectFirst
  <2> QED BY <2>1 DEF TypeOK, carousel
<1> QED BY <1>1, <1>2

(* The sequence an answer for d ends with.                                 *)
Answered(d, data) ==
  /\ diaryAsked[d] > 0
  /\ SelectFirst(data)
  /\ \/ data = InsertByDate(diaryData, d)
     \/ Offline /\ data = diaryData

LEMMA AnswerIs ==
  ASSUME TypeOK, NEW d \in Diaries, AnswerDiary(d)
  PROVE  \E data \in Seq(Diaries) : Answered(d, data)
<1>1. diaryData \in Seq(Diaries)
  BY DEF TypeOK
<1>2. InsertByDate(diaryData, d) \in Seq(Diaries)
  BY <1>1, InsertedByDate
<1>3. ShowDiary(d) \/ (Offline /\ SelectFirst(diaryData))
  BY ZenonT(20) DEF AnswerDiary
<1>5. diaryAsked[d] > 0
  BY DEF AnswerDiary
<1>4. ShowDiary(d) => SelectFirst(InsertByDate(diaryData, d))
  BY DEF ShowDiary
<1> QED BY <1>1, <1>2, <1>3, <1>4, <1>5 DEF Answered

LEMMA AnswersTyped ==
  ASSUME TypeOK, Answers
  PROVE  TypeOK'
<1>0. /\ listed \in SUBSET Diaries /\ adding \in SUBSET Diaries
      /\ cached \in SUBSET Diaries /\ getDiaryList \in SUBSET Diaries
  BY ListsTyped
<1>1. CASE AnswerUser
  <2>1. userAsked' \in Nat
    BY <1>1 DEF AnswerUser, TypeOK
  <2>2. diaryAsked' \in [Diaries -> Nat]
    <3>1. \A d \in Diaries : diaryAsked[d] \in Nat /\ (IF d \in listed THEN 1 ELSE 0) \in Nat
      BY DEF TypeOK
    <3>2. \A d \in Diaries : diaryAsked[d] + (IF d \in listed THEN 1 ELSE 0) \in Nat
      BY <3>1
    <3> QED BY <1>1, <3>2 DEF AnswerUser
  <2>3. {listed, adding, cached, getDiaryList}' \subseteq SUBSET Diaries
    BY <1>0, <1>1 DEF AnswerUser, firestore
  <2> QED BY <1>1, <2>1, <2>2, <2>3 DEF AnswerUser, TypeOK, firestore, carousel
<1>2. ASSUME NEW d \in Diaries, AnswerDiary(d) PROVE TypeOK'
  <2>1. PICK data \in Seq(Diaries) : Answered(d, data)
    BY <1>2, AnswerIs
  <2>2. /\ diaryData' \in Seq(Diaries) /\ cards' \in Seq(Diaries)
        /\ centre' \in 0..Len(cards')
        /\ currentDairyId' \in Diaries \cup {NoDiary}
        /\ hideAsked' \in Seq(Diaries)
        /\ screen' \in {"main", "write", "daily", "crashed"}
    BY <2>1, SelectTyped DEF Answered
  <2>3. diaryAsked' \in [Diaries -> Nat]
    <3>1. diaryAsked[d] \in Nat /\ diaryAsked[d] > 0
      BY <1>2 DEF AnswerDiary, TypeOK
    <3> QED BY <1>2, <3>1 DEF AnswerDiary, TypeOK
  <2>4. {listed, adding, cached, getDiaryList}' \subseteq SUBSET Diaries
    BY <1>0, <1>2 DEF AnswerDiary
  <2> QED BY <1>2, <2>2, <2>3, <2>4 DEF AnswerDiary, TypeOK
<1>3. ASSUME NEW d \in Diaries, CompleteAddDiary(d) PROVE TypeOK'
  <2>1. userAsked' \in Nat /\ diaryData' \in Seq(Diaries)
    BY <1>3, EmptySeq DEF CompleteAddDiary, LoadDiaryData, TypeOK
  <2>2. {listed, adding, cached, getDiaryList}' \subseteq SUBSET Diaries
    BY <1>0, <1>3 DEF CompleteAddDiary
  <2> QED BY <1>3, <2>1, <2>2 DEF CompleteAddDiary, TypeOK, carousel
<1>4. ASSUME NEW k \in DOMAIN hideAsked, AnswerHideWrite(k) PROVE TypeOK'
  <2>1. hideAsked' \in Seq(Diaries)
    <3>1. k \in 1..Len(hideAsked)
      BY SeqNotEmpty DEF TypeOK
    <3> QED BY <1>4, <3>1, Removed DEF AnswerHideWrite, TypeOK
  <2>2. writeHidden' \in BOOLEAN
    BY <1>4 DEF AnswerHideWrite
  <2> QED BY <1>4, <2>1, <2>2 DEF AnswerHideWrite, TypeOK, firestore, carousel
<1> QED BY <1>1, <1>2, <1>3, <1>4 DEF Answers

LEMMA PersonActsTyped ==
  ASSUME TypeOK, PersonActs
  PROVE  /\ hasty' \in 0..MaxHaste
         /\ hasty' = 0 => hasty = 0 /\ Idle
<1>1. hasty \in Nat /\ hasty <= MaxHaste /\ MaxHaste \in Nat
  BY BoundsAssumption DEF TypeOK
<1>2. (Idle /\ hasty' = hasty) \/ (~Idle /\ hasty < MaxHaste /\ hasty' = hasty + 1)
  BY DEF PersonActs
<1> QED BY <1>1, <1>2

LEMMA PersonTyped ==
  ASSUME TypeOK, Person
  PROVE  TypeOK'
<1>0. /\ listed \in SUBSET Diaries /\ adding \in SUBSET Diaries
      /\ cached \in SUBSET Diaries /\ getDiaryList \in SUBSET Diaries
  BY ListsTyped
<1>1. ASSUME NEW i \in DOMAIN cards, Scroll(i) PROVE TypeOK'
  <2>1. hasty' \in 0..MaxHaste
    BY <1>1, PersonActsTyped DEF Scroll
  <2>2. centre' \in 0..Len(cards')
    BY <1>1 DEF Scroll
  <2>3. currentDairyId' \in Diaries \cup {NoDiary} /\ hideAsked' \in Seq(Diaries)
    <3>1. CASE i <= Len(diaryData) /\ SelectCard(i)
      <4>1. i \in 1..Len(cards) /\ Len(diaryData) \in Nat /\ Len(cards) \in Nat
        BY <1>1, SeqNotEmpty DEF Scroll, TypeOK
      <4>2. i \in 1..Len(diaryData)
        BY <3>1, <4>1
      <4>3. diaryData[i] \in Diaries
        BY <4>2, SeqNotEmpty DEF TypeOK
      <4> QED BY <3>1, <4>3, AppendProperties DEF SelectCard, HideWrite, TypeOK
    <3>2. CASE UNCHANGED <<currentDairyId, hideAsked>>
      BY <3>2 DEF TypeOK
    <3> QED BY <1>1, <3>1, <3>2 DEF Scroll
  <2>4. screen' \in {"main", "write", "daily", "crashed"}
    BY <1>1 DEF Scroll, TypeOK
  <2> QED BY <1>1, <2>1, <2>2, <2>3, <2>4 DEF Scroll, TypeOK, firestore
<1>2. CASE MoveToWrite
  BY <1>2, PersonActsTyped DEF MoveToWrite, TypeOK, firestore, carousel, asked
<1>3. CASE TapSave
  <2>1. {listed, adding, cached, getDiaryList}' \subseteq SUBSET Diaries
    BY <1>0, <1>3 DEF TapSave
  <2>2. CASE /\ target # NoDiary /\ written[target] < MaxEntries
             /\ written' = [written EXCEPT ![target] = @ + 1]
             /\ Appear
    <3>1. target \in Diaries /\ written[target] \in 0..MaxEntries
      BY <2>2 DEF TypeOK
    <3>2. written[target] + 1 \in 0..MaxEntries
      BY <2>2, <3>1, BoundsAssumption
    <3>3. written' \in [Diaries -> 0..MaxEntries]
      BY <2>2, <3>1, <3>2 DEF TypeOK
    <3>4. /\ diaryData' \in Seq(Diaries) /\ cards' \in Seq(Diaries)
          /\ centre' \in 0..Len(cards') /\ userAsked' \in Nat
          /\ screen' \in {"main", "write", "daily", "crashed"}
      BY <2>2, AppearTyped
    <3> QED BY <1>3, <2>1, <3>3, <3>4 DEF TapSave, TypeOK
  <2>3. CASE screen' = "crashed" /\ UNCHANGED <<written, diaryData, userAsked, carousel>>
    BY <1>3, <2>1, <2>3 DEF TapSave, TypeOK, carousel
  <2> QED BY <1>3, <2>2, <2>3 DEF TapSave
<1>4. CASE OpenCard
  BY <1>4, PersonActsTyped DEF OpenCard, TypeOK, firestore, carousel, asked
<1>5. CASE ReappearDaily
  BY <1>5 DEF ReappearDaily, TypeOK, firestore, carousel, asked
<1>6. CASE GoBack
  <2>1. /\ diaryData' \in Seq(Diaries) /\ cards' \in Seq(Diaries)
        /\ centre' \in 0..Len(cards') /\ userAsked' \in Nat
        /\ screen' \in {"main", "write", "daily", "crashed"}
    BY <1>6, AppearTyped DEF GoBack
  <2> QED BY <1>6, <2>1 DEF GoBack, TypeOK, firestore
<1>7. ASSUME NEW d \in Diaries, AddDiary(d) PROVE TypeOK'
  <2>1. {listed, adding, cached, getDiaryList}' \subseteq SUBSET Diaries
    BY <1>0, <1>7 DEF AddDiary
  <2>2. hasty' \in 0..MaxHaste
    BY <1>7, PersonActsTyped DEF AddDiary
  <2> QED BY <1>7, <2>1, <2>2 DEF AddDiary, TypeOK, carousel, asked
<1> QED BY <1>1, <1>2, <1>3, <1>4, <1>5, <1>6, <1>7 DEF Person

LEMMA NextTyped ==
  ASSUME TypeOK, [Next]_vars
  PROVE  TypeOK'
<1>1. ASSUME NEW d \in Diaries, FriendShares(d) PROVE TypeOK'
  <2>1. {listed, adding, cached, getDiaryList}' \subseteq SUBSET Diaries
    BY <1>1, ListsTyped DEF FriendShares
  <2> QED BY <1>1, <2>1 DEF FriendShares, TypeOK, carousel, asked
<1>2. CASE UNCHANGED vars
  BY <1>2 DEF vars, TypeOK, firestore, carousel, asked
<1> QED BY <1>1, <1>2, AnswersTyped, PersonTyped DEF Next
-------------------------------------------------------------------------------
(***************************************************************************)
(* What the cards are, whatever the haste.                                 *)
(***************************************************************************)
LEMMA AppendedLast ==
  ASSUME NEW S, NEW s \in Seq(S), NEW e \in S
  PROVE  Append(s, e) # <<>> /\ Append(s, e)[Len(Append(s, e))] = e
<1>1. Append(s, e) \in Seq(S) /\ Len(Append(s, e)) = Len(s) + 1 /\ Len(s) \in Nat
      /\ Append(s, e)[Len(s) + 1] = e
  BY AppendProperties, LenProperties
<1> QED BY <1>1, EmptySeq

(* What an answer for a diary leaves: it selects, or it raises.            *)
LEMMA AnswerSelects ==
  ASSUME TypeOK, NEW d \in Diaries, AnswerDiary(d), screen' # "crashed"
  PROVE  \E data \in Seq(Diaries) :
           /\ Answered(d, data)
           /\ data # <<>> /\ diaryData' = data /\ cards' = data /\ UNCHANGED screen
           /\ currentDairyId' = data[1] /\ data[1] \in Diaries
           /\ hideAsked' = Append(hideAsked, data[1])
           /\ centre' = IF centre = 0 THEN 1
                        ELSE IF centre > Len(data) THEN Len(data) ELSE centre
           /\ centre' \in DOMAIN data /\ centre' # 0
<1>1. PICK data \in Seq(Diaries) : Answered(d, data)
  BY AnswerIs
<1>2. data # <<>> /\ SelectFirst(data)
  BY <1>1 DEF Answered, SelectFirst
<1>3. /\ diaryData' = data /\ cards' = data /\ UNCHANGED screen
      /\ currentDairyId' = data[1] /\ data[1] \in Diaries
      /\ hideAsked' = Append(hideAsked, data[1])
      /\ centre' = IF centre = 0 THEN 1
                   ELSE IF centre > Len(data) THEN Len(data) ELSE centre
      /\ centre' \in DOMAIN data
  BY <1>2, Selects
<1>4. centre' # 0
  BY <1>3, SeqNotEmpty
<1> QED BY <1>1, <1>2, <1>3, <1>4

(* The user's document asks for the diaries that are listed.               *)
LEMMA UserAsks ==
  ASSUME TypeOK, AnswerUser
  PROVE  /\ \A d \in Diaries : diaryAsked'[d] > 0 <=> diaryAsked[d] > 0 \/ d \in listed
         /\ DiariesToCome => DiariesToCome'
<1>1. \A d \in Diaries : diaryAsked'[d] > 0 <=> diaryAsked[d] > 0 \/ d \in listed
  <2> SUFFICES ASSUME NEW d \in Diaries
               PROVE  diaryAsked'[d] > 0 <=> diaryAsked[d] > 0 \/ d \in listed
    OBVIOUS
  <2>1. diaryAsked[d] \in Nat /\ diaryAsked'[d] = diaryAsked[d] + IF d \in listed THEN 1 ELSE 0
    BY DEF AnswerUser, TypeOK
  <2>2. CASE d \in listed
    BY <2>1, <2>2
  <2>3. CASE d \notin listed
    BY <2>1, <2>3
  <2> QED BY <2>2, <2>3
<1>2. DiariesToCome => \E d \in Diaries : diaryAsked'[d] > 0
  BY <1>1, ListsTyped DEF DiariesToCome
<1> QED BY <1>1, <1>2 DEF DiariesToCome

(* Asking for the user's document keeps what is to come, or makes it so.   *)
LEMMA LoadAsks ==
  ASSUME TypeOK, LoadDiaryData, UNCHANGED diaryAsked, listed \subseteq listed'
  PROVE  DiariesToCome \/ listed' # {} => DiariesToCome'
<1>1. userAsked \in Nat /\ userAsked' = userAsked + 1
  BY DEF TypeOK, LoadDiaryData
<1> QED BY <1>1 DEF DiariesToCome

Shown == ListedFirst /\ CardsFollow

LEMMA InitShown == Init => Shown
BY DEF Init, Shown, ListedFirst, CardsFollow

LEMMA AppearShown ==
  ASSUME ListedFirst, Appear, UNCHANGED <<listed, diaryAsked, currentDairyId>>
  PROVE  Shown'
BY DEF Shown, ListedFirst, CardsFollow, Appear, LoadDiaryData

LEMMA AnswersShown ==
  ASSUME TypeOK, Shown, Answers
  PROVE  Shown'
<1> USE DEF Shown
<1>1. CASE AnswerUser
  <2>1. ListedFirst'
    BY <1>1, UserAsks DEF AnswerUser, ListedFirst, firestore
  <2>2. CardsFollow'
    BY <1>1, UserAsks DEF AnswerUser, CardsFollow, carousel
  <2> QED BY <2>1, <2>2
<1>2. ASSUME NEW d \in Diaries, AnswerDiary(d) PROVE Shown'
  <2>1. ListedFirst'
    <3>1. diaryAsked[d] > 0 /\ UNCHANGED listed
      BY <1>2 DEF AnswerDiary
    <3> QED BY <3>1 DEF ListedFirst
  <2>2. CardsFollow'
    BY <1>2, AnswerSelects DEF CardsFollow
  <2> QED BY <2>1, <2>2
<1>3. ASSUME NEW d \in Diaries, CompleteAddDiary(d) PROVE Shown'
  <2>1. LoadDiaryData /\ UNCHANGED diaryAsked /\ listed' = listed \cup {d}
    BY <1>3 DEF CompleteAddDiary
  <2>2. DiariesToCome' /\ listed' # {}
    BY <2>1, LoadAsks
  <2>3. diaryData' = <<>> /\ UNCHANGED <<carousel, screen>>
    BY <1>3 DEF CompleteAddDiary, LoadDiaryData
  <2> QED BY <2>2, <2>3 DEF ListedFirst, CardsFollow, carousel
<1>4. ASSUME NEW k \in DOMAIN hideAsked, AnswerHideWrite(k) PROVE Shown'
  BY <1>4 DEF AnswerHideWrite, ListedFirst, CardsFollow, DiariesToCome, firestore, carousel
<1> QED BY <1>1, <1>2, <1>3, <1>4 DEF Answers

LEMMA PersonShown ==
  ASSUME TypeOK, Shown, Person
  PROVE  Shown'
<1> USE DEF Shown
<1>1. ASSUME NEW i \in DOMAIN cards, Scroll(i) PROVE Shown'
  <2>1. i \in 1..Len(cards) /\ Len(cards) \in Nat /\ Len(diaryData) \in Nat
    BY <1>1, SeqNotEmpty DEF Scroll, TypeOK
  <2>2. i # 0 /\ UNCHANGED <<listed, diaryData, cards, userAsked, diaryAsked>> /\ centre' = i
    BY <1>1, <2>1 DEF Scroll, firestore
  <2>3. CardsFollow'
    BY <1>1, <2>2 DEF Scroll, CardsFollow, DiariesToCome
  <2>4. UNCHANGED currentDairyId \/ diaryData # <<>>
    <3>1. CASE i <= Len(diaryData)
      <4>1. Len(diaryData) > 0
        BY <2>1, <3>1
      <4> QED BY <4>1, SeqNotEmpty DEF TypeOK
    <3>2. CASE UNCHANGED <<currentDairyId, hideAsked>>
      BY <3>2
    <3> QED BY <1>1, <3>1, <3>2 DEF Scroll
  <2>5. ListedFirst'
    BY <2>2, <2>4 DEF ListedFirst
  <2> QED BY <2>3, <2>5
<1>2. CASE MoveToWrite
  BY <1>2 DEF MoveToWrite, ListedFirst, CardsFollow, DiariesToCome, firestore, carousel, asked
<1>3. CASE TapSave
  <2>1. CASE Appear
    BY <1>3, <2>1, AppearShown DEF TapSave
  <2>2. CASE screen' = "crashed" /\ UNCHANGED <<written, diaryData, userAsked, carousel>>
    BY <1>3, <2>2 DEF TapSave, ListedFirst, CardsFollow
  <2> QED BY <1>3, <2>1, <2>2 DEF TapSave
<1>4. CASE OpenCard
  BY <1>4 DEF OpenCard, ListedFirst, CardsFollow, DiariesToCome, firestore, carousel, asked
<1>5. CASE ReappearDaily
  BY <1>5 DEF ReappearDaily, ListedFirst, CardsFollow, DiariesToCome, firestore, carousel, asked
<1>6. CASE GoBack
  BY <1>6, AppearShown DEF GoBack, firestore
<1>7. ASSUME NEW d \in Diaries, AddDiary(d) PROVE Shown'
  BY <1>7 DEF AddDiary, ListedFirst, CardsFollow, DiariesToCome, carousel, asked
<1> QED BY <1>1, <1>2, <1>3, <1>4, <1>5, <1>6, <1>7 DEF Person

LEMMA NextShown ==
  ASSUME TypeOK, Shown, [Next]_vars
  PROVE  Shown'
<1> USE DEF Shown
<1>1. ASSUME NEW d \in Diaries, FriendShares(d) PROVE Shown'
  BY <1>1 DEF FriendShares, ListedFirst, CardsFollow, DiariesToCome, carousel, asked
<1>2. CASE UNCHANGED vars
  BY <1>2 DEF vars, ListedFirst, CardsFollow, DiariesToCome, firestore, carousel, asked
<1> QED BY <1>1, <1>2, AnswersShown, PersonShown DEF Next

LEMMA SpecImpliesShown == Spec => [](TypeOK /\ Shown)
<1>1. TypeOK /\ Shown /\ [Next]_vars => (TypeOK /\ Shown)'
  BY NextTyped, NextShown
<1> QED BY <1>1, InitTyped, InitShown, PTL DEF Spec

(* Every variable stays in its type.                                        *)
THEOREM SpecImpliesTypeOK == Spec => []TypeOK
BY SpecImpliesShown, PTL

(* When every answer is there the card scrolled to is one of the data, so   *)
(* that nothing done on the main screen raises: however the loads before    *)
(* overlapped.                                                              *)
THEOREM SpecImpliesSettledNeverRaises == Spec => SettledNeverRaises
<1>1. TypeOK /\ Shown /\ [Next]_vars => [Settled => screen' # "crashed"]_vars
  <2> SUFFICES ASSUME TypeOK, Shown, Next, Settled PROVE screen' # "crashed"
    OBVIOUS
  <2>0. screen = "main" /\ Idle
    BY DEF Settled
  <2>1. ~DiariesToCome
    BY <2>0 DEF DiariesToCome, Idle
  <2>2. cards # <<>> => cards = diaryData
    BY <2>0, <2>1 DEF Shown, CardsFollow
  <2>3. CASE Answers
    <3>1. \A d \in Diaries : ~AnswerDiary(d) /\ ~CompleteAddDiary(d)
      BY <2>0 DEF Idle, AnswerDiary, CompleteAddDiary
    <3> QED BY <2>0, <2>3, <3>1 DEF Answers, AnswerUser, AnswerHideWrite
  <2>4. CASE Person
    <3>1. ASSUME NEW i \in DOMAIN cards, Scroll(i) PROVE screen' # "crashed"
      <4>1. i \in 1..Len(cards) /\ cards # <<>> /\ Len(cards) \in Nat
        BY SeqNotEmpty DEF TypeOK
      <4>2. i <= Len(diaryData) /\ ~(i > Len(diaryData))
        BY <2>2, <4>1
      <4> QED BY <2>0, <3>1, <4>2 DEF Scroll
    <3>2. CASE MoveToWrite \/ OpenCard
      BY <3>2 DEF MoveToWrite, OpenCard
    <3>3. ASSUME NEW d \in Diaries, AddDiary(d) PROVE screen' # "crashed"
      BY <2>0, <3>3 DEF AddDiary
    <3>4. ~TapSave /\ ~ReappearDaily /\ ~GoBack
      BY <2>0 DEF TapSave, ReappearDaily, GoBack
    <3> QED BY <2>4, <3>1, <3>2, <3>3, <3>4 DEF Person
  <2>5. ASSUME NEW d \in Diaries, FriendShares(d) PROVE screen' # "crashed"
    BY <2>0, <2>5 DEF FriendShares
  <2> QED BY <2>3, <2>4, <2>5 DEF Next
<1> QED BY <1>1, SpecImpliesShown, PTL DEF Spec, SettledNeverRaises
-------------------------------------------------------------------------------
(***************************************************************************)
(* The write button, when the questions of hideWrite are answered in the   *)
(* order they were asked.                                                  *)
(***************************************************************************)
LEMMA InitHide == Init => HideFollows
BY DEF Init, HideFollows

(* A selection asks about the diary selected.                              *)
LEMMA SelectedAsks ==
  ASSUME TypeOK, hideAsked' = Append(hideAsked, currentDairyId'), currentDairyId' \in Diaries
  PROVE  HideFollows'
<1>1. PICK e : e = currentDairyId'
  OBVIOUS
<1>2. hideAsked' = Append(hideAsked, e) /\ e \in Diaries
  BY <1>1
<1>3. hideAsked' # <<>> /\ hideAsked'[Len(hideAsked')] = e
  BY <1>2, AppendedLast DEF TypeOK
<1> QED BY <1>1, <1>3 DEF HideFollows

(* A load asks again, once it has brought the diaries.                     *)
LEMMA LoadFollows ==
  ASSUME TypeOK, ListedFirst, HideFollows, screen # "crashed", LoadDiaryData,
         listed \subseteq listed', UNCHANGED <<diaryAsked, hideAsked, currentDairyId>>
  PROVE  HideFollows'
<1>1. CASE currentDairyId # NoDiary
  <2>1. listed' # {}
    BY <1>1 DEF ListedFirst
  <2>2. DiariesToCome'
    BY <2>1, LoadAsks
  <2> QED BY <1>1, <2>2 DEF HideFollows
<1>2. CASE currentDairyId = NoDiary
  BY <1>2 DEF HideFollows
<1> QED BY <1>1, <1>2

(* A step that leaves the question alone and brings no answer.             *)
LEMMA HideKept ==
  ASSUME HideFollows, screen # "crashed",
         UNCHANGED <<hideAsked, writeHidden, written, currentDairyId>>,
         DiariesToCome => DiariesToCome'
  PROVE  HideFollows'
BY DEF HideFollows

LEMMA AnswerHideFollows ==
  ASSUME InOrder, TypeOK, HideFollows, NEW k \in DOMAIN hideAsked, AnswerHideWrite(k)
  PROVE  HideFollows'
<1>1. k = 1 /\ screen # "crashed" /\ hideAsked' = RemoveAt(hideAsked, 1)
      /\ writeHidden' = (written[hideAsked[1]] > 0)
      /\ UNCHANGED <<written, currentDairyId>>
  BY DEF AnswerHideWrite, firestore
<1>2. Len(hideAsked) \in Nat /\ 1 \in 1..Len(hideAsked) /\ hideAsked # <<>>
      /\ hideAsked \in Seq(Diaries)
  BY <1>1, SeqNotEmpty DEF TypeOK
<1>3. /\ RemoveAt(hideAsked, 1) \in Seq(Diaries)
      /\ Len(RemoveAt(hideAsked, 1)) = Len(hideAsked) - 1
      /\ \A i \in 1..(Len(hideAsked) - 1) : RemoveAt(hideAsked, 1)[i] =
           IF i < 1 THEN hideAsked[i] ELSE hideAsked[i + 1]
  BY <1>2, Removed
<1>4. CASE Len(hideAsked) = 1
  <2>1. RemoveAt(hideAsked, 1) = <<>>
    BY <1>3, <1>4, EmptySeq
  <2>2. currentDairyId # NoDiary => hideAsked[1] = currentDairyId
    BY <1>1, <1>2, <1>4 DEF HideFollows
  <2> QED BY <1>1, <2>1, <2>2 DEF HideFollows
<1>5. CASE Len(hideAsked) > 1
  <2> DEFINE n == Len(hideAsked) - 1
  <2>1. n \in Nat /\ n > 0 /\ n \in 1..n /\ ~(n < 1) /\ n + 1 = Len(hideAsked)
    BY <1>2, <1>5
  <2>2. RemoveAt(hideAsked, 1)[n] = hideAsked[n + 1]
    BY <1>3, <2>1
  <2>3. RemoveAt(hideAsked, 1) # <<>>
    BY <1>3, <2>1, EmptySeq
  <2>4. currentDairyId # NoDiary => hideAsked[Len(hideAsked)] = currentDairyId
    BY <1>1, <1>2 DEF HideFollows
  <2> QED BY <1>1, <1>3, <2>1, <2>2, <2>3, <2>4 DEF HideFollows
<1>6. Len(hideAsked) = 1 \/ Len(hideAsked) > 1
  BY <1>2
<1> QED BY <1>4, <1>5, <1>6

LEMMA AnswersHide ==
  ASSUME InOrder, TypeOK, Shown, HideFollows, Answers
  PROVE  HideFollows'
<1>1. CASE AnswerUser
  BY <1>1, UserAsks, HideKept DEF AnswerUser, firestore
<1>2. ASSUME NEW d \in Diaries, AnswerDiary(d) PROVE HideFollows'
  <2>1. CASE screen' # "crashed"
    <3>1. currentDairyId' \in Diaries /\ hideAsked' = Append(hideAsked, currentDairyId')
      BY <1>2, <2>1, AnswerSelects
    <3> QED BY <3>1, SelectedAsks
  <2>2. CASE screen' = "crashed"
    BY <2>2 DEF HideFollows
  <2> QED BY <2>1, <2>2
<1>3. ASSUME NEW d \in Diaries, CompleteAddDiary(d) PROVE HideFollows'
  <2>1. /\ screen # "crashed" /\ LoadDiaryData /\ listed \subseteq listed'
        /\ UNCHANGED <<diaryAsked, hideAsked, currentDairyId>>
    BY <1>3 DEF CompleteAddDiary
  <2> QED BY <2>1, LoadFollows DEF Shown
<1>4. ASSUME NEW k \in DOMAIN hideAsked, AnswerHideWrite(k) PROVE HideFollows'
  BY <1>4, AnswerHideFollows
<1> QED BY <1>1, <1>2, <1>3, <1>4 DEF Answers

LEMMA PersonHides ==
  ASSUME TypeOK, Shown, HideFollows, Person
  PROVE  HideFollows'
<1>1. ASSUME NEW i \in DOMAIN cards, Scroll(i) PROVE HideFollows'
  <2>1. CASE i <= Len(diaryData) /\ SelectCard(i)
    <3>1. i \in 1..Len(cards) /\ Len(diaryData) \in Nat /\ Len(cards) \in Nat
      BY <1>1, SeqNotEmpty DEF Scroll, TypeOK
    <3>2. i \in 1..Len(diaryData)
      BY <2>1, <3>1
    <3>3. diaryData[i] \in Diaries
      BY <3>2, SeqNotEmpty DEF TypeOK
    <3>4. currentDairyId' = diaryData[i] /\ hideAsked' = Append(hideAsked, currentDairyId')
      BY <2>1 DEF SelectCard, HideWrite
    <3> QED BY <3>3, <3>4, SelectedAsks
  <2>2. CASE screen' = "crashed"
    BY <2>2 DEF HideFollows
  <2> QED BY <1>1, <2>1, <2>2 DEF Scroll
<1>2. CASE MoveToWrite \/ OpenCard
  <2>1. /\ screen # "crashed" /\ UNCHANGED <<hideAsked, writeHidden, written, currentDairyId>>
        /\ DiariesToCome => DiariesToCome'
    BY <1>2 DEF MoveToWrite, OpenCard, DiariesToCome, firestore, asked
  <2> QED BY <2>1, HideKept
<1>3. CASE TapSave
  <2>1. CASE Appear
    <3>1. /\ screen # "crashed" /\ LoadDiaryData /\ listed \subseteq listed'
          /\ UNCHANGED <<diaryAsked, hideAsked, currentDairyId>>
      BY <1>3, <2>1 DEF TapSave, Appear
    <3> QED BY <3>1, LoadFollows DEF Shown
  <2>2. CASE screen' = "crashed"
    BY <2>2 DEF HideFollows
  <2> QED BY <1>3, <2>1, <2>2 DEF TapSave
<1>4. CASE ReappearDaily
  <2>1. /\ screen # "crashed" /\ UNCHANGED <<hideAsked, writeHidden, written, currentDairyId>>
        /\ DiariesToCome => DiariesToCome'
    BY <1>4 DEF ReappearDaily, DiariesToCome, firestore, asked
  <2> QED BY <2>1, HideKept
<1>5. CASE GoBack
  <2>1. /\ screen # "crashed" /\ LoadDiaryData /\ listed \subseteq listed'
        /\ UNCHANGED <<diaryAsked, hideAsked, currentDairyId>>
    BY <1>5 DEF GoBack, Appear, firestore
  <2> QED BY <2>1, LoadFollows DEF Shown
<1>6. ASSUME NEW d \in Diaries, AddDiary(d) PROVE HideFollows'
  <2>1. /\ screen # "crashed" /\ UNCHANGED <<hideAsked, writeHidden, written, currentDairyId>>
        /\ DiariesToCome => DiariesToCome'
    BY <1>6 DEF AddDiary, DiariesToCome, asked
  <2> QED BY <2>1, HideKept
<1> QED BY <1>1, <1>2, <1>3, <1>4, <1>5, <1>6 DEF Person

LEMMA NextHides ==
  ASSUME InOrder, TypeOK, Shown, HideFollows, [Next]_vars
  PROVE  HideFollows'
<1>1. ASSUME NEW d \in Diaries, FriendShares(d) PROVE HideFollows'
  <2>1. /\ screen # "crashed" /\ UNCHANGED <<hideAsked, writeHidden, written, currentDairyId>>
        /\ DiariesToCome => DiariesToCome'
    BY <1>1 DEF FriendShares, DiariesToCome, asked
  <2> QED BY <2>1, HideKept
<1>2. CASE UNCHANGED vars
  BY <1>2 DEF vars, HideFollows, DiariesToCome, firestore, asked
<1> QED BY <1>1, <1>2, AnswersHide, PersonHides DEF Next

(* Once every answer is there the write button is hidden exactly when the   *)
(* selected diary has an entry of today, provided that hideWrite's queries  *)
(* are answered in order: otherwise an older answer may come last.          *)
THEOREM SpecImpliesWriteHidden ==
  ASSUME InOrder
  PROVE  Spec => []WriteHiddenOnceWritten
<1>1. TypeOK /\ Shown /\ HideFollows /\ [Next]_vars => HideFollows'
  BY NextHides
<1>2. HideFollows => WriteHiddenOnceWritten
  BY DEF HideFollows, WriteHiddenOnceWritten, Settled, Idle, DiariesToCome
<1> QED BY <1>1, <1>2, InitHide, SpecImpliesShown, PTL DEF Spec
-------------------------------------------------------------------------------
(***************************************************************************)
(* The carousel of a person who waits.                                     *)
(***************************************************************************)
Orderly ==
  /\ AwayQuiet /\ AddingAlone /\ UserAskedAlone /\ AskedOnce /\ DataListed
  /\ Sorted(diaryData)

LEMMA InitOneLoad == Init => OneLoad /\ CentreSelected
<1> SUFFICES ASSUME Init PROVE OneLoad /\ CentreSelected
  OBVIOUS
<1>1. Elements(diaryData) = {} /\ Sorted(diaryData)
  BY DEF Init, Elements, Sorted
<1> QED BY <1>1
        DEF Init, OneLoad, AwayQuiet, AddingAlone, UserAskedAlone, AskedOnce, DataListed,
            CentreSelected

(* A step that touches neither the load nor the data.                      *)
LEMMA LoadKept ==
  ASSUME Orderly,
         UNCHANGED <<adding, userAsked, hideAsked, diaryAsked, diaryData, getDiaryList>>
  PROVE  /\ AddingAlone' /\ UserAskedAlone' /\ AskedOnce' /\ DataListed' /\ Sorted(diaryData)'
         /\ Idle => Idle'
BY DEF Orderly, Idle, AddingAlone, UserAskedAlone, AskedOnce, DataListed, Sorted

(* When nothing is on the way a load may start.                            *)
LEMMA LoadStarts ==
  ASSUME TypeOK, LoadDiaryData, \A d \in Diaries : diaryAsked'[d] = 0,
         userAsked = 0, adding' = {}, screen' = "main"
  PROVE  Orderly'
<1>1. diaryData' = <<>> /\ userAsked' = 1
  BY DEF LoadDiaryData
<1>2. Elements(<<>>) = {} /\ Sorted(<<>>)
  BY DEF Elements, Sorted
<1> QED BY <1>1, <1>2
        DEF Orderly, AwayQuiet, AddingAlone, UserAskedAlone, AskedOnce, DataListed

LEMMA AnswerUserOrderly ==
  ASSUME TypeOK, Orderly, AnswerUser
  PROVE  Orderly'
<1>1. /\ userAsked = 1 /\ userAsked' = 0 /\ diaryData = <<>> /\ UNCHANGED <<adding, diaryData, screen>>
      /\ \A d \in Diaries : diaryAsked[d] = 0
      /\ getDiaryList' = listed /\ adding = {} /\ screen = "main"
  <2>1. userAsked > 0
    BY DEF AnswerUser
  <2>2. userAsked = 1 /\ diaryData = <<>> /\ \A d \in Diaries : diaryAsked[d] = 0
    BY <2>1 DEF Orderly, UserAskedAlone
  <2>3. adding = {} /\ screen = "main"
    BY <2>2 DEF Orderly, AddingAlone, AwayQuiet, Idle
  <2> QED BY <2>2, <2>3 DEF AnswerUser, firestore
<1>2. \A d \in Diaries : diaryAsked'[d] = IF d \in listed THEN 1 ELSE 0
  <2>1. \A d \in Diaries : diaryAsked'[d] = 0 + IF d \in listed THEN 1 ELSE 0
    BY <1>1 DEF AnswerUser
  <2> QED BY <2>1
<1>3. Elements(<<>>) = {} /\ Sorted(<<>>)
  BY DEF Elements, Sorted
<1>4. AskedOnce'
  BY <1>1, <1>2, <1>3 DEF AskedOnce
<1>5. DataListed'
  BY <1>1, <1>2, <1>3, ListsTyped DEF DataListed
<1> QED BY <1>1, <1>3, <1>4, <1>5 DEF Orderly, AwayQuiet, AddingAlone, UserAskedAlone

(* The diary answered for leaves the questions and joins the data.         *)
LEMMA AnswerDiaryOrderly ==
  ASSUME TypeOK, Orderly, NEW d \in Diaries, AnswerDiary(d), screen' # "crashed"
  PROVE  Orderly'
<1>1. PICK data \in Seq(Diaries) :
        /\ Answered(d, data) /\ diaryData' = data /\ UNCHANGED screen
  BY AnswerSelects
<1>2. diaryAsked[d] = 1 /\ d \in getDiaryList /\ d \notin Elements(diaryData)
  BY <1>1 DEF Answered, Orderly, AskedOnce
<1>3. userAsked = 0 /\ adding = {} /\ screen = "main"
  BY <1>2 DEF Orderly, UserAskedAlone, AddingAlone, AwayQuiet, Idle, TypeOK
<1>4. UNCHANGED <<userAsked, adding, getDiaryList>>
  BY DEF AnswerDiary
<1>5. diaryAsked'[d] = 0 /\ \A e \in Diaries : e # d => diaryAsked'[e] = diaryAsked[e]
  <2>1. diaryAsked' = [diaryAsked EXCEPT ![d] = @ - 1]
    BY DEF AnswerDiary
  <2> QED BY <1>2, <2>1 DEF TypeOK
<1>6. /\ Elements(data) \subseteq Elements(diaryData) \cup {d}
      /\ Elements(diaryData) \subseteq Elements(data)
      /\ Offline \/ d \in Elements(data)
      /\ Sorted(data)
  <2>1. CASE data = InsertByDate(diaryData, d)
    <3>1. diaryData \in Seq(Diaries) /\ Sorted(diaryData)
      BY DEF TypeOK, Orderly
    <3> QED BY <1>2, <2>1, <3>1, ElementsInserted, InsertedSorted
  <2>2. CASE Offline /\ data = diaryData
    BY <2>2 DEF Orderly
  <2> QED BY <1>1, <2>1, <2>2 DEF Answered
<1>7. AskedOnce'
  <2> SUFFICES ASSUME NEW e \in Diaries, diaryAsked'[e] > 0
               PROVE  diaryAsked'[e] = 1 /\ e \in getDiaryList \ Elements(data)
    BY <1>1, <1>4 DEF AskedOnce
  <2>1. e # d /\ diaryAsked'[e] = diaryAsked[e]
    BY <1>5
  <2>2. diaryAsked[e] = 1 /\ e \in getDiaryList \ Elements(diaryData)
    BY <2>1 DEF Orderly, AskedOnce
  <2> QED BY <1>6, <2>1, <2>2
<1>8. DataListed'
  <2>1. Elements(data) \subseteq getDiaryList
    BY <1>2, <1>6 DEF Orderly, DataListed
  <2>2. ASSUME ~Offline, NEW e \in getDiaryList
        PROVE  diaryAsked'[e] > 0 \/ e \in Elements(data)
    <3>1. diaryAsked[e] > 0 \/ e \in Elements(diaryData)
      BY <1>3, <2>2 DEF Orderly, DataListed
    <3>2. e \in Diaries
      BY ListsTyped
    <3> QED BY <1>5, <1>6, <2>2, <3>1, <3>2
  <2> QED BY <1>1, <1>4, <2>1, <2>2 DEF DataListed
<1> QED BY <1>1, <1>3, <1>4, <1>6, <1>7, <1>8
        DEF Orderly, AwayQuiet, AddingAlone, UserAskedAlone

LEMMA AnswersOrderly ==
  ASSUME TypeOK, Orderly, Answers, screen' # "crashed"
  PROVE  Orderly'
<1>1. CASE AnswerUser
  BY <1>1, AnswerUserOrderly
<1>2. ASSUME NEW d \in Diaries, AnswerDiary(d) PROVE Orderly'
  BY <1>2, AnswerDiaryOrderly
<1>3. ASSUME NEW d \in Diaries, CompleteAddDiary(d) PROVE Orderly'
  <2>1. d \in adding /\ adding' = adding \ {d} /\ LoadDiaryData /\ UNCHANGED <<diaryAsked, screen>>
    BY <1>3 DEF CompleteAddDiary
  <2>2. userAsked = 0 /\ (\A e \in Diaries : diaryAsked[e] = 0) /\ adding' = {}
    BY <2>1 DEF Orderly, AddingAlone
  <2>3. screen = "main"
    BY <2>1 DEF Orderly, AwayQuiet, Idle
  <2> QED BY <2>1, <2>2, <2>3, LoadStarts
<1>4. ASSUME NEW k \in DOMAIN hideAsked, AnswerHideWrite(k) PROVE Orderly'
  <2>1. hideAsked # <<>>
    BY SeqNotEmpty DEF TypeOK
  <2>2. adding = {} /\ screen = "main"
    BY <2>1 DEF Orderly, AddingAlone, AwayQuiet, Idle
  <2>3. UNCHANGED <<adding, userAsked, diaryAsked, diaryData, getDiaryList, screen>>
    BY <1>4 DEF AnswerHideWrite, firestore
  <2> QED BY <2>2, <2>3
          DEF Orderly, AwayQuiet, AddingAlone, UserAskedAlone, AskedOnce, DataListed, Sorted
<1> QED BY <1>1, <1>2, <1>3, <1>4 DEF Answers

LEMMA PersonOrderly ==
  ASSUME TypeOK, Orderly, Person, hasty' = 0, screen' # "crashed"
  PROVE  Orderly'
<1>1. ASSUME NEW i \in DOMAIN cards, Scroll(i) PROVE Orderly'
  <2>1. Idle /\ screen = "main"
    BY <1>1, PersonActsTyped DEF Scroll
  <2>2. UNCHANGED <<adding, userAsked, diaryAsked, diaryData, getDiaryList, screen>>
    BY <1>1 DEF Scroll, firestore
  <2> QED BY <2>1, <2>2
          DEF Idle, Orderly, AwayQuiet, AddingAlone, UserAskedAlone, AskedOnce, DataListed, Sorted
<1>2. CASE MoveToWrite \/ OpenCard
  <2>1. Idle
    BY <1>2, PersonActsTyped DEF MoveToWrite, OpenCard
  <2>2. UNCHANGED <<adding, userAsked, hideAsked, diaryAsked, diaryData, getDiaryList>>
    BY <1>2 DEF MoveToWrite, OpenCard, firestore, asked
  <2> QED BY <2>1, <2>2, LoadKept DEF Orderly, AwayQuiet
<1>3. CASE TapSave \/ GoBack
  <2>1. Idle
    BY <1>3 DEF TapSave, GoBack, Orderly, AwayQuiet
  <2>2. Appear /\ UNCHANGED <<diaryAsked, adding>>
    BY <1>3 DEF TapSave, GoBack, firestore
  <2> QED BY <2>1, <2>2, LoadStarts DEF Idle, Appear
<1>4. CASE ReappearDaily
  <2>1. UNCHANGED <<adding, userAsked, hideAsked, diaryAsked, diaryData, getDiaryList, screen>>
    BY <1>4 DEF ReappearDaily, firestore, asked
  <2> QED BY <2>1, LoadKept DEF Orderly, AwayQuiet
<1>5. ASSUME NEW d \in Diaries, AddDiary(d) PROVE Orderly'
  <2>1. Idle /\ screen = "main"
    BY <1>5, PersonActsTyped DEF AddDiary
  <2>2. /\ UNCHANGED <<userAsked, hideAsked, diaryAsked, diaryData, getDiaryList, screen>>
        /\ adding' = adding \cup {d}
    BY <1>5 DEF AddDiary, asked
  <2> QED BY <2>1, <2>2
          DEF Idle, Orderly, AwayQuiet, AddingAlone, UserAskedAlone, AskedOnce, DataListed, Sorted
<1> QED BY <1>1, <1>2, <1>3, <1>4, <1>5 DEF Person

(* A person who has never been hasty was not before, nor was the app gone.  *)
LEMMA NotHastyBefore ==
  ASSUME TypeOK, [Next]_vars, hasty' = 0, screen' # "crashed"
  PROVE  hasty = 0 /\ screen # "crashed"
<1>1. CASE Answers
  BY <1>1 DEF Answers, AnswerUser, AnswerDiary, CompleteAddDiary, AnswerHideWrite
<1>2. CASE Person
  <2>1. ASSUME NEW i \in DOMAIN cards, Scroll(i) PROVE hasty = 0 /\ screen # "crashed"
    BY <2>1, PersonActsTyped DEF Scroll
  <2>2. CASE MoveToWrite \/ OpenCard
    BY <2>2, PersonActsTyped DEF MoveToWrite, OpenCard
  <2>3. CASE TapSave \/ ReappearDaily \/ GoBack
    BY <2>3 DEF TapSave, ReappearDaily, GoBack
  <2>4. ASSUME NEW d \in Diaries, AddDiary(d) PROVE hasty = 0 /\ screen # "crashed"
    BY <2>4, PersonActsTyped DEF AddDiary
  <2> QED BY <1>2, <2>1, <2>2, <2>3, <2>4 DEF Person
<1>3. ASSUME NEW d \in Diaries, FriendShares(d) PROVE hasty = 0 /\ screen # "crashed"
  BY <1>3 DEF FriendShares
<1>4. CASE UNCHANGED vars
  BY <1>4 DEF vars
<1> QED BY <1>1, <1>2, <1>3, <1>4 DEF Next

LEMMA NextOneLoad ==
  ASSUME TypeOK, OneLoad, [Next]_vars
  PROVE  OneLoad'
<1> SUFFICES ASSUME screen' # "crashed", hasty' = 0 PROVE Orderly'
  BY DEF OneLoad, Orderly
<1>1. Orderly
  BY NotHastyBefore DEF OneLoad, Orderly
<1>2. ASSUME NEW d \in Diaries, FriendShares(d) PROVE Orderly'
  <2>1. UNCHANGED <<adding, userAsked, hideAsked, diaryAsked, diaryData, getDiaryList, screen>>
    BY <1>2 DEF FriendShares, asked
  <2> QED BY <1>1, <2>1, LoadKept DEF Orderly, AwayQuiet
<1>3. CASE UNCHANGED vars
  <2>1. UNCHANGED <<adding, userAsked, hideAsked, diaryAsked, diaryData, getDiaryList, screen>>
    BY <1>3 DEF vars, firestore, asked
  <2> QED BY <1>1, <2>1, LoadKept DEF Orderly, AwayQuiet
<1> QED BY <1>1, <1>2, <1>3, AnswersOrderly, PersonOrderly DEF Next
-------------------------------------------------------------------------------
(* The diary selected is the one in the centre.                            *)

LEMMA NextCentre ==
  ASSUME TypeOK, Shown, OneLoad, CentreSelected, [Next]_vars
  PROVE  CentreSelected'
<1> DEFINE Selected == /\ centre \in DOMAIN cards /\ currentDairyId = cards[centre]
                       /\ (\E d \in Diaries : diaryAsked[d] > 0) => centre = 1
<1> SUFFICES ASSUME screen' # "crashed", hasty' = 0, diaryData' # <<>> PROVE Selected'
  BY DEF CentreSelected
<1>1. screen # "crashed" /\ hasty = 0 /\ Orderly
  BY NotHastyBefore DEF OneLoad, Orderly
<1>2. diaryData # <<>> => Selected /\ cards = diaryData
  BY <1>1 DEF CentreSelected, Shown, CardsFollow
<1>3. ASSUME UNCHANGED <<carousel, currentDairyId, diaryAsked, diaryData>> PROVE Selected'
  BY <1>2, <1>3 DEF carousel
<1>4. CASE AnswerUser
  BY <1>1, <1>4 DEF AnswerUser, Orderly, UserAskedAlone
<1>5. ASSUME NEW d \in Diaries, AnswerDiary(d) PROVE Selected'
  <2>1. PICK data \in Seq(Diaries) :
           /\ Answered(d, data)
           /\ data # <<>> /\ cards' = data
           /\ currentDairyId' = data[1]
           /\ centre' = IF centre = 0 THEN 1
                        ELSE IF centre > Len(data) THEN Len(data) ELSE centre
           /\ centre' \in DOMAIN data
    BY <1>5, AnswerSelects
  <2>2. Len(data) \in Nat /\ DOMAIN data = 1..Len(data) /\ Len(data) > 0
    BY <2>1, SeqNotEmpty
  <2>3. centre' = 1
    <3>1. CASE diaryData = <<>>
      <4>1. data = InsertByDate(diaryData, d)
        BY <2>1, <3>1 DEF Answered
      <4>2. Len(data) = Len(diaryData) + 1 /\ Len(diaryData) = 0
        BY <3>1, <4>1, InsertedByDate, EmptySeq DEF TypeOK
      <4> QED BY <2>1, <2>2, <4>2
    <3>2. CASE diaryData # <<>>
      <4>1. centre = 1
        BY <1>2, <2>1, <3>2 DEF Answered
      <4> QED BY <2>1, <2>2, <4>1
    <3> QED BY <3>1, <3>2
  <2> QED BY <2>1, <2>3
<1>6. ASSUME NEW d \in Diaries, CompleteAddDiary(d) PROVE Selected'
  BY <1>6 DEF CompleteAddDiary, LoadDiaryData
<1>7. ASSUME NEW k \in DOMAIN hideAsked, AnswerHideWrite(k) PROVE Selected'
  BY <1>3, <1>7 DEF AnswerHideWrite
<1>8. ASSUME NEW i \in DOMAIN cards, Scroll(i) PROVE Selected'
  <2>1. Idle /\ UNCHANGED <<cards, diaryAsked, diaryData>> /\ centre' = i
    BY <1>8, PersonActsTyped DEF Scroll
  <2>2. cards = diaryData
    BY <1>2, <2>1
  <2>3. currentDairyId' = diaryData[i]
    BY <1>1, <1>8 DEF Scroll, SelectCard
  <2> QED BY <2>1, <2>2, <2>3 DEF Idle
<1>9. CASE MoveToWrite \/ OpenCard \/ ReappearDaily
  BY <1>3, <1>9 DEF MoveToWrite, OpenCard, ReappearDaily, asked
<1>10. CASE TapSave \/ GoBack
  BY <1>10 DEF TapSave, GoBack, Appear, LoadDiaryData
<1>11. ASSUME NEW d \in Diaries, AddDiary(d) PROVE Selected'
  BY <1>3, <1>11 DEF AddDiary, asked
<1>12. ASSUME NEW d \in Diaries, FriendShares(d) PROVE Selected'
  BY <1>3, <1>12 DEF FriendShares, asked
<1>13. CASE UNCHANGED vars
  BY <1>3, <1>13 DEF vars, asked
<1> HIDE DEF Selected
<1>14. CASE Answers
  BY <1>4, <1>5, <1>6, <1>7, <1>14 DEF Answers
<1>15. CASE Person
  BY <1>8, <1>9, <1>10, <1>11, <1>15 DEF Person
<1> QED BY <1>12, <1>13, <1>14, <1>15 DEF Next

LEMMA SpecImpliesOneLoad == Spec => [](TypeOK /\ Shown /\ OneLoad /\ CentreSelected)
<1>1. TypeOK /\ Shown /\ OneLoad /\ CentreSelected /\ [Next]_vars
        => (OneLoad /\ CentreSelected)'
  BY NextOneLoad, NextCentre
<1> QED BY <1>1, InitOneLoad, SpecImpliesShown, PTL DEF Spec

(* A person who waits for the answers sees the diaries of the list that was *)
(* read, each once and in the order of their dates.                         *)
THEOREM SpecImpliesCardsAreTheList == Spec => []CardsAreTheList
<1>1. TypeOK /\ Shown /\ OneLoad => CardsAreTheList
  <2> SUFFICES ASSUME TypeOK, Shown, OneLoad, Settled, hasty = 0
               PROVE  /\ cards = diaryData
                      /\ Elements(cards) \subseteq getDiaryList
                      /\ Offline \/ Elements(cards) = getDiaryList
                      /\ \A i, j \in DOMAIN cards : i < j => cards[i] < cards[j]
    BY DEF CardsAreTheList
  <2>1. /\ screen # "crashed" /\ userAsked = 0 /\ ~DiariesToCome
        /\ \A d \in Diaries : diaryAsked[d] = 0
    BY DEF Settled, Idle, DiariesToCome
  <2>2. cards = diaryData
    BY <2>1 DEF Shown, CardsFollow
  <2>3. DataListed /\ Sorted(diaryData)
    BY <2>1 DEF OneLoad
  <2>4. Offline \/ getDiaryList \subseteq Elements(diaryData)
    BY <2>1, <2>3, ListsTyped DEF DataListed
  <2> QED BY <2>2, <2>3, <2>4 DEF DataListed, Sorted
<1> QED BY <1>1, SpecImpliesOneLoad, PTL

(* And what the other screens will work on is the card in the centre.       *)
THEOREM SpecImpliesSelectionIsCentre == Spec => []SelectionIsCentre
<1>1. TypeOK /\ Shown /\ CentreSelected => SelectionIsCentre
  <2> SUFFICES ASSUME Shown, CentreSelected, Settled, hasty = 0, cards # <<>>
               PROVE  currentDairyId = cards[centre]
    BY DEF SelectionIsCentre
  <2>1. screen # "crashed" /\ ~DiariesToCome
    BY DEF Settled, Idle, DiariesToCome
  <2>2. diaryData # <<>>
    BY <2>1 DEF Shown, CardsFollow
  <2> QED BY <2>1, <2>2 DEF CentreSelected
<1> QED BY <1>1, SpecImpliesOneLoad, PTL
-------------------------------------------------------------------------------
(***************************************************************************)
(* No diary is missing, however hasty the person: the phone has each that  *)
(* it was ever given, or has asked for it, or for the list it is on.  It   *)
(* is what AddedDiaryShown rests on, beside the fairness of the answers.   *)
(***************************************************************************)
(* Diaries the screen owes: those in the cache, which an answer that misses *)
(* the server brings too; and the whole list that was read, if none does.   *)
Owed == cached \cup (IF Offline THEN {} ELSE getDiaryList)

OwedToCome ==
    screen # "crashed" =>
        \A d \in Owed : d \in Elements(diaryData) \/ diaryAsked[d] > 0 \/ userAsked > 0

(* Nothing that is not on the user's list is shown or asked for.           *)
OnlyListed ==
    /\ Elements(diaryData) \cup cached \cup getDiaryList \subseteq listed
    /\ \A d \in Diaries : diaryAsked[d] > 0 => d \in listed

Complete == OwedToCome /\ OnlyListed

LEMMA InitComplete == Init => Complete
<1> SUFFICES ASSUME Init PROVE Complete
  OBVIOUS
<1>1. DOMAIN diaryData = {}
  BY SeqNotEmpty DEF Init
<1>2. Elements(diaryData) = {}
  BY <1>1 DEF Elements
<1> QED BY <1>2 DEF Init, Complete, OwedToCome, OnlyListed, Owed

LEMMA NoElements == Elements(<<>>) = {}
<1>1. DOMAIN <<>> = {}
  OBVIOUS
<1> QED BY <1>1 DEF Elements

(* Every load that empties the data asks for the list again.               *)
LEMMA LoadComplete ==
  ASSUME TypeOK, Complete, LoadDiaryData, listed \subseteq listed', cached' \subseteq listed',
         UNCHANGED <<getDiaryList, diaryAsked>>
  PROVE  Complete'
<1>1. userAsked' > 0
  BY DEF LoadDiaryData, TypeOK
<1>2. Elements(diaryData)' = {}
  BY NoElements DEF LoadDiaryData
<1> QED BY <1>1, <1>2 DEF Complete, OwedToCome, OnlyListed, Owed

LEMMA AnswerDiaryComplete ==
  ASSUME TypeOK, Complete, NEW d \in Diaries, AnswerDiary(d)
  PROVE  Complete'
<1>1. /\ diaryData \in Seq(Diaries) /\ diaryAsked \in [Diaries -> Nat]
      /\ diaryAsked[d] > 0 /\ d \in listed
      /\ diaryAsked' = [diaryAsked EXCEPT ![d] = @ - 1]
      /\ UNCHANGED <<listed, getDiaryList, userAsked>>
  BY DEF TypeOK, Complete, OnlyListed, AnswerDiary
<1>2. \/ SelectFirst(InsertByDate(diaryData, d)) /\ cached' = cached \cup {d}
      \/ Offline /\ d \notin cached /\ SelectFirst(diaryData) /\ cached' = cached
  BY ZenonT(20) DEF AnswerDiary, ShowDiary
<1>3. Elements(InsertByDate(diaryData, d)) = Elements(diaryData) \cup {d}
  BY <1>1, ElementsInserted
<1>4. \A data : SelectFirst(data) =>
         \/ diaryData' = data
         \/ diaryData' = diaryData /\ screen' = "crashed"
  BY DEF SelectFirst
<1>5. /\ Elements(diaryData)' \subseteq Elements(diaryData) \cup {d}
      /\ cached' \subseteq cached \cup {d}
  BY <1>2, <1>3, <1>4
<1>6. ASSUME screen' # "crashed"
      PROVE  /\ Elements(diaryData) \subseteq Elements(diaryData)'
             /\ d \in Owed' => d \in Elements(diaryData)'
  BY <1>2, <1>3, <1>4, <1>6 DEF Owed
<1>7. \A e \in Diaries : e # d => diaryAsked'[e] = diaryAsked[e]
  BY <1>1
<1>8. OnlyListed'
  <2>1. \A e \in Diaries : diaryAsked'[e] > 0 => e \in listed
    BY <1>1, <1>7 DEF Complete, OnlyListed
  <2> QED BY <1>1, <1>5, <2>1 DEF Complete, OnlyListed
<1>9. OwedToCome'
  <2> SUFFICES ASSUME screen' # "crashed", NEW e \in Owed', e # d
               PROVE  e \in Elements(diaryData)' \/ diaryAsked'[e] > 0 \/ userAsked > 0
    BY <1>1, <1>6 DEF OwedToCome
  <2>1. e \in Owed /\ e \in Diaries
    BY <1>1, <1>5, ListsTyped DEF Owed
  <2>2. screen # "crashed"
    BY DEF AnswerDiary
  <2> QED BY <1>6, <1>7, <2>1, <2>2 DEF Complete, OwedToCome
<1> QED BY <1>8, <1>9 DEF Complete

LEMMA NextComplete ==
  ASSUME TypeOK, Complete, [Next]_vars
  PROVE  Complete'
<1>1. CASE UNCHANGED <<listed, cached, diaryData, getDiaryList, userAsked, diaryAsked>>
           /\ (screen = "crashed" => screen' = "crashed")
  BY <1>1 DEF Complete, OwedToCome, OnlyListed, Owed, Elements
<1>2. CASE AnswerUser
  <2>1. /\ screen # "crashed" /\ getDiaryList' = listed
        /\ UNCHANGED <<listed, cached, diaryData>>
    BY <1>2 DEF AnswerUser, firestore
  <2>2. \A d \in Diaries : diaryAsked'[d] > 0 <=> diaryAsked[d] > 0 \/ d \in listed
    BY <1>2, UserAsks
  <2>3. Owed' \subseteq listed
    BY <2>1 DEF Owed, Complete, OnlyListed
  <2>4. OwedToCome'
    BY <2>2, <2>3, ListsTyped DEF OwedToCome
  <2>5. OnlyListed'
    BY <2>1, <2>2 DEF Complete, OnlyListed, Elements
  <2> QED BY <2>4, <2>5 DEF Complete
<1>3. ASSUME NEW d \in Diaries, AnswerDiary(d) PROVE Complete'
  BY <1>3, AnswerDiaryComplete
<1>4. ASSUME NEW d \in Diaries, CompleteAddDiary(d) PROVE Complete'
  <2>1. /\ LoadDiaryData /\ listed' = listed \cup {d} /\ cached' = cached \cup {d}
        /\ UNCHANGED <<getDiaryList, diaryAsked>>
    BY <1>4 DEF CompleteAddDiary
  <2>2. cached' \subseteq listed'
    BY <2>1 DEF Complete, OnlyListed
  <2> QED BY <2>1, <2>2, LoadComplete
<1>5. ASSUME NEW k \in DOMAIN hideAsked, AnswerHideWrite(k) PROVE Complete'
  BY <1>1, <1>5 DEF AnswerHideWrite, firestore
<1>6. ASSUME NEW i \in DOMAIN cards, Scroll(i) PROVE Complete'
  BY <1>1, <1>6 DEF Scroll, firestore
<1>7. CASE MoveToWrite \/ OpenCard \/ ReappearDaily
  BY <1>1, <1>7 DEF MoveToWrite, OpenCard, ReappearDaily, firestore, asked
<1>8. CASE TapSave \/ GoBack
  <2>1. UNCHANGED <<listed, cached, getDiaryList, diaryAsked>>
    BY <1>8 DEF TapSave, GoBack, firestore
  <2>2. CASE Appear
    BY <2>1, <2>2, LoadComplete DEF Appear, Complete, OnlyListed
  <2>3. CASE screen' = "crashed" /\ UNCHANGED <<written, diaryData, userAsked, carousel>>
    BY <1>1, <2>1, <2>3
  <2> QED BY <1>8, <2>2, <2>3 DEF TapSave, GoBack
<1>9. ASSUME NEW d \in Diaries, AddDiary(d) PROVE Complete'
  BY <1>1, <1>9 DEF AddDiary, asked
<1>10. ASSUME NEW d \in Diaries, FriendShares(d) PROVE Complete'
  <2>1. /\ UNCHANGED <<cached, diaryData, getDiaryList, userAsked, diaryAsked, screen>>
        /\ listed \subseteq listed'
    BY <1>10 DEF FriendShares, asked
  <2> QED BY <2>1 DEF Complete, OwedToCome, OnlyListed, Owed, Elements
<1>11. CASE UNCHANGED vars
  BY <1>1, <1>11 DEF vars, firestore, asked
<1>12. CASE Answers
  BY <1>2, <1>3, <1>4, <1>5, <1>12 DEF Answers
<1>13. CASE Person
  BY <1>6, <1>7, <1>8, <1>9, <1>13 DEF Person
<1> QED BY <1>10, <1>11, <1>12, <1>13 DEF Next

(* Once every answer is there the cards hold each diary the phone was ever *)
(* given or has added, and, where reads reach the server, all of the list  *)
(* that was read; and nothing that is not on the user's list.              *)
THEOREM SettledCardsComplete ==
  Spec => [](Settled => Owed \subseteq Elements(cards) /\ Elements(cards) \subseteq listed)
<1>1. TypeOK /\ Shown /\ Complete =>
        (Settled => Owed \subseteq Elements(cards) /\ Elements(cards) \subseteq listed)
  <2> SUFFICES ASSUME TypeOK, Shown, Complete, Settled
               PROVE  Owed \subseteq Elements(cards) /\ Elements(cards) \subseteq listed
    OBVIOUS
  <2>1. /\ screen # "crashed" /\ userAsked = 0 /\ ~DiariesToCome
        /\ \A d \in Diaries : diaryAsked[d] = 0
    BY DEF Settled, Idle, DiariesToCome
  <2>2. Owed \subseteq Elements(diaryData)
    BY <2>1, ListsTyped DEF Complete, OwedToCome, Owed
  <2>3. cards # <<>> \/ diaryData # <<>> => cards = diaryData
    BY <2>1 DEF Shown, CardsFollow
  <2>4. /\ diaryData = <<>> => Elements(diaryData) = {}
        /\ cards = <<>> => Elements(cards) = {}
    BY NoElements
  <2> QED BY <2>2, <2>3, <2>4 DEF Complete, OnlyListed
<1>2. Spec => []Complete
  <2>1. TypeOK /\ Complete /\ [Next]_vars => Complete'
    BY NextComplete
  <2> QED BY <2>1, InitComplete, SpecImpliesTypeOK, PTL DEF Spec
<1> QED BY <1>1, <1>2, SpecImpliesShown, PTL
================================================================================
