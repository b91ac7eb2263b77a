------------------------- MODULE DocumentReads_proofs -------------------------
(***************************************************************************)
(* Proofs about DocumentReads, for every set of documents and every number *)
(* of reads and versions.  They come in layers, each an induction of its   *)
(* own that may use those before it: the answers due on the wire, the life *)
(* of the stream and of the timer, what callers have been told, what a     *)
(* view in sync may be taken to know, and what a caller still waits for.   *)
(***************************************************************************)
EXTENDS DocumentReads, SequenceTheorems, FiniteSetTheorems, TLAPS

-------------------------------------------------------------------------------
(* Answers due                                                             *)

IsAnswer(m, d) == m.type \in {"added", "removed"} /\ m.doc = d
AnswersIn(s, d) == {i \in 1..Len(s) : IsAnswer(s[i], d)}
Due(s, d) == Cardinality(AnswersIn(s, d))

(* A target expects as many responses as requests for it and answers to    *)
(* them are on their way: outstanding_responses_ is exact.                 *)
OutstandingIsDue == \A d \in Docs : outstanding[d] = Len(up[d]) + Due(down, d)

LEMMA DueIsNat ==
  ASSUME NEW s \in Seq(Message), NEW d
  PROVE  /\ IsFiniteSet(AnswersIn(s, d)) /\ Due(s, d) \in Nat
         /\ Due(s, d) = 0 <=> AnswersIn(s, d) = {}
<1>1. Len(s) \in Nat
  BY LenProperties
<1>2. IsFiniteSet(1..Len(s))
  BY <1>1, FS_Interval
<1>3. IsFiniteSet(AnswersIn(s, d))
  BY <1>2, FS_Subset DEF AnswersIn
<1> QED BY <1>3, FS_CardinalityType, FS_EmptySet DEF Due

LEMMA DueEmpty == \A d : AnswersIn(<<>>, d) = {} /\ Due(<<>>, d) = 0
BY FS_EmptySet, EmptySeq DEF AnswersIn, Due

LEMMA DueAppend ==
  ASSUME NEW s \in Seq(Message), NEW m \in Message, NEW d
  PROVE  Due(Append(s, m), d) = Due(s, d) + (IF IsAnswer(m, d) THEN 1 ELSE 0)
<1> DEFINE t == Append(s, m)
           n == Len(s) + 1
<1>1. Len(s) \in Nat /\ Len(t) = n /\ t[n] = m /\ \A i \in 1..Len(s) : t[i] = s[i]
  BY LenProperties, AppendProperties
<1>2. n \notin AnswersIn(s, d)
  BY <1>1 DEF AnswersIn
<1>3. AnswersIn(t, d) = IF IsAnswer(m, d) THEN AnswersIn(s, d) \cup {n} ELSE AnswersIn(s, d)
  <2>1. \A i \in 1..n : i \in 1..Len(s) \/ i = n
    BY <1>1
  <2>2. \A i \in 1..Len(s) : i \in 1..n
    BY <1>1
  <2>3. n \in 1..n
    BY <1>1
  <2> HIDE DEF t, n
  <2> QED BY <1>1, <2>1, <2>2, <2>3 DEF AnswersIn
<1>4. IsFiniteSet(AnswersIn(s, d)) /\ Due(s, d) \in Nat
  BY DueIsNat
<1> HIDE DEF t, n
<1>5. Cardinality(AnswersIn(s, d) \cup {n}) = Cardinality(AnswersIn(s, d)) + 1
  BY <1>2, <1>4, FS_AddElement
<1>6. Due(t, d) = Due(s, d) + (IF IsAnswer(m, d) THEN 1 ELSE 0)
  BY <1>3, <1>4, <1>5 DEF Due
<1> QED BY <1>6 DEF t

LEMMA DueTail ==
  ASSUME NEW s \in Seq(Message), s # <<>>, NEW d
  PROVE  Due(s, d) = Due(Tail(s), d) + (IF IsAnswer(Head(s), d) THEN 1 ELSE 0)
<1> DEFINE t == Tail(s)
           A == AnswersIn(s, d) \ {1}
           f == [i \in AnswersIn(t, d) |-> i + 1]
<1>1. /\ Len(s) \in Nat \ {0} /\ Len(t) = Len(s) - 1 /\ t \in Seq(Message)
      /\ \A i \in 1..Len(t) : t[i] = s[i + 1]
  BY EmptySeq, LenProperties, HeadTailProperties
<1>2. Head(s) = s[1]
  OBVIOUS
<1>3. f \in Bijection(AnswersIn(t, d), A)
  <2>1. \A i \in AnswersIn(t, d) : i + 1 \in A /\ i \in Nat
    BY <1>1 DEF AnswersIn
  <2>2. f \in [AnswersIn(t, d) -> A]
    BY <2>1
  <2>3. \A i, j \in AnswersIn(t, d) : f[i] = f[j] => i = j
    BY <2>1
  <2>4. \A k \in A : k - 1 \in AnswersIn(t, d) /\ f[k - 1] = k
    BY <1>1 DEF AnswersIn
  <2>5. f \in Injection(AnswersIn(t, d), A)
    BY <2>2, <2>3 DEF Injection, IsInjective
  <2>6. f \in Surjection(AnswersIn(t, d), A)
    BY <2>2, <2>4 DEF Surjection
  <2> QED BY <2>5, <2>6 DEF Bijection
<1>4. IsFiniteSet(AnswersIn(t, d)) /\ IsFiniteSet(AnswersIn(s, d)) /\ Due(t, d) \in Nat
  BY <1>1, DueIsNat
<1>5. Cardinality(A) = Due(t, d)
  BY <1>3, <1>4, FS_Bijection DEF ExistsBijection, Due
<1>6. 1 \in AnswersIn(s, d) <=> IsAnswer(Head(s), d)
  BY <1>1, <1>2 DEF AnswersIn
<1>7. Cardinality(A) = IF 1 \in AnswersIn(s, d) THEN Due(s, d) - 1 ELSE Due(s, d)
  BY <1>4, FS_RemoveElement DEF Due
<1>8. Due(s, d) \in Nat
  BY DueIsNat
<1> HIDE DEF A, t
<1>9. Due(s, d) = Due(t, d) + (IF IsAnswer(Head(s), d) THEN 1 ELSE 0)
  BY <1>4, <1>5, <1>6, <1>7, <1>8
<1> QED BY <1>9 DEF t
-------------------------------------------------------------------------------
(* Sequences of messages and of events *)

LEMMA AppendTwo ==
  ASSUME NEW S, NEW s \in Seq(S), NEW a \in S, NEW b \in S
  PROVE  s \o <<a, b>> = Append(Append(s, a), b)
<1> DEFINE t == s \o <<a, b>>
           r == Append(Append(s, a), b)
<1>1. <<a, b>> \in Seq(S) /\ Len(<<a, b>>) = 2 /\ Len(s) \in Nat
  BY LenProperties
<1>2. t \in Seq(S) /\ Len(t) = Len(s) + 2
      /\ \A i \in 1..(Len(s) + 2) : t[i] = IF i <= Len(s) THEN s[i] ELSE <<a, b>>[i - Len(s)]
  BY <1>1, ConcatProperties
<1>3. Append(s, a) \in Seq(S) /\ Len(Append(s, a)) = Len(s) + 1
      /\ Append(s, a)[Len(s) + 1] = a /\ \A i \in 1..Len(s) : Append(s, a)[i] = s[i]
  BY <1>1, AppendProperties
<1>4. r \in Seq(S) /\ Len(r) = Len(s) + 2 /\ r[Len(s) + 2] = b
      /\ \A i \in 1..(Len(s) + 1) : r[i] = Append(s, a)[i]
  BY <1>1, <1>3, AppendProperties
<1>5. \A i \in 1..(Len(s) + 2) : t[i] = r[i]
  <2> SUFFICES ASSUME NEW i \in 1..(Len(s) + 2) PROVE t[i] = r[i]
    OBVIOUS
  <2>1. CASE i <= Len(s)
    BY <1>1, <1>2, <1>3, <1>4, <2>1
  <2>2. CASE i = Len(s) + 1
    BY <1>1, <1>2, <1>3, <1>4, <2>2
  <2>3. CASE i = Len(s) + 2
    BY <1>1, <1>2, <1>4, <2>3
  <2> QED BY <1>1, <2>1, <2>2, <2>3
<1> HIDE DEF t, r
<1>6. t = r
  BY <1>2, <1>4, <1>5, SeqEqual
<1> QED BY <1>6 DEF t, r

LEMMA AppendThree ==
  ASSUME NEW S, NEW s \in Seq(S), NEW a \in S, NEW b \in S, NEW c \in S
  PROVE  s \o <<a, b, c>> = Append(Append(Append(s, a), b), c)
<1>1. <<a, b, c>> = <<a>> \o <<b, c>>
  OBVIOUS
<1>2. s \o <<a>> = Append(s, a)
  OBVIOUS
<1>3. <<a>> \in Seq(S) /\ <<b, c>> \in Seq(S) /\ Append(s, a) \in Seq(S)
  BY AppendProperties
<1>4. s \o <<a, b, c>> = Append(s, a) \o <<b, c>>
  BY <1>1, <1>2, <1>3, ConcatAssociative
<1> QED BY <1>3, <1>4, AppendTwo

-------------------------------------------------------------------------------
(* Types, and the answers due *)

(* Without a call there is nothing on the wire or kept of it.              *)
NotOpenIsEmpty ==
  stream # "Open" =>
    /\ down = <<>> /\ watched = {}
    /\ \A d \in Docs : /\ up[d] = <<>> /\ outstanding[d] = 0 /\ update[d] = 0
                       /\ ~pending[d] /\ ~isCurrent[d]

(* A call not made yet has neither events nor a removal.                   *)
CallsMade == \A g \in Gets : g \notin DOMAIN doc => g \notin removing /\ events[g] = <<>>

Typed == TypeOK /\ OutstandingIsDue /\ NotOpenIsEmpty /\ CallsMade

LEMMA AppendOfDocs ==
  ASSUME NEW S, NEW s \in Seq(S), NEW a \in S
  PROVE  Append(s, a) \in Seq(S) /\ Len(Append(s, a)) = Len(s) + 1 /\ Len(s) \in Nat
BY AppendProperties, LenProperties

LEMMA RaisingTypes ==
  ASSUME TypeOK, doc' \in Seq(Docs), Len(doc') <= MaxGets, RaiseEvents
  PROVE  raised' \subseteq Gets /\ events' \in [Gets -> Seq(Event)]
<1>1. DOMAIN doc' \subseteq Gets
  <2>1. Len(doc') \in Nat /\ DOMAIN doc' = 1..Len(doc')
    BY LenProperties
  <2> QED BY <2>1, BoundsAssumption DEF Gets
<1>2. \A d : Snapshot(d) \in Event
  BY DEF Snapshot, Event
<1>3. \A g \in Gets : \A e \in Event : Dispatch(g, e) \in Seq(Event)
  BY AppendOfDocs DEF Dispatch, TypeOK
<1> QED BY <1>1, <1>2, <1>3 DEF RaiseEvents, TypeOK

LEMMA DisconnectedTyped ==
  ASSUME Disconnected
  PROVE  /\ outstanding' \in [Docs -> Nat]
         /\ isCurrent' \in [Docs -> BOOLEAN] /\ pending' \in [Docs -> BOOLEAN]
         /\ update' \in [Docs -> Versions]
         /\ up' \in [Docs -> Seq({"watch", "unwatch"})]
         /\ down' \in Seq(Message) /\ watched' \subseteq Docs
         /\ OutstandingIsDue' /\ NotOpenIsEmpty'
<1>1. 0 \in Versions
  BY BoundsAssumption DEF Versions
<1>2. <<>> \in Seq(Message) /\ <<>> \in Seq({"watch", "unwatch"}) /\ Len(<<>>) = 0
  BY EmptySeq
<1> QED BY <1>1, <1>2, DueEmpty DEF Disconnected, OutstandingIsDue, NotOpenIsEmpty

LEMMA SendTyped ==
  ASSUME Typed, NEW d \in Docs, NEW request \in {"watch", "unwatch"}, Send(request, d)
  PROVE  /\ outstanding' \in [Docs -> Nat]
         /\ up' \in [Docs -> Seq({"watch", "unwatch"})]
         /\ OutstandingIsDue'
<1>1. /\ Append(up[d], request) \in Seq({"watch", "unwatch"})
      /\ Len(Append(up[d], request)) = Len(up[d]) + 1 /\ Len(up[d]) \in Nat
  BY AppendOfDocs DEF Typed, TypeOK
<1>2. down' = down /\ Due(down, d) \in Nat
  BY DueIsNat DEF Send, Typed, TypeOK
<1>3. outstanding[d] + 1 = Len(Append(up[d], request)) + Due(down, d)
  BY <1>1, <1>2 DEF Typed, OutstandingIsDue
<1> QED BY <1>1, <1>2, <1>3 DEF Send, Typed, TypeOK, OutstandingIsDue

LEMMA InitTyped == Init => Typed
<1> SUFFICES ASSUME Init PROVE Typed
  OBVIOUS
<1>1. 0 \in Versions /\ {0, 1} \cap Versions \subseteq Versions
  BY BoundsAssumption DEF Versions
<1>2. /\ <<>> \in Seq(Docs) /\ <<>> \in Seq(Event) /\ <<>> \in Seq(Message)
      /\ <<>> \in Seq({"watch", "unwatch"}) /\ Len(<<>>) = 0
  BY EmptySeq
<1>3. server \in [Docs -> Versions] /\ cache \in [Docs -> Versions] /\ since \in [Docs -> Versions]
  BY <1>1 DEF Init
<1>4. /\ doc \in Seq(Docs) /\ Len(doc) <= MaxGets /\ told \in [Gets -> Nat]
      /\ listeners \in [Docs -> SUBSET DOMAIN doc] /\ events \in [Gets -> Seq(Event)]
      /\ raised \subseteq Gets /\ muted \subseteq Gets /\ removing \subseteq Gets
  BY <1>2, BoundsAssumption DEF Init
<1>5. /\ outstanding \in [Docs -> Nat] /\ update \in [Docs -> Versions]
      /\ up \in [Docs -> Seq({"watch", "unwatch"})] /\ down \in Seq(Message)
  BY <1>1, <1>2 DEF Init
<1>7. /\ current \in [Docs -> BOOLEAN] /\ isCurrent \in [Docs -> BOOLEAN]
      /\ pending \in [Docs -> BOOLEAN]
      /\ idle \in BOOLEAN /\ timer \in BOOLEAN /\ failed \in BOOLEAN
  BY DEF Init
<1>8. /\ targets \subseteq Docs /\ watched \subseteq Docs /\ failures \in 0..1
      /\ stream \in {"Initial", "Starting", "Open", "Error", "Backoff"}
      /\ online \in {"Unknown", "Online", "Offline"}
  BY DEF Init
<1>6. TypeOK
  BY <1>3, <1>4, <1>5, <1>7, <1>8 DEF TypeOK
<1> QED BY <1>2, <1>6, DueEmpty DEF Init, Typed, OutstandingIsDue, NotOpenIsEmpty, CallsMade

(* What an action that leaves the wire alone has to show.                  *)
LEMMA WireKept ==
  ASSUME Typed, UNCHANGED <<aggregator, wire>>, stream' = "Open" <=> stream = "Open",
         TypeOK', CallsMade'
  PROVE  Typed'
BY DEF Typed, OutstandingIsDue, NotOpenIsEmpty, aggregator, wire

(* A failed assertion leaves everything else as it is.                     *)
Halted == UNCHANGED <<documents, callers, raising, listeners, current, targets,
                      stream, idle, tracker, aggregator, wire>>
LEMMA HaltedTyped == ASSUME Typed, Halted, failed' = TRUE PROVE Typed'
BY DEF Typed, TypeOK, OutstandingIsDue, NotOpenIsEmpty, Halted, CallsMade, documents,
       callers, raising, tracker, aggregator, wire

LEMMA TrackerTypes ==
  ASSUME Typed, \/ HandleWatchStreamStart \/ HandleWatchStreamFailure
                \/ UNCHANGED tracker \/ UpdateState("Unknown") \/ UpdateState("Online")
  PROVE  online' \in {"Unknown", "Online", "Offline"} /\ failures' \in 0..1 /\ timer' \in BOOLEAN
<1> USE DEF Typed, TypeOK, HandleWatchStreamStart, HandleWatchStreamFailure, UpdateState, tracker
<1>1. 0 \in 0..1 /\ 1 \in 0..1
  OBVIOUS
<1>2. failures' \in {failures, 0, 1}
  OBVIOUS
<1>3. failures' \in 0..1
  BY <1>1, <1>2
<1>4. online' \in {"Unknown", "Online", "Offline"}
  OBVIOUS
<1>5. timer' \in BOOLEAN
  OBVIOUS
<1> QED BY <1>3, <1>4, <1>5

(* Calls not made are neither removed nor told of anything.                *)
LEMMA CallsKept ==
  ASSUME Typed, DOMAIN doc \subseteq DOMAIN doc', removing' \subseteq removing,
         RaiseEvents \/ UNCHANGED events
  PROVE  CallsMade'
BY DEF Typed, CallsMade, RaiseEvents

LEMMA GetTyped == ASSUME Typed, NEW d \in Docs, GetDocument(d) PROVE Typed'
<1> DEFINE first == listeners[d] = {}
<1>1. CASE Halted /\ failed' = TRUE
  BY <1>1, HaltedTyped
<1>2. CASE ~(Halted /\ failed' = TRUE)
  <2>1. /\ Len(doc) < MaxGets /\ doc' = Append(doc, d)
        /\ listeners' = [listeners EXCEPT ![d] = @ \cup {Len(doc) + 1}]
        /\ IF first THEN Listen(d)
           ELSE UNCHANGED <<since, targets, stream, idle, tracker, aggregator, wire>>
        /\ UNCHANGED <<server, cache, told, muted, removing, current, failed>>
        /\ RaiseEvents
    BY <1>2 DEF GetDocument, HardAssert, Halted
  <2>2. /\ doc' \in Seq(Docs) /\ Len(doc') = Len(doc) + 1 /\ Len(doc) \in Nat
        /\ DOMAIN doc = 1..Len(doc) /\ DOMAIN doc' = 1..Len(doc')
    BY <2>1, AppendOfDocs, LenProperties DEF Typed, TypeOK
  <2>3. Len(doc') <= MaxGets /\ Len(doc) + 1 \in DOMAIN doc' /\ DOMAIN doc \subseteq DOMAIN doc'
    BY <2>1, <2>2, BoundsAssumption
  <2>4. listeners' \in [Docs -> SUBSET DOMAIN doc']
    BY <2>1, <2>3 DEF Typed, TypeOK
  <2>5. raised' \subseteq Gets /\ events' \in [Gets -> Seq(Event)]
    BY <2>1, <2>2, <2>3, RaisingTypes DEF Typed
  <2>12. CallsMade'
    BY <2>1, <2>3, CallsKept
  <2> USE DEF Typed
  <2>6. /\ server' \in [Docs -> Versions] /\ cache' \in [Docs -> Versions]
        /\ told' \in [Gets -> Nat] /\ muted' \subseteq Gets /\ removing' \subseteq Gets
        /\ current' \in [Docs -> BOOLEAN] /\ failed' \in BOOLEAN
    BY <2>1 DEF TypeOK
  <2>7. /\ since' \in [Docs -> Versions] /\ targets' \subseteq Docs
    BY <2>1 DEF TypeOK, Listen
  <2>8. /\ stream' \in {"Initial", "Starting", "Open", "Error", "Backoff"} /\ idle' \in BOOLEAN
        /\ stream' = "Open" <=> stream = "Open"
    BY <2>1 DEF TypeOK, Listen, StartWatchStream, IsStarted
  <2>9. online' \in {"Unknown", "Online", "Offline"} /\ failures' \in 0..1 /\ timer' \in BOOLEAN
    BY <2>1, TrackerTypes DEF Listen, StartWatchStream
  <2>10. CASE first /\ stream = "Open"
    <3>1. Send("watch", d)
      BY <2>1, <2>10 DEF Listen, IsStarted
    <3>2. /\ outstanding' \in [Docs -> Nat] /\ up' \in [Docs -> Seq({"watch", "unwatch"})]
          /\ OutstandingIsDue'
      BY <3>1, SendTyped
    <3>3. UNCHANGED <<isCurrent, pending, update, down, watched>>
      BY <3>1 DEF Send
    <3>4. TypeOK'
      BY <2>2, <2>3, <2>4, <2>5, <2>6, <2>7, <2>8, <2>9, <3>2, <3>3 DEF TypeOK
    <3> QED BY <2>8, <2>10, <2>12, <3>2, <3>4 DEF NotOpenIsEmpty
  <2>11. CASE ~(first /\ stream = "Open")
    <3>1. UNCHANGED <<aggregator, wire>>
      BY <2>1, <2>11 DEF Listen, IsStarted, aggregator, wire
    <3>2. TypeOK'
      BY <2>2, <2>3, <2>4, <2>5, <2>6, <2>7, <2>8, <2>9, <3>1 DEF TypeOK, aggregator, wire
    <3> QED BY <2>8, <2>12, <3>1, <3>2, WireKept
  <2> QED BY <2>10, <2>11
<1> QED BY <1>1, <1>2

LEMMA HandleTyped == ASSUME Typed, NEW g \in Gets, HandleEvent(g) PROVE Typed'
<1>1. events[g] \in Seq(Event) /\ events[g] # <<>> /\ Tail(events[g]) \in Seq(Event)
  BY HeadTailProperties DEF HandleEvent, Typed, TypeOK
<1>2. UNCHANGED <<aggregator, wire, stream>>
  BY DEF HandleEvent
<1>3. TypeOK'
  BY <1>1 DEF HandleEvent, Typed, TypeOK, documents, tracker, aggregator, wire
<1>4. CallsMade'
  BY DEF HandleEvent, Typed, TypeOK, CallsMade
<1> QED BY <1>2, <1>3, <1>4, WireKept

LEMMA RemoveTyped == ASSUME Typed, NEW g \in Gets, RemoveListener(g) PROVE Typed'
<1> DEFINE d == doc[g]
           last == listeners[d] = {g}
<1>1. CASE Halted /\ failed' = TRUE
  BY <1>1, HaltedTyped
<1>2. CASE ~(Halted /\ failed' = TRUE)
  <2>1. d \in Docs
    BY LenProperties DEF Typed, TypeOK, CallsMade, RemoveListener
  <2>2. /\ removing' = removing \ {g}
        /\ listeners' = [listeners EXCEPT ![d] = @ \ {g}]
        /\ targets' = IF last THEN targets \ {d} ELSE targets
        /\ current' = [current EXCEPT ![d] = @ /\ ~last]
        /\ since' = IF last THEN [since EXCEPT ![d] = 0] ELSE since
        /\ IF last /\ stream = "Open" THEN Send("unwatch", d) /\ idle' = (targets' = {})
                                      ELSE UNCHANGED <<idle, aggregator, wire>>
        /\ IF last /\ stream # "Open" /\ targets' = {} THEN UpdateState("Unknown")
                                                       ELSE UNCHANGED tracker
        /\ UNCHANGED <<server, cache, doc, told, muted, raised, events, stream, failed>>
    BY <1>2 DEF RemoveListener, HardAssert, Halted, raising
  <2> HIDE DEF last
  <2>9. CallsMade'
    BY <2>2, CallsKept
  <2> USE DEF Typed
  <2>3. /\ server' \in [Docs -> Versions] /\ cache' \in [Docs -> Versions]
        /\ told' \in [Gets -> Nat] /\ muted' \subseteq Gets /\ removing' \subseteq Gets
        /\ raised' \subseteq Gets /\ events' \in [Gets -> Seq(Event)]
        /\ doc' \in Seq(Docs) /\ Len(doc') <= MaxGets
        /\ failed' \in BOOLEAN /\ targets' \subseteq Docs
        /\ stream' \in {"Initial", "Starting", "Open", "Error", "Backoff"}
    BY <2>2 DEF TypeOK
  <2>4. 0 \in Versions
    BY BoundsAssumption DEF Versions
  <2>5. /\ listeners' \in [Docs -> SUBSET DOMAIN doc'] /\ current' \in [Docs -> BOOLEAN]
        /\ since' \in [Docs -> Versions]
    BY <2>2, <2>4 DEF TypeOK
  <2>6. online' \in {"Unknown", "Online", "Offline"} /\ failures' \in 0..1 /\ timer' \in BOOLEAN
    BY <2>2, TrackerTypes
  <2>7. CASE last /\ stream = "Open"
    <3>1. Send("unwatch", d) /\ idle' \in BOOLEAN
      BY <2>2, <2>7
    <3>2. /\ outstanding' \in [Docs -> Nat] /\ up' \in [Docs -> Seq({"watch", "unwatch"})]
          /\ OutstandingIsDue'
      BY <2>1, <3>1, SendTyped
    <3>3. UNCHANGED <<isCurrent, pending, update, down, watched>>
      BY <3>1 DEF Send
    <3>4. TypeOK'
      BY <2>3, <2>5, <2>6, <3>1, <3>2, <3>3 DEF TypeOK
    <3> QED BY <2>2, <2>7, <2>9, <3>2, <3>4 DEF NotOpenIsEmpty
  <2>8. CASE ~(last /\ stream = "Open")
    <3>1. UNCHANGED <<idle, aggregator, wire>>
      BY <2>2, <2>8
    <3>2. TypeOK'
      BY <2>3, <2>5, <2>6, <3>1 DEF TypeOK, aggregator, wire
    <3> QED BY <2>2, <2>9, <3>1, <3>2, WireKept
  <2> QED BY <2>7, <2>8
<1> QED BY <1>1, <1>2

LEMMA DueSame ==
  ASSUME NEW s \in Seq(Message), NEW m \in Message, NEW d, ~IsAnswer(m, d)
  PROVE  Due(Append(s, m), d) = Due(s, d)
BY DueAppend, DueIsNat

LEMMA DueMore ==
  ASSUME NEW s \in Seq(Message), NEW m \in Message, NEW d, IsAnswer(m, d)
  PROVE  Due(Append(s, m), d) = Due(s, d) + 1
BY DueAppend

LEMMA RestartTyped == ASSUME Typed, RestartNetwork PROVE Typed'
<1>1. Disconnected /\ UNCHANGED <<documents, callers, raising, listeners, current, targets, failed>>
  BY DEF RestartNetwork
<1>2. CallsMade'
  BY <1>1, CallsKept DEF callers, raising
<1>3. stream' \in {"Initial", "Starting", "Open", "Error", "Backoff"} /\ idle' \in BOOLEAN
  BY DEF RestartNetwork
<1>4. online' \in {"Unknown", "Online", "Offline"} /\ timer' \in BOOLEAN
  BY DEF RestartNetwork
<1>5. failures' \in 0..1
  BY DEF RestartNetwork
<1>6. TypeOK'
  BY <1>1, <1>3, <1>4, <1>5, DisconnectedTyped DEF Typed, TypeOK, documents, callers, raising
<1> QED BY <1>1, <1>2, <1>6, DisconnectedTyped DEF Typed

LEMMA CredentialsTyped == ASSUME Typed, CredentialsArrive PROVE Typed'
<1>1. UNCHANGED <<documents, callers, raising, listeners, current, targets, idle, tracker,
                  isCurrent, pending, update, down, watched, failed>>
  BY DEF CredentialsArrive
<1>2. CallsMade'
  BY <1>1, CallsKept DEF callers, raising
<1>3. <<"watch">> \in Seq({"watch", "unwatch"}) /\ Len(<<"watch">>) = 1
  OBVIOUS
<1>4. <<>> \in Seq({"watch", "unwatch"}) /\ Len(<<>>) = 0
  BY EmptySeq
<1>5. /\ outstanding' = [d \in Docs |-> IF d \in targets THEN 1 ELSE 0]
      /\ up' = [d \in Docs |-> IF d \in targets THEN <<"watch">> ELSE <<>>]
      /\ stream' = "Open" /\ stream # "Open"
  BY DEF CredentialsArrive
<1>6. outstanding' \in [Docs -> Nat] /\ up' \in [Docs -> Seq({"watch", "unwatch"})]
  BY <1>3, <1>4, <1>5
<1>7. TypeOK'
  BY <1>1, <1>5, <1>6 DEF Typed, TypeOK, documents, callers, raising, tracker
<1>8. OutstandingIsDue'
  <2>1. down' = <<>>
    BY <1>1, <1>5 DEF Typed, NotOpenIsEmpty
  <2> QED BY <1>3, <1>4, <1>5, <2>1, DueEmpty DEF OutstandingIsDue
<1> QED BY <1>2, <1>5, <1>7, <1>8 DEF Typed, NotOpenIsEmpty

LEMMA FailsTyped == ASSUME Typed, StreamFails PROVE Typed'
<1>1. CASE Halted /\ failed' = TRUE
  BY <1>1, HaltedTyped
<1>2. CASE ~(Halted /\ failed' = TRUE)
  <2>1. /\ IF targets # {} THEN HandleWatchStreamFailure /\ stream' = "Backoff"
                           ELSE UpdateState("Unknown") /\ stream' = "Error"
        /\ idle' = FALSE /\ Disconnected /\ ViewsFollowOnline
        /\ UNCHANGED <<documents, callers, listeners, targets, failed>>
        /\ RaiseEvents
    BY <1>2 DEF StreamFails, HardAssert, Halted
  <2>2. CallsMade'
    BY <2>1, CallsKept DEF callers
  <2>3. doc' \in Seq(Docs) /\ Len(doc') <= MaxGets
    BY <2>1 DEF Typed, TypeOK, callers
  <2>4. raised' \subseteq Gets /\ events' \in [Gets -> Seq(Event)]
    BY <2>1, <2>3, RaisingTypes DEF Typed
  <2>5. online' \in {"Unknown", "Online", "Offline"} /\ failures' \in 0..1 /\ timer' \in BOOLEAN
    BY <2>1, TrackerTypes
  <2>6. current' \in [Docs -> BOOLEAN]
    BY <2>1 DEF Typed, TypeOK, ViewsFollowOnline
  <2>7. stream' \in {"Initial", "Starting", "Open", "Error", "Backoff"} /\ idle' \in BOOLEAN
    BY <2>1
  <2>8. TypeOK'
    BY <2>1, <2>4, <2>5, <2>6, <2>7, DisconnectedTyped DEF Typed, TypeOK, documents, callers
  <2> QED BY <2>1, <2>2, <2>8, DisconnectedTyped DEF Typed
<1> QED BY <1>1, <1>2

LEMMA BackoffTyped == ASSUME Typed, BackoffElapses PROVE Typed'
<1>1. UNCHANGED <<documents, callers, raising, listeners, current, targets, idle, tracker,
                  aggregator, wire, failed>> /\ stream = "Backoff" /\ stream' = "Starting"
  BY DEF BackoffElapses
<1>2. CallsMade'
  BY <1>1, CallsKept DEF callers, raising
<1>3. TypeOK'
  BY <1>1 DEF Typed, TypeOK, documents, callers, raising, tracker, aggregator, wire
<1> QED BY <1>1, <1>2, <1>3, WireKept

LEMMA IdleTyped == ASSUME Typed, IdleTimeout PROVE Typed'
<1>1. CASE Halted /\ failed' = TRUE
  BY <1>1, HaltedTyped
<1>2. CASE ~(Halted /\ failed' = TRUE)
  <2>1. /\ stream' = "Initial" /\ idle' = FALSE /\ UpdateState("Unknown") /\ Disconnected
        /\ UNCHANGED <<documents, callers, raising, listeners, current, targets, failed>>
    BY <1>2 DEF IdleTimeout, HardAssert, Halted
  <2>2. CallsMade'
    BY <2>1, CallsKept DEF callers, raising
  <2>3. online' \in {"Unknown", "Online", "Offline"} /\ failures' \in 0..1 /\ timer' \in BOOLEAN
    BY <2>1, TrackerTypes
  <2>4. TypeOK'
    BY <2>1, <2>3, DisconnectedTyped DEF Typed, TypeOK, documents, callers, raising
  <2> QED BY <2>1, <2>2, <2>4, DisconnectedTyped DEF Typed
<1> QED BY <1>1, <1>2

LEMMA TimeoutTyped == ASSUME Typed, OnlineStateTimeout PROVE Typed'
<1>1. CASE Halted /\ failed' = TRUE
  BY <1>1, HaltedTyped
<1>2. CASE ~(Halted /\ failed' = TRUE)
  <2>1. /\ online' = "Offline" /\ timer' = FALSE /\ UNCHANGED failures
        /\ ViewsFollowOnline /\ RaiseEvents
        /\ UNCHANGED <<documents, callers, listeners, targets, stream, idle, aggregator, wire, failed>>
    BY <1>2 DEF OnlineStateTimeout, HardAssert, Halted
  <2>2. CallsMade'
    BY <2>1, CallsKept DEF callers
  <2>3. doc' \in Seq(Docs) /\ Len(doc') <= MaxGets
    BY <2>1 DEF Typed, TypeOK, callers
  <2>4. raised' \subseteq Gets /\ events' \in [Gets -> Seq(Event)]
    BY <2>1, <2>3, RaisingTypes DEF Typed
  <2>5. current' \in [Docs -> BOOLEAN]
    BY <2>1 DEF Typed, TypeOK, ViewsFollowOnline
  <2>6. TypeOK'
    BY <2>1, <2>4, <2>5 DEF Typed, TypeOK, documents, callers, aggregator, wire
  <2> QED BY <2>1, <2>2, <2>6, WireKept
<1> QED BY <1>1, <1>2

(* One message less on its way: an answer is no longer due.                *)
LEMMA ReadTyped == ASSUME Typed, OnWatchStreamChange PROVE Typed'
<1> DEFINE m == Head(down)
<1>1. /\ stream = "Open" /\ down # <<>> /\ down' = Tail(down)
      /\ \/ m.type \in {"added", "removed"} /\ ReadAnswer(m.doc, m.type = "removed")
         \/ m.type = "update" /\ ReadUpdate(m.doc, m.version)
         \/ m.type = "snapshot" /\ ReadSnapshot
      /\ UpdateState("Online") /\ RaiseEvents
      /\ UNCHANGED <<server, since, callers, listeners, targets, stream, idle, up, watched, failed>>
  BY DEF OnWatchStreamChange
<1>2. /\ m \in Message /\ down' \in Seq(Message)
      /\ m.doc \in Docs /\ m.version \in Versions
  <2>1. down \in Seq(Message) /\ down # <<>>
    BY <1>1 DEF Typed, TypeOK
  <2>2. m \in Message /\ Tail(down) \in Seq(Message)
    BY <2>1, HeadTailProperties
  <2> QED BY <1>1, <2>2 DEF Message
<1>3. CallsMade'
  BY <1>1, CallsKept DEF callers
<1>4. raised' \subseteq Gets /\ events' \in [Gets -> Seq(Event)]
  BY <1>1, RaisingTypes DEF Typed, TypeOK, callers
<1>5. online' \in {"Unknown", "Online", "Offline"} /\ failures' \in 0..1 /\ timer' \in BOOLEAN
  BY <1>1, TrackerTypes
<1>6. \A d \in Docs : Due(down, d) = Due(down', d) + (IF IsAnswer(m, d) THEN 1 ELSE 0)
                      /\ Due(down', d) \in Nat
  BY <1>1, <1>2, DueTail, DueIsNat DEF Typed, TypeOK
<1>7. \A d \in Docs : outstanding[d] \in Nat /\ Len(up[d]) \in Nat
                      /\ outstanding[d] = Len(up[d]) + Due(down, d)
  BY LenProperties DEF Typed, TypeOK, OutstandingIsDue
<1> HIDE DEF m
<1>8. outstanding' \in [Docs -> Nat] /\ OutstandingIsDue'
  <2>1. CASE m.type \in {"added", "removed"}
    <3>1. outstanding' = [outstanding EXCEPT ![m.doc] = @ - 1]
      BY <1>1, <2>1 DEF ReadAnswer
    <3>2. \A d \in Docs : IsAnswer(m, d) <=> d = m.doc
      BY <2>1 DEF IsAnswer
    <3>3. \A d \in Docs : /\ outstanding'[d] = outstanding[d] - (IF d = m.doc THEN 1 ELSE 0)
                          /\ outstanding'[d] = Len(up[d]) + Due(down', d)
      BY <1>2, <1>6, <1>7, <3>1, <3>2 DEF Typed, TypeOK
    <3>4. outstanding' \in [Docs -> Nat]
      BY <1>2, <1>6, <1>7, <3>1, <3>3 DEF Typed, TypeOK
    <3> QED BY <1>1, <3>3, <3>4 DEF OutstandingIsDue
  <2>2. CASE m.type \notin {"added", "removed"}
    <3>1. outstanding' = outstanding
      BY <1>1, <2>2 DEF ReadUpdate, ReadSnapshot
    <3>2. \A d \in Docs : ~IsAnswer(m, d)
      BY <2>2 DEF IsAnswer
    <3> QED BY <1>1, <1>6, <1>7, <3>1, <3>2 DEF OutstandingIsDue, Typed, TypeOK
  <2> QED BY <2>1, <2>2
<1>9. /\ isCurrent' \in [Docs -> BOOLEAN] /\ pending' \in [Docs -> BOOLEAN]
      /\ current' \in [Docs -> BOOLEAN]
  BY <1>1, <1>2 DEF Typed, TypeOK, ReadAnswer, ReadUpdate, ReadSnapshot
<1>10. 0 \in Versions
  BY BoundsAssumption DEF Versions
<1>11. update' \in [Docs -> Versions] /\ cache' \in [Docs -> Versions]
  BY <1>1, <1>2, <1>10 DEF Typed, TypeOK, ReadAnswer, ReadUpdate, ReadSnapshot
<1>12. TypeOK'
  BY <1>1, <1>2, <1>4, <1>5, <1>8, <1>9, <1>11 DEF Typed, TypeOK, callers
<1> QED BY <1>1, <1>3, <1>8, <1>12 DEF Typed, NotOpenIsEmpty

LEMMA RefusedTyped == ASSUME Typed, NEW d \in Docs, ListenRefused(d) PROVE Typed'
<1>1. /\ stream = "Open" /\ Answers(d) = {}
      /\ targets' = targets \ {d} /\ listeners' = [listeners EXCEPT ![d] = {}]
      /\ events' = [g \in Gets |-> IF g \in listeners[d] THEN Dispatch(g, "refused") ELSE events[g]]
      /\ current' = [current EXCEPT ![d] = FALSE]
      /\ outstanding' = [outstanding EXCEPT ![d] = 0]
      /\ pending' = [pending EXCEPT ![d] = FALSE] /\ isCurrent' = [isCurrent EXCEPT ![d] = FALSE]
      /\ up' = [up EXCEPT ![d] = <<>>]
      /\ UpdateState("Online") /\ since' = [since EXCEPT ![d] = 0]
      /\ UNCHANGED <<server, cache, callers, raised, stream, idle, update, down, watched, failed>>
  BY DEF ListenRefused
<1>2. listeners[d] \subseteq DOMAIN doc
  BY DEF Typed, TypeOK
<1>3. CallsMade'
  BY <1>1, <1>2 DEF Typed, CallsMade, callers
<1>4. events' \in [Gets -> Seq(Event)]
  <2>1. "refused" \in Event
    BY DEF Event
  <2>2. \A g \in Gets : Dispatch(g, "refused") \in Seq(Event)
    BY <2>1, AppendOfDocs DEF Dispatch, Typed, TypeOK
  <2> QED BY <1>1, <2>2 DEF Typed, TypeOK
<1>5. online' \in {"Unknown", "Online", "Offline"} /\ failures' \in 0..1 /\ timer' \in BOOLEAN
  BY <1>1, TrackerTypes
<1>6. 0 \in Versions /\ <<>> \in Seq({"watch", "unwatch"}) /\ Len(<<>>) = 0
  BY BoundsAssumption, EmptySeq DEF Versions
<1>7. /\ outstanding' \in [Docs -> Nat] /\ up' \in [Docs -> Seq({"watch", "unwatch"})]
      /\ since' \in [Docs -> Versions]
  BY <1>1, <1>6 DEF Typed, TypeOK
<1>8. /\ listeners' \in [Docs -> SUBSET DOMAIN doc'] /\ targets' \subseteq Docs
      /\ current' \in [Docs -> BOOLEAN] /\ pending' \in [Docs -> BOOLEAN]
      /\ isCurrent' \in [Docs -> BOOLEAN]
  BY <1>1 DEF Typed, TypeOK, callers
<1>9. TypeOK'
  BY <1>1, <1>4, <1>5, <1>7, <1>8 DEF Typed, TypeOK, callers
<1>10. OutstandingIsDue'
  <2>1. Due(down, d) = 0
    <3>1. AnswersIn(down, d) = {}
      BY <1>1 DEF Answers, AnswersIn, IsAnswer
    <3> QED BY <3>1, DueIsNat DEF Typed, TypeOK
  <2> QED BY <1>1, <1>6, <2>1 DEF Typed, TypeOK, OutstandingIsDue
<1> QED BY <1>1, <1>3, <1>9, <1>10 DEF Typed, NotOpenIsEmpty

(* The service: an answer due for a request less.                          *)
LEMMA AnswersTyped == ASSUME Typed, NEW d \in Docs, ServiceAnswers(d) PROVE Typed'
<1>1. /\ up[d] # <<>> /\ up' = [up EXCEPT ![d] = Tail(@)] /\ UNCHANGED server
      /\ UNCHANGED <<cache, since, callers, raising, listeners, current, targets, stream,
                     idle, tracker, aggregator, failed>>
  BY DEF ServiceAnswers
<1>2. /\ up[d] \in Seq({"watch", "unwatch"}) /\ down \in Seq(Message)
      /\ server'[d] \in Versions /\ 0 \in Versions
  BY <1>1, BoundsAssumption DEF Typed, TypeOK, Versions
<1>3. /\ Tail(up[d]) \in Seq({"watch", "unwatch"}) /\ Len(up[d]) \in Nat
      /\ Len(Tail(up[d])) = Len(up[d]) - 1
  BY <1>1, <1>2, HeadTailProperties, LenProperties
<1>4. \A type \in {"added", "removed", "update", "snapshot"} : Say(type, d) \in Message
  BY <1>2 DEF Say, Message
<1>5. /\ down' \in Seq(Message) /\ watched' \subseteq Docs
      /\ \A e \in Docs : Due(down', e) = Due(down, e) + (IF e = d THEN 1 ELSE 0)
                         /\ Due(down, e) \in Nat
  <2> DEFINE a == Say("added", d)
             b == Say("update", d)
             c == Say("snapshot", d)
             r == Say("removed", d)
  <2>1. a \in Message /\ b \in Message /\ c \in Message /\ r \in Message
    BY <1>4
  <2>2. \A e \in Docs : /\ IsAnswer(a, e) <=> e = d
                        /\ IsAnswer(r, e) <=> e = d
                        /\ ~IsAnswer(b, e) /\ ~IsAnswer(c, e)
    BY DEF IsAnswer, Say
  <2>3. \A e \in Docs : Due(down, e) \in Nat
    BY <1>2, DueIsNat
  <2>4. CASE Head(up[d]) = "watch"
    <3>1. down' = down \o <<a, b, c>> /\ watched' = watched \cup {d}
      BY <2>4 DEF ServiceAnswers
    <3> HIDE DEF a, b, c, r
    <3>2. down' = Append(Append(Append(down, a), b), c)
      BY <1>2, <2>1, <3>1, AppendThree
    <3>3. Append(down, a) \in Seq(Message) /\ Append(Append(down, a), b) \in Seq(Message)
          /\ down' \in Seq(Message)
      BY <1>2, <2>1, <3>2, AppendOfDocs
    <3>4. \A e \in Docs : Due(down', e) = Due(Append(Append(down, a), b), e)
      BY <2>1, <2>2, <3>2, <3>3, DueSame
    <3>5. \A e \in Docs : Due(Append(Append(down, a), b), e) = Due(Append(down, a), e)
      BY <2>1, <2>2, <3>3, DueSame
    <3>6. \A e \in Docs : Due(Append(down, a), e) = Due(down, e) + (IF e = d THEN 1 ELSE 0)
      BY <1>2, <2>1, <2>2, <2>3, DueSame, DueMore
    <3> QED BY <2>3, <3>1, <3>3, <3>4, <3>5, <3>6 DEF Typed, TypeOK
  <2>5. CASE Head(up[d]) # "watch"
    <3>1. down' = Append(down, r) /\ watched' = watched \ {d}
      BY <2>5 DEF ServiceAnswers
    <3> HIDE DEF a, b, c, r
    <3>2. down' \in Seq(Message)
      BY <1>2, <2>1, <3>1, AppendOfDocs
    <3>3. \A e \in Docs : Due(down', e) = Due(down, e) + (IF e = d THEN 1 ELSE 0)
      BY <1>2, <2>1, <2>2, <2>3, <3>1, DueSame, DueMore
    <3> QED BY <2>3, <3>1, <3>2, <3>3 DEF Typed, TypeOK
  <2> QED BY <2>4, <2>5
<1>6. CallsMade'
  BY <1>1, CallsKept DEF callers, raising
<1>7. up' \in [Docs -> Seq({"watch", "unwatch"})]
  BY <1>1, <1>3 DEF Typed, TypeOK
<1>8. TypeOK'
  BY <1>1, <1>5, <1>7 DEF Typed, TypeOK, callers, raising, tracker, aggregator
<1>9. \A e \in Docs : Len(up'[e]) = Len(up[e]) - (IF e = d THEN 1 ELSE 0) /\ Len(up[e]) \in Nat
  BY <1>1, <1>3, LenProperties DEF Typed, TypeOK
<1>10. OutstandingIsDue'
  <2> SUFFICES ASSUME NEW e \in Docs PROVE outstanding'[e] = Len(up'[e]) + Due(down', e)
    BY DEF OutstandingIsDue
  <2>1. outstanding'[e] = Len(up[e]) + Due(down, e)
    BY <1>1 DEF Typed, OutstandingIsDue, aggregator
  <2>2. CASE e = d
    <3>1. Due(down', e) = Due(down, e) + 1 /\ Due(down, e) \in Nat
      BY <1>5, <2>2
    <3>2. Len(up'[e]) = Len(up[e]) - 1 /\ Len(up[e]) \in Nat
      BY <1>9, <2>2
    <3> QED BY <2>1, <3>1, <3>2
  <2>3. CASE e # d
    <3>1. Due(down', e) = Due(down, e)
      BY <1>5, <2>3
    <3>2. up'[e] = up[e]
      BY <1>1, <2>3 DEF Typed, TypeOK
    <3> QED BY <2>1, <3>1, <3>2
  <2> QED BY <2>2, <2>3
<1>11. stream = "Open" /\ stream' = "Open"
  BY <1>1 DEF Typed, NotOpenIsEmpty
<1> QED BY <1>6, <1>8, <1>10, <1>11 DEF Typed, NotOpenIsEmpty

LEMMA ChangesTyped == ASSUME Typed, NEW d \in Docs, DocumentChanges(d) PROVE Typed'
<1>1. /\ server[d] < MaxVersion /\ server' = [server EXCEPT ![d] = @ + 1]
      /\ down' = IF d \in watched THEN down \o <<Say("update", d), Say("snapshot", d)>> ELSE down
      /\ UNCHANGED <<cache, since, callers, raising, listeners, current, targets, stream,
                     idle, tracker, aggregator, up, watched, failed>>
  BY DEF DocumentChanges
<1>2. server[d] + 1 \in Versions /\ 0 \in Versions
  BY <1>1, BoundsAssumption DEF Typed, TypeOK, Versions
<1>3. server' \in [Docs -> Versions] /\ server'[d] \in Versions
  BY <1>1, <1>2 DEF Typed, TypeOK
<1>4. /\ down' \in Seq(Message)
      /\ \A e \in Docs : Due(down', e) = Due(down, e)
  <2> DEFINE b == Say("update", d)
             c == Say("snapshot", d)
  <2>1. b \in Message /\ c \in Message /\ \A e : ~IsAnswer(b, e) /\ ~IsAnswer(c, e)
    BY <1>2, <1>3 DEF Say, Message, IsAnswer
  <2>2. down \in Seq(Message)
    BY DEF Typed, TypeOK
  <2>3. CASE d \in watched
    <3>1. down' = down \o <<b, c>>
      BY <1>1, <2>3
    <3> HIDE DEF b, c
    <3>2. down' = Append(Append(down, b), c)
      BY <2>1, <2>2, <3>1, AppendTwo
    <3>3. Append(down, b) \in Seq(Message) /\ down' \in Seq(Message)
      BY <2>1, <2>2, <3>2, AppendOfDocs
    <3>4. \A e \in Docs : Due(down', e) = Due(Append(down, b), e)
      BY <2>1, <3>2, <3>3, DueSame
    <3>5. \A e \in Docs : Due(Append(down, b), e) = Due(down, e)
      BY <2>1, <2>2, DueSame
    <3> QED BY <3>3, <3>4, <3>5
  <2>4. CASE d \notin watched
    BY <1>1, <2>2, <2>4
  <2> QED BY <2>3, <2>4
<1>5. CallsMade'
  BY <1>1, CallsKept DEF callers, raising
<1>6. TypeOK'
  BY <1>1, <1>3, <1>4 DEF Typed, TypeOK, callers, raising, tracker, aggregator
<1>7. OutstandingIsDue'
  BY <1>1, <1>4 DEF Typed, OutstandingIsDue, aggregator
<1>8. NotOpenIsEmpty'
  BY <1>1 DEF Typed, NotOpenIsEmpty, aggregator
<1> QED BY <1>5, <1>6, <1>7, <1>8 DEF Typed

LEMMA TypedKeeps == Typed /\ [Next]_vars => Typed'
<1> SUFFICES ASSUME Typed, [Next]_vars PROVE Typed'
  OBVIOUS
<1>1. CASE UNCHANGED vars
  BY <1>1 DEF Typed, TypeOK, OutstandingIsDue, NotOpenIsEmpty, CallsMade, vars, documents,
              callers, raising, tracker, aggregator, wire
<1>2. CASE Callers
  BY <1>2, GetTyped, HandleTyped, RemoveTyped DEF Callers
<1>3. CASE Client
  BY <1>3, RestartTyped, CredentialsTyped, FailsTyped, BackoffTyped, IdleTyped,
     TimeoutTyped, ReadTyped DEF Client
<1>4. CASE Service
  BY <1>4, AnswersTyped, RefusedTyped, ChangesTyped DEF Service
<1> QED BY <1>1, <1>2, <1>3, <1>4 DEF Next

LEMMA AlwaysTyped == Spec => []Typed
BY InitTyped, TypedKeeps, PTL DEF Spec

(* Every variable of the reads keeps its type, for any documents and any   *)
(* number of calls and versions.                                           *)
THEOREM TypesAreKept == Spec => []TypeOK
<1>1. Typed => TypeOK
  BY DEF Typed
<1> QED BY <1>1, AlwaysTyped, PTL

-------------------------------------------------------------------------------
(* The stream, its targets and the timer                                   *)

(* The timer runs only while a started stream leaves the state unknown.    *)
TimerWhileUnknown == timer => online = "Unknown" /\ failures = 0 /\ IsStarted
OnlineWithoutFailures == online = "Online" => failures = 0
(* The stream is marked idle only when it is of no use, and only then.     *)
IdleIsUnused == idle => stream = "Open" /\ targets = {}
(* What is listened to is a target, and targets have a stream.             *)
TargetsHaveStream == targets # {} => IsStarted
TargetsAreListened == \A d \in Docs : d \in targets <=> listeners[d] # {}

Steady ==
  /\ TimerWhileUnknown /\ OnlineWithoutFailures /\ IdleIsUnused
  /\ TargetsHaveStream /\ TargetsAreListened /\ NoAssertFails

LEMMA InitSteady == Init => Steady
BY DEF Init, Steady, TimerWhileUnknown, OnlineWithoutFailures, IdleIsUnused,
       TargetsHaveStream, TargetsAreListened, NoAssertFails

(* Each task's assertion holds, so the task runs.                          *)
LEMMA GetRuns ==
  ASSUME Typed, Steady, NEW d \in Docs, GetDocument(d)
  PROVE  /\ Len(doc) < MaxGets /\ doc' = Append(doc, d)
         /\ listeners' = [listeners EXCEPT ![d] = @ \cup {Len(doc) + 1}]
         /\ IF listeners[d] = {} THEN Listen(d)
            ELSE UNCHANGED <<since, targets, stream, idle, tracker, aggregator, wire>>
         /\ UNCHANGED <<server, cache, told, muted, removing, current, failed>>
         /\ RaiseEvents
<1>1. ~IsStarted => NoTimerYet
  BY DEF Steady, TimerWhileUnknown, NoTimerYet
<1> QED BY <1>1 DEF GetDocument, HardAssert

LEMMA RemoveRuns ==
  ASSUME Typed, Steady, NEW g \in Gets, RemoveListener(g)
  PROVE  LET d == doc[g]
             last == listeners[d] = {g}
         IN  /\ d \in Docs /\ g \in removing /\ g \in DOMAIN doc
             /\ removing' = removing \ {g}
             /\ listeners' = [listeners EXCEPT ![d] = @ \ {g}]
             /\ targets' = IF last THEN targets \ {d} ELSE targets
             /\ current' = [current EXCEPT ![d] = @ /\ ~last]
             /\ since' = IF last THEN [since EXCEPT ![d] = 0] ELSE since
             /\ IF last /\ stream = "Open" THEN Send("unwatch", d) /\ idle' = (targets' = {})
                                           ELSE UNCHANGED <<idle, aggregator, wire>>
             /\ IF last /\ stream # "Open" /\ targets' = {} THEN UpdateState("Unknown")
                                                            ELSE UNCHANGED tracker
             /\ UNCHANGED <<server, cache, doc, told, muted, raised, events, stream, failed>>
<1> DEFINE d == doc[g]
<1>1. d \in Docs /\ g \in removing /\ g \in DOMAIN doc
  BY LenProperties DEF Typed, TypeOK, CallsMade, RemoveListener
<1>2. listeners[d] = {g} => d \in targets
  BY <1>1 DEF Steady, TargetsAreListened
<1> QED BY <1>1, <1>2 DEF RemoveListener, HardAssert, raising

LEMMA FailsRuns ==
  ASSUME Typed, Steady, StreamFails
  PROVE  /\ stream \in {"Starting", "Open"}
         /\ IF targets # {} THEN HandleWatchStreamFailure /\ stream' = "Backoff"
                            ELSE UpdateState("Unknown") /\ stream' = "Error"
         /\ idle' = FALSE /\ Disconnected /\ ViewsFollowOnline
         /\ UNCHANGED <<documents, callers, listeners, targets, failed>>
         /\ RaiseEvents
<1>1. online = "Online" /\ targets # {} => failures = 0 /\ ~timer
  BY DEF Steady, TimerWhileUnknown, OnlineWithoutFailures
<1> QED BY <1>1 DEF StreamFails, HardAssert

LEMMA IdleRuns ==
  ASSUME Typed, Steady, IdleTimeout
  PROVE  /\ targets = {} /\ stream' = "Initial" /\ idle' = FALSE
         /\ UpdateState("Unknown") /\ Disconnected
         /\ UNCHANGED <<documents, callers, raising, listeners, current, targets, failed>>
BY DEF IdleTimeout, HardAssert, Steady, IdleIsUnused

LEMMA TimeoutRuns ==
  ASSUME Typed, Steady, OnlineStateTimeout
  PROVE  /\ online = "Unknown" /\ online' = "Offline" /\ timer' = FALSE
         /\ ViewsFollowOnline /\ RaiseEvents
         /\ UNCHANGED <<documents, callers, listeners, targets, stream, idle, failures,
                        aggregator, wire, failed>>
BY DEF OnlineStateTimeout, HardAssert, Steady, TimerWhileUnknown

LEMMA GetSteady == ASSUME Typed, Steady, NEW d \in Docs, GetDocument(d) PROVE Steady'
<1>1. /\ listeners' = [listeners EXCEPT ![d] = @ \cup {Len(doc) + 1}]
      /\ IF listeners[d] = {} THEN Listen(d)
         ELSE UNCHANGED <<since, targets, stream, idle, tracker, aggregator, wire>>
      /\ UNCHANGED failed
  BY GetRuns
<1>2. CASE listeners[d] = {} /\ ~IsStarted
  <2>1. /\ targets' = targets \cup {d} /\ StartWatchStream /\ UNCHANGED idle
    BY <1>1, <1>2 DEF Listen
  <2>2. stream' \in {"Backoff", "Starting"} /\ ~idle /\ ~timer
    BY <1>2, <2>1 DEF StartWatchStream, Steady, IdleIsUnused, TimerWhileUnknown, IsStarted
  <2>3. TimerWhileUnknown' /\ OnlineWithoutFailures'
    BY <2>1, <2>2 DEF StartWatchStream, HandleWatchStreamStart, Steady, TimerWhileUnknown,
                      OnlineWithoutFailures, IsStarted, tracker
  <2>4. TargetsAreListened'
    BY <1>1, <2>1 DEF Typed, TypeOK, Steady, TargetsAreListened
  <2> QED BY <1>1, <2>1, <2>2, <2>3, <2>4 DEF Steady, IdleIsUnused, TargetsHaveStream,
                                               IsStarted, NoAssertFails
<1>3. CASE ~(listeners[d] = {} /\ ~IsStarted)
  <2>1. UNCHANGED <<stream, online, failures, timer>>
    BY <1>1, <1>3 DEF Listen, tracker
  <2>2. targets' = IF listeners[d] = {} THEN targets \cup {d} ELSE targets
    BY <1>1 DEF Listen
  <2>3. idle' => idle /\ targets' = {}
    BY <1>1, <1>3 DEF Listen, Steady, IdleIsUnused
  <2>4. TargetsAreListened'
    BY <1>1, <2>2 DEF Typed, TypeOK, Steady, TargetsAreListened
  <2>5. IsStarted' <=> IsStarted
    BY <2>1 DEF IsStarted
  <2>6. TargetsHaveStream'
    BY <1>3, <2>2, <2>5 DEF Steady, TargetsHaveStream
  <2> QED BY <1>1, <2>1, <2>3, <2>4, <2>5, <2>6
        DEF Steady, IdleIsUnused, TimerWhileUnknown, OnlineWithoutFailures, NoAssertFails
<1> QED BY <1>2, <1>3

LEMMA RemoveSteady == ASSUME Typed, Steady, NEW g \in Gets, RemoveListener(g) PROVE Steady'
<1> DEFINE d == doc[g]
           last == listeners[d] = {g}
<1>1. /\ d \in Docs
      /\ listeners' = [listeners EXCEPT ![d] = @ \ {g}]
      /\ targets' = IF last THEN targets \ {d} ELSE targets
      /\ IF last /\ stream = "Open" THEN idle' = (targets' = {}) ELSE UNCHANGED idle
      /\ UpdateState("Unknown") \/ UNCHANGED tracker
      /\ UNCHANGED <<stream, failed>>
  BY RemoveRuns
<1>2. TargetsAreListened'
  <2> SUFFICES ASSUME NEW e \in Docs PROVE e \in targets' <=> listeners'[e] # {}
    BY DEF TargetsAreListened
  <2>1. e \in targets <=> listeners[e] # {}
    BY DEF Steady, TargetsAreListened
  <2>2. listeners'[e] = IF e = d THEN listeners[e] \ {g} ELSE listeners[e]
    BY <1>1 DEF Typed, TypeOK
  <2>3. listeners[e] \ {g} = {} <=> listeners[e] = {} \/ listeners[e] = {g}
    OBVIOUS
  <2> QED BY <1>1, <2>1, <2>2, <2>3
<1>3. IsStarted' <=> IsStarted
  BY <1>1 DEF IsStarted
<1>4. targets' \subseteq targets
  BY <1>1
<1>5. IdleIsUnused' /\ TargetsHaveStream'
  BY <1>1, <1>3, <1>4 DEF Steady, IdleIsUnused, TargetsHaveStream
<1>6. TimerWhileUnknown' /\ OnlineWithoutFailures'
  BY <1>1, <1>3 DEF Steady, TimerWhileUnknown, OnlineWithoutFailures, UpdateState, tracker
<1> QED BY <1>1, <1>2, <1>5, <1>6 DEF Steady, NoAssertFails

LEMMA ConnectionSteady ==
  ASSUME Typed, Steady,
         \/ RestartNetwork \/ CredentialsArrive \/ StreamFails \/ BackoffElapses
         \/ IdleTimeout \/ OnlineStateTimeout
  PROVE  Steady'
<1>1. UNCHANGED <<listeners, targets, failed>>
  BY FailsRuns, IdleRuns, TimeoutRuns DEF RestartNetwork, CredentialsArrive, BackoffElapses
<1>2. TargetsAreListened' /\ NoAssertFails'
  BY <1>1 DEF Steady, TargetsAreListened, NoAssertFails
<1> USE DEF Steady, IdleIsUnused, TargetsHaveStream, TimerWhileUnknown, OnlineWithoutFailures,
            IsStarted
<1>3. CASE RestartNetwork
  BY <1>1, <1>2, <1>3 DEF RestartNetwork
<1>4. CASE CredentialsArrive \/ BackoffElapses
  BY <1>1, <1>2, <1>4 DEF CredentialsArrive, BackoffElapses, tracker
<1>5. CASE StreamFails
  BY <1>1, <1>2, <1>5, FailsRuns DEF HandleWatchStreamFailure, UpdateState
<1>6. CASE IdleTimeout
  BY <1>1, <1>2, <1>6, IdleRuns DEF UpdateState
<1>7. CASE OnlineStateTimeout
  <2>1. online' = "Offline" /\ timer' = FALSE /\ UNCHANGED <<stream, idle, targets>>
    BY <1>7, TimeoutRuns
  <2> QED BY <1>2, <2>1
<1> QED BY <1>3, <1>4, <1>5, <1>6, <1>7

LEMMA OthersSteady ==
  ASSUME Typed, Steady,
         \/ \E g \in Gets : HandleEvent(g)
         \/ \E d \in Docs : ServiceAnswers(d) \/ DocumentChanges(d)
         \/ OnWatchStreamChange \/ \E d \in Docs : ListenRefused(d)
  PROVE  Steady'
<1>1. CASE \/ \E g \in Gets : HandleEvent(g)
           \/ \E d \in Docs : ServiceAnswers(d) \/ DocumentChanges(d)
  <2>1. UNCHANGED <<listeners, targets, stream, idle, tracker, failed>>
    BY <1>1 DEF HandleEvent, ServiceAnswers, DocumentChanges
  <2> QED BY <2>1 DEF Steady, IdleIsUnused, TargetsHaveStream, TimerWhileUnknown,
            OnlineWithoutFailures, TargetsAreListened, NoAssertFails, IsStarted, tracker
<1>2. CASE OnWatchStreamChange
  <2>1. UNCHANGED <<listeners, targets, stream, idle, failed>> /\ UpdateState("Online")
    BY <1>2 DEF OnWatchStreamChange
  <2> QED BY <2>1 DEF Steady, IdleIsUnused, TargetsHaveStream, TimerWhileUnknown,
            OnlineWithoutFailures, TargetsAreListened, NoAssertFails, IsStarted, UpdateState
<1>3. ASSUME NEW d \in Docs, ListenRefused(d) PROVE Steady'
  <2>1. /\ targets' = targets \ {d} /\ listeners' = [listeners EXCEPT ![d] = {}]
        /\ UNCHANGED <<stream, idle, failed>> /\ UpdateState("Online")
    BY <1>3 DEF ListenRefused
  <2>2. TargetsAreListened'
    BY <2>1 DEF Typed, TypeOK, Steady, TargetsAreListened
  <2> QED BY <2>1, <2>2 DEF Steady, IdleIsUnused, TargetsHaveStream, TimerWhileUnknown,
            OnlineWithoutFailures, NoAssertFails, IsStarted, UpdateState
<1> QED BY <1>1, <1>2, <1>3

LEMMA SteadyKeeps == Typed /\ Steady /\ [Next]_vars => Steady'
<1> SUFFICES ASSUME Typed, Steady, [Next]_vars PROVE Steady'
  OBVIOUS
<1>1. CASE UNCHANGED vars
  BY <1>1 DEF Steady, IdleIsUnused, TargetsHaveStream, TimerWhileUnknown, OnlineWithoutFailures,
              TargetsAreListened, NoAssertFails, IsStarted, vars, tracker
<1>2. CASE Next
  BY <1>2, GetSteady, RemoveSteady, ConnectionSteady, OthersSteady
     DEF Next, Callers, Client, Service
<1> QED BY <1>1, <1>2

LEMMA AlwaysSteady == Spec => [](Typed /\ Steady)
<1>1. Init => Typed /\ Steady
  BY InitTyped, InitSteady
<1>2. Typed /\ Steady /\ [Next]_vars => (Typed /\ Steady)'
  BY TypedKeeps, SteadyKeeps
<1> QED BY <1>1, <1>2, PTL DEF Spec

(* No HARD_ASSERT fails: the timer is never started twice nor outlives the *)
(* state it waits for, a stream that is needed never idles out, and what   *)
(* is stopped was listened to.                                             *)
THEOREM AssertsHold == Spec => []NoAssertFails
<1>1. Steady => NoAssertFails
  BY DEF Steady
<1> QED BY <1>1, AlwaysSteady, PTL

-------------------------------------------------------------------------------
(* What callers have been told                                             *)

(* A call listens to its own document only.                                *)
ListensToOwn == \A d \in Docs : \A g \in listeners[d] : doc[g] = d

(* A caller told once is told no more: its listener is muted, or it was    *)
(* refused, and a refusal is the last event and ends the listening.        *)
Listening(g) == \E d \in Docs : g \in listeners[d]
Heard(g) ==
  /\ told[g] # 0 => told[g] = 1 /\ (g \in muted \/ (events[g] = <<>> /\ ~Listening(g)))
  /\ \A i \in 1..Len(events[g]) :
       events[g][i] = "refused" => i = Len(events[g]) /\ ~Listening(g)
  /\ g \notin DOMAIN doc => told[g] = 0

Calls == ListensToOwn /\ \A g \in Gets : Heard(g)

(* An event raised, if any, goes to a listener that is not muted.          *)
Raised(g) ==
  \/ events'[g] = events[g]
  \/ /\ Listening(g)' /\ g \notin muted
     /\ \E e \in {"server", "cache", "missing"} : events'[g] = Append(events[g], e)

LEMMA InitCalls == Init => Calls
<1> SUFFICES ASSUME Init PROVE Calls
  OBVIOUS
<1>1. \A g \in Gets : told[g] = 0 /\ events[g] = <<>> /\ Len(events[g]) = 0
  BY DEF Init
<1>2. \A d \in Docs : listeners[d] = {}
  BY DEF Init
<1> QED BY <1>1, <1>2 DEF Calls, ListensToOwn, Heard

LEMMA RaiseRaises ==
  ASSUME TypeOK, TypeOK', RaiseEvents, NEW g \in Gets
  PROVE  Raised(g)
<1>1. \A d : Snapshot(d) \in {"server", "cache", "missing"}
  BY DEF Snapshot
<1>2. CASE g \in DOMAIN doc' /\ Raises(g, doc'[g])
  <2>1. doc'[g] \in Docs
    BY <1>2, LenProperties DEF TypeOK
  <2>2. Listening(g)'
    BY <1>2, <2>1 DEF Listening, Raises
  <2>3. events'[g] = Dispatch(g, Snapshot(doc'[g]))
    BY <1>2 DEF RaiseEvents
  <2> QED BY <1>1, <2>2, <2>3 DEF Raised, Dispatch
<1>3. CASE ~(g \in DOMAIN doc' /\ Raises(g, doc'[g]))
  BY <1>3 DEF RaiseEvents, Raised
<1> QED BY <1>2, <1>3

LEMMA HeardKept ==
  ASSUME Typed, NEW g \in Gets, Heard(g), Raised(g), told'[g] = told[g], muted' = muted,
         DOMAIN doc \subseteq DOMAIN doc', Listening(g)' => Listening(g)
  PROVE  Heard(g)'
<1>1. events[g] \in Seq(Event) /\ Len(events[g]) \in Nat
  BY LenProperties DEF Typed, TypeOK
<1>2. CASE events'[g] = events[g]
  BY <1>2 DEF Heard
<1>3. CASE events'[g] # events[g]
  <2>1. PICK e \in {"server", "cache", "missing"} : events'[g] = Append(events[g], e)
    BY <1>3 DEF Raised
  <2>2. Listening(g) /\ g \notin muted
    BY <1>3 DEF Raised
  <2>3. told[g] = 0
    BY <2>2 DEF Heard
  <2>4. e \in Event
    BY DEF Event
  <2>5. /\ Len(events'[g]) = Len(events[g]) + 1
        /\ \A i \in 1..Len(events[g]) : events'[g][i] = events[g][i]
        /\ events'[g][Len(events[g]) + 1] = e
    BY <1>1, <2>1, <2>4, AppendProperties
  <2>6. \A i \in 1..Len(events'[g]) : events'[g][i] # "refused"
    <3> SUFFICES ASSUME NEW i \in 1..Len(events'[g]) PROVE events'[g][i] # "refused"
      OBVIOUS
    <3>1. CASE i \in 1..Len(events[g])
      BY <2>2, <2>5, <3>1 DEF Heard
    <3>2. CASE i = Len(events[g]) + 1
      BY <2>5, <3>2
    <3> QED BY <1>1, <2>5, <3>1, <3>2
  <2> QED BY <2>3, <2>6 DEF Heard
<1> QED BY <1>2, <1>3

LEMMA GetCalls == ASSUME Typed, Typed', Steady, Calls, NEW d \in Docs, GetDocument(d) PROVE Calls'
<1> DEFINE new == Len(doc) + 1
<1>1. /\ Len(doc) < MaxGets /\ doc' = Append(doc, d)
      /\ listeners' = [listeners EXCEPT ![d] = @ \cup {new}]
      /\ UNCHANGED <<told, muted>> /\ RaiseEvents
  BY GetRuns
<1>2. /\ doc \in Seq(Docs) /\ Len(doc) \in Nat /\ DOMAIN doc = 1..Len(doc)
      /\ DOMAIN doc' = 1..new /\ doc'[new] = d
      /\ \A g \in DOMAIN doc : doc'[g] = doc[g]
  <2>1. doc \in Seq(Docs)
    BY DEF Typed, TypeOK
  <2>2. doc' \in Seq(Docs) /\ Len(doc') = new /\ doc'[new] = d
        /\ \A g \in 1..Len(doc) : doc'[g] = doc[g]
    BY <1>1, <2>1, AppendProperties
  <2> QED BY <2>1, <2>2, LenProperties
<1>3. new \in Gets /\ new \notin DOMAIN doc
  BY <1>1, <1>2, BoundsAssumption DEF Gets
<1>4. DOMAIN doc \subseteq DOMAIN doc' /\ \A e \in Docs : listeners[e] \subseteq DOMAIN doc
  <2>1. \A g \in DOMAIN doc : g \in DOMAIN doc'
    BY <1>2
  <2>2. \A e \in Docs : listeners[e] \subseteq DOMAIN doc
    BY DEF Typed, TypeOK
  <2> QED BY <2>1, <2>2
<1> HIDE DEF new
<1>5. \A e \in Docs : listeners'[e] = IF e = d THEN listeners[e] \cup {new} ELSE listeners[e]
  BY <1>1 DEF Typed, TypeOK
<1>6. ListensToOwn'
  <2> SUFFICES ASSUME NEW e \in Docs, NEW g \in listeners'[e] PROVE doc'[g] = e
    BY DEF ListensToOwn
  <2>1. CASE g \in listeners[e]
    <3>1. g \in DOMAIN doc /\ doc[g] = e
      BY <1>4, <2>1 DEF Calls, ListensToOwn
    <3> QED BY <1>2, <3>1
  <2>2. CASE g \notin listeners[e]
    BY <1>2, <1>5, <2>2
  <2> QED BY <2>1, <2>2
<1>7. ASSUME NEW g \in Gets PROVE Heard(g)'
  <2>1. Raised(g) /\ Heard(g)
    BY <1>1, RaiseRaises DEF Typed, Calls
  <2>2. CASE g # new
    <3>1. Listening(g)' => Listening(g)
      BY <1>5, <2>2 DEF Listening
    <3> QED BY <1>1, <1>4, <2>1, <3>1, HeardKept
  <2>3. CASE g = new
    <3>1. events[g] = <<>> /\ told[g] = 0
      BY <1>3, <2>1, <2>3 DEF Typed, CallsMade, Heard
    <3>2. \A i \in 1..Len(events'[g]) : events'[g][i] # "refused"
      <4>1. CASE events'[g] = events[g]
        BY <3>1, <4>1
      <4>2. CASE \E e \in {"server", "cache", "missing"} : events'[g] = Append(events[g], e)
        BY <3>1, <4>2
      <4> QED BY <2>1, <4>1, <4>2 DEF Raised
    <3> QED BY <1>1, <3>1, <3>2 DEF Heard
  <2> QED BY <2>2, <2>3
<1> QED BY <1>6, <1>7 DEF Calls

LEMMA HandleCalls == ASSUME Typed, Calls, NEW g \in Gets, HandleEvent(g) PROVE Calls'
<1>1. /\ events[g] # <<>> /\ events' = [events EXCEPT ![g] = Tail(@)]
      /\ told' = IF g \in muted THEN told ELSE [told EXCEPT ![g] = @ + 1]
      /\ IF g \in muted \/ Head(events[g]) = "refused" THEN UNCHANGED muted
         ELSE muted' = muted \cup {g}
      /\ UNCHANGED <<doc, listeners>>
  BY DEF HandleEvent
<1>2. /\ events[g] \in Seq(Event) /\ Len(events[g]) \in Nat \ {0}
      /\ Len(Tail(events[g])) = Len(events[g]) - 1
      /\ \A i \in 1..Len(Tail(events[g])) : Tail(events[g])[i] = events[g][i + 1]
      /\ Head(events[g]) = events[g][1]
  <2>1. events[g] \in Seq(Event)
    BY DEF Typed, TypeOK
  <2> QED BY <1>1, <2>1, HeadTailProperties, EmptySeq
<1>3. ListensToOwn'
  BY <1>1 DEF Calls, ListensToOwn
<1>4. \A h \in Gets : Listening(h)' <=> Listening(h)
  BY <1>1 DEF Listening
<1>5. ASSUME NEW h \in Gets, h # g PROVE Heard(h)'
  <2>1. events'[h] = events[h] /\ told'[h] = told[h] /\ (h \in muted => h \in muted')
    BY <1>1, <1>5 DEF Typed, TypeOK
  <2>2. Heard(h)
    BY DEF Calls
  <2> QED BY <1>1, <1>4, <2>1, <2>2 DEF Heard
<1>6. Heard(g)'
  <2>1. events'[g] = Tail(events[g])
    BY <1>1 DEF Typed, TypeOK
  <2>2. Heard(g)
    BY DEF Calls
  <2>3. g \in DOMAIN doc'
    BY <1>1 DEF Typed, CallsMade
  <2>4. \A i \in 1..Len(events'[g]) :
          events'[g][i] = "refused" => i = Len(events'[g]) /\ ~Listening(g)'
    <3> SUFFICES ASSUME NEW i \in 1..Len(events'[g]), events'[g][i] = "refused"
                 PROVE  i = Len(events'[g]) /\ ~Listening(g)'
      OBVIOUS
    <3>1. i + 1 \in 1..Len(events[g]) /\ events[g][i + 1] = "refused"
      BY <1>2, <2>1
    <3>2. i + 1 = Len(events[g]) /\ ~Listening(g)
      BY <2>2, <3>1 DEF Heard
    <3> QED BY <1>2, <1>4, <2>1, <3>2
  <2>5. told'[g] # 0 =>
          told'[g] = 1 /\ (g \in muted' \/ (events'[g] = <<>> /\ ~Listening(g)'))
    <3>1. CASE g \in muted
      BY <1>1, <2>2, <3>1 DEF Heard
    <3>2. CASE g \notin muted
      <4>1. told[g] = 0 /\ told'[g] = 1
        BY <1>1, <2>2, <3>2 DEF Heard, Typed, TypeOK
      <4>2. CASE Head(events[g]) = "refused"
        <5>1. 1 \in 1..Len(events[g]) /\ events[g][1] = "refused"
          BY <1>2, <4>2
        <5>2. Len(events[g]) = 1 /\ ~Listening(g)
          BY <2>2, <5>1 DEF Heard
        <5>3. Len(Tail(events[g])) = 0 /\ Tail(events[g]) \in Seq(Event)
          BY <1>1, <1>2, <5>2, HeadTailProperties
        <5>4. Tail(events[g]) = <<>>
          BY <5>3, EmptySeq
        <5> QED BY <1>4, <2>1, <4>1, <5>2, <5>4
      <4>3. CASE Head(events[g]) # "refused"
        BY <1>1, <3>2, <4>1, <4>3
      <4> QED BY <4>2, <4>3
    <3> QED BY <3>1, <3>2
  <2> QED BY <2>3, <2>4, <2>5 DEF Heard
<1> QED BY <1>3, <1>5, <1>6 DEF Calls

LEMMA RemoveCalls == ASSUME Typed, Steady, Calls, NEW g \in Gets, RemoveListener(g) PROVE Calls'
<1>1. /\ doc[g] \in Docs /\ listeners' = [listeners EXCEPT ![doc[g]] = @ \ {g}]
      /\ UNCHANGED <<doc, told, muted, events>>
  BY RemoveRuns
<1>2. \A e \in Docs : listeners'[e] \subseteq listeners[e]
  BY <1>1 DEF Typed, TypeOK
<1>3. ListensToOwn'
  BY <1>1, <1>2 DEF Calls, ListensToOwn
<1>4. ASSUME NEW h \in Gets PROVE Heard(h)'
  <2>1. Listening(h)' => Listening(h)
    BY <1>2 DEF Listening
  <2> QED BY <1>1, <2>1, HeardKept DEF Calls, Raised
<1> QED BY <1>3, <1>4 DEF Calls

LEMMA RefusedCalls == ASSUME Typed, Calls, NEW d \in Docs, ListenRefused(d) PROVE Calls'
<1>1. /\ listeners' = [listeners EXCEPT ![d] = {}]
      /\ events' = [g \in Gets |-> IF g \in listeners[d] THEN Dispatch(g, "refused") ELSE events[g]]
      /\ UNCHANGED <<doc, told, muted>>
  BY DEF ListenRefused, callers
<1>2. \A e \in Docs : listeners'[e] = IF e = d THEN {} ELSE listeners[e]
  BY <1>1 DEF Typed, TypeOK
<1>3. ListensToOwn'
  BY <1>1, <1>2 DEF Calls, ListensToOwn
<1>4. ASSUME NEW g \in Gets PROVE Heard(g)'
  <2>1. Heard(g) /\ (Listening(g)' => Listening(g))
    BY <1>2 DEF Calls, Listening
  <2>2. CASE events'[g] = events[g]
    BY <1>1, <2>1, <2>2, HeardKept DEF Raised
  <2>3. CASE events'[g] # events[g]
    <3>1. g \in listeners[d] /\ g \notin muted /\ events'[g] = Append(events[g], "refused")
      BY <1>1, <2>3 DEF Dispatch
    <3>2. Listening(g) /\ ~Listening(g)'
      BY <1>2, <3>1 DEF Calls, ListensToOwn, Listening
    <3>3. told[g] = 0 /\ \A i \in 1..Len(events[g]) : events[g][i] # "refused"
      BY <2>1, <3>1, <3>2 DEF Heard
    <3>4. events[g] \in Seq(Event) /\ Len(events[g]) \in Nat /\ "refused" \in Event
      BY LenProperties DEF Typed, TypeOK, Event
    <3>5. /\ Len(events'[g]) = Len(events[g]) + 1
          /\ \A i \in 1..Len(events[g]) : events'[g][i] = events[g][i]
      BY <3>1, <3>4, AppendProperties
    <3>6. \A i \in 1..Len(events'[g]) : events'[g][i] = "refused" => i = Len(events'[g])
      BY <3>3, <3>4, <3>5
    <3> QED BY <1>1, <3>2, <3>3, <3>6 DEF Heard
  <2> QED BY <2>2, <2>3
<1> QED BY <1>3, <1>4 DEF Calls

(* Every other task leaves calls and listeners, and may raise events.      *)
LEMMA OthersCalls ==
  ASSUME Typed, Typed', Calls, UNCHANGED <<callers, listeners>>, RaiseEvents \/ UNCHANGED events
  PROVE  Calls'
<1>1. ListensToOwn'
  BY DEF Calls, ListensToOwn, callers
<1>2. ASSUME NEW g \in Gets PROVE Heard(g)'
  <2>1. Raised(g)
    BY RaiseRaises DEF Typed, Raised
  <2>2. Listening(g)' => Listening(g)
    BY DEF Listening
  <2> QED BY <2>1, <2>2, HeardKept DEF Calls, callers
<1> QED BY <1>1, <1>2 DEF Calls

LEMMA CallsKeep == Typed /\ Typed' /\ Steady /\ Calls /\ [Next]_vars => Calls'
<1> SUFFICES ASSUME Typed, Typed', Steady, Calls, [Next]_vars PROVE Calls'
  OBVIOUS
<1>1. CASE UNCHANGED vars
  BY <1>1, OthersCalls DEF vars, raising
<1>2. CASE Callers
  BY <1>2, GetCalls, HandleCalls, RemoveCalls DEF Callers
<1>3. CASE Client
  <2>1. UNCHANGED <<callers, listeners>> /\ (RaiseEvents \/ UNCHANGED events)
    BY <1>3, FailsRuns, IdleRuns, TimeoutRuns
       DEF Client, RestartNetwork, CredentialsArrive, BackoffElapses, OnWatchStreamChange, raising
  <2> QED BY <2>1, OthersCalls
<1>4. CASE Service
  <2>1. CASE \E d \in Docs : ListenRefused(d)
    BY <2>1, RefusedCalls
  <2>2. CASE \E d \in Docs : ServiceAnswers(d) \/ DocumentChanges(d)
    <3>1. UNCHANGED <<callers, listeners, events>>
      BY <2>2 DEF ServiceAnswers, DocumentChanges, raising
    <3> QED BY <3>1, OthersCalls
  <2> QED BY <1>4, <2>1, <2>2 DEF Service
<1> QED BY <1>1, <1>2, <1>3, <1>4 DEF Next

LEMMA AlwaysCalls == Spec => [](Typed /\ Steady /\ Calls)
<1>1. Init => Typed /\ Steady /\ Calls
  BY InitTyped, InitSteady, InitCalls
<1>2. Typed /\ Steady /\ Calls /\ [Next]_vars => (Typed /\ Steady /\ Calls)'
  BY TypedKeeps, SteadyKeeps, CallsKeep
<1> QED BY <1>1, <1>2, PTL DEF Spec

(* A caller of getDocument is called back at most once, although events go *)
(* on coming until the task that removes its listener has run.             *)
THEOREM CallersToldOnce == Spec => []ToldOnce
<1>1. Calls => ToldOnce
  BY DEF Calls, Heard, ToldOnce
<1> QED BY <1>1, AlwaysCalls, PTL

-------------------------------------------------------------------------------
(* What a view in sync may be taken to know                                *)

(* The updates of d in s that no answer for d follows are of version n or  *)
(* later.                                                                  *)
FreshIn(s, d, n) ==
  \A i \in 1..Len(s) :
    s[i].type = "update" /\ s[i].doc = d /\ (\A j \in AnswersIn(s, d) : j < i)
      => s[i].version >= n

SinceKnown == \A d \in Docs : since[d] <= server[d]
CurrentIsTarget == \A d \in Docs : current[d] => d \in targets

(* What is read before the requests for a target are answered is of an     *)
(* earlier listen; after that it is of this one.                           *)
ComingIsFresh == \A d \in targets : up[d] = <<>> => FreshIn(down, d, since[d])
PendingIsFresh ==
  \A d \in Docs : IsActive(d) /\ pending[d] => update[d] >= since[d] \/ cache[d] >= since[d]

Fresh == SinceKnown /\ CurrentIsTarget /\ ComingIsFresh /\ PendingIsFresh /\ InSyncIsFresh

LEMMA FreshEmpty == \A d, n : FreshIn(<<>>, d, n)
BY EmptySeq DEF FreshIn

LEMMA FreshTail ==
  ASSUME NEW s \in Seq(Message), s # <<>>, NEW d, NEW n, FreshIn(s, d, n)
  PROVE  FreshIn(Tail(s), d, n)
<1> DEFINE t == Tail(s)
<1>1. /\ Len(s) \in Nat \ {0} /\ Len(t) = Len(s) - 1
      /\ \A i \in 1..Len(t) : t[i] = s[i + 1]
  BY EmptySeq, HeadTailProperties
<1>2. SUFFICES ASSUME NEW i \in 1..Len(t), t[i].type = "update", t[i].doc = d,
                      \A j \in AnswersIn(t, d) : j < i
               PROVE  t[i].version >= n
  BY DEF FreshIn
<1> HIDE DEF t
<1>3. i + 1 \in 1..Len(s) /\ s[i + 1] = t[i]
  BY <1>1
<1>4. \A j \in AnswersIn(s, d) : j < i + 1
  <2> SUFFICES ASSUME NEW j \in AnswersIn(s, d) PROVE j < i + 1
    OBVIOUS
  <2>1. j \in 1..Len(s) /\ IsAnswer(s[j], d)
    BY DEF AnswersIn
  <2>2. CASE j = 1
    BY <1>1, <2>2
  <2>3. CASE j # 1
    <3>1. j - 1 \in 1..Len(t) /\ t[j - 1] = s[j]
      BY <1>1, <2>1, <2>3
    <3>2. j - 1 \in AnswersIn(t, d)
      BY <2>1, <3>1 DEF AnswersIn
    <3> QED BY <1>2, <2>1, <3>2
  <2> QED BY <2>2, <2>3
<1> QED BY <1>2, <1>3, <1>4 DEF FreshIn

LEMMA FreshAppend ==
  ASSUME NEW s \in Seq(Message), NEW m \in Message, NEW d, NEW n,
         IsAnswer(m, d) \/ (FreshIn(s, d, n) /\ (m.type = "update" /\ m.doc = d => m.version >= n))
  PROVE  FreshIn(Append(s, m), d, n)
<1> DEFINE t == Append(s, m)
           k == Len(s) + 1
<1>1. Len(s) \in Nat /\ Len(t) = k /\ t[k] = m /\ \A i \in 1..Len(s) : t[i] = s[i]
  BY LenProperties, AppendProperties
<1>2. SUFFICES ASSUME NEW i \in 1..Len(t), t[i].type = "update", t[i].doc = d,
                      \A j \in AnswersIn(t, d) : j < i
               PROVE  t[i].version >= n
  BY DEF FreshIn
<1> HIDE DEF t
<1>3. ~IsAnswer(m, d)
  <2> SUFFICES ASSUME IsAnswer(m, d) PROVE FALSE
    OBVIOUS
  <2>1. k \in AnswersIn(t, d)
    BY <1>1 DEF AnswersIn
  <2> QED BY <1>1, <1>2, <2>1
<1>4. CASE i = k
  BY <1>1, <1>2, <1>3, <1>4
<1>5. CASE i \in 1..Len(s)
  <2>1. \A j \in AnswersIn(s, d) : j < i
    <3> SUFFICES ASSUME NEW j \in AnswersIn(s, d) PROVE j < i
      OBVIOUS
    <3>1. j \in 1..Len(t) /\ IsAnswer(t[j], d)
      BY <1>1 DEF AnswersIn
    <3> QED BY <1>2, <3>1 DEF AnswersIn
  <2> QED BY <1>1, <1>2, <1>3, <1>5, <2>1 DEF FreshIn
<1> QED BY <1>1, <1>4, <1>5

LEMMA InitFresh == Init => Fresh
<1> SUFFICES ASSUME Init PROVE Fresh
  OBVIOUS
<1>1. \A d \in Docs : since[d] = 0 /\ server[d] \in Nat /\ ~current[d] /\ ~pending[d]
  BY BoundsAssumption DEF Init, Versions
<1>2. targets = {}
  BY DEF Init
<1> QED BY <1>1, <1>2 DEF Fresh, SinceKnown, CurrentIsTarget, ComingIsFresh, PendingIsFresh,
                          InSyncIsFresh

(* Without a call there is nothing to be read.                             *)
LEMMA EmptyIsFresh ==
  ASSUME Typed', stream' # "Open" \/ (down' = <<>> /\ \A d \in Docs : ~pending'[d])
  PROVE  ComingIsFresh' /\ PendingIsFresh'
<1>1. down' = <<>> /\ \A d \in Docs : ~pending'[d]
  BY DEF Typed, NotOpenIsEmpty
<1> QED BY <1>1, FreshEmpty DEF ComingIsFresh, PendingIsFresh

LEMMA GetFresh == ASSUME Typed, Typed', Steady, Fresh, NEW d \in Docs, GetDocument(d) PROVE Fresh'
<1>1. /\ IF listeners[d] = {} THEN Listen(d)
         ELSE UNCHANGED <<since, targets, stream, idle, tracker, aggregator, wire>>
      /\ UNCHANGED <<server, cache, current>>
  BY GetRuns
<1>2. CASE listeners[d] # {}
  BY <1>1, <1>2 DEF Fresh, SinceKnown, CurrentIsTarget, ComingIsFresh, PendingIsFresh,
                    InSyncIsFresh, FreshIn, AnswersIn, IsAnswer, IsActive, aggregator, wire
<1>3. CASE listeners[d] = {}
  <2>1. d \notin targets /\ ~current[d]
    BY <1>3 DEF Steady, TargetsAreListened, Fresh, CurrentIsTarget
  <2>2. /\ targets' = targets \cup {d} /\ since' = [since EXCEPT ![d] = server[d]]
        /\ UNCHANGED <<server, cache, current>>
    BY <1>1, <1>3 DEF Listen
  <2>3. \A e \in Docs : since'[e] = IF e = d THEN server[d] ELSE since[e]
    BY <2>2 DEF Typed, TypeOK
  <2>4. SinceKnown'
    BY <2>2, <2>3 DEF Fresh, SinceKnown, Typed, TypeOK, Versions
  <2>5. CurrentIsTarget' /\ InSyncIsFresh'
    BY <2>1, <2>2, <2>3 DEF Fresh, CurrentIsTarget, InSyncIsFresh
  <2>6. CASE stream = "Open"
    <3>1. /\ outstanding' = [outstanding EXCEPT ![d] = @ + 1]
          /\ up' = [up EXCEPT ![d] = Append(@, "watch")]
          /\ UNCHANGED <<pending, update, down>>
      BY <1>1, <1>3, <2>6 DEF Listen, IsStarted, Send
    <3>2. /\ outstanding'[d] # 0 /\ up'[d] # <<>>
          /\ \A e \in Docs : e # d => outstanding'[e] = outstanding[e] /\ up'[e] = up[e]
      <4>1. outstanding'[d] = outstanding[d] + 1 /\ outstanding[d] \in Nat
        BY <3>1 DEF Typed, TypeOK
      <4>2. up'[d] = Append(up[d], "watch") /\ up[d] \in Seq({"watch", "unwatch"})
        BY <3>1 DEF Typed, TypeOK
      <4>3. Len(up'[d]) = Len(up[d]) + 1 /\ Len(up[d]) \in Nat
        BY <4>2, AppendOfDocs
      <4>4. up'[d] # <<>>
        BY <4>3, EmptySeq
      <4>5. \A e \in Docs : e # d => outstanding'[e] = outstanding[e] /\ up'[e] = up[e]
        BY <3>1 DEF Typed, TypeOK
      <4> QED BY <4>1, <4>4, <4>5
    <3>3. PendingIsFresh'
      BY <2>2, <2>3, <3>1, <3>2 DEF Fresh, PendingIsFresh, IsActive
    <3>4. ComingIsFresh'
      <4> SUFFICES ASSUME NEW e \in targets', up'[e] = <<>> PROVE FreshIn(down', e, since'[e])
        BY DEF ComingIsFresh
      <4>1. e # d /\ e \in targets /\ e \in Docs
        BY <2>2, <3>2 DEF Typed, TypeOK
      <4>2. FreshIn(down, e, since[e])
        BY <3>2, <4>1 DEF Fresh, ComingIsFresh
      <4> QED BY <2>3, <3>1, <4>1, <4>2
    <3> QED BY <2>4, <2>5, <3>3, <3>4 DEF Fresh
  <2>7. CASE stream # "Open"
    <3>1. stream' # "Open"
      BY <1>1, <1>3, <2>7 DEF Listen, StartWatchStream
    <3> QED BY <2>4, <2>5, <3>1, EmptyIsFresh DEF Fresh
  <2> QED BY <2>6, <2>7
<1> QED BY <1>2, <1>3

LEMMA RemoveFresh == ASSUME Typed, Typed', Steady, Fresh, NEW g \in Gets, RemoveListener(g) PROVE Fresh'
<1> DEFINE d == doc[g]
           last == listeners[d] = {g}
<1>1. /\ d \in Docs
      /\ targets' = IF last THEN targets \ {d} ELSE targets
      /\ current' = [current EXCEPT ![d] = @ /\ ~last]
      /\ since' = IF last THEN [since EXCEPT ![d] = 0] ELSE since
      /\ IF last /\ stream = "Open" THEN Send("unwatch", d)
                                    ELSE UNCHANGED <<idle, aggregator, wire>>
      /\ UNCHANGED <<server, cache, stream>>
  BY RemoveRuns
<1> HIDE DEF last, d
<1>2. CASE ~last
  <2>1. \A e \in Docs : current'[e] <=> current[e]
    BY <1>1, <1>2 DEF Typed, TypeOK
  <2> QED BY <1>1, <1>2, <2>1
      DEF Fresh, SinceKnown, CurrentIsTarget, ComingIsFresh, PendingIsFresh,
          InSyncIsFresh, FreshIn, AnswersIn, IsAnswer, IsActive, aggregator, wire
<1>3. CASE last
  <2>1. /\ \A e \in Docs : since'[e] = IF e = d THEN 0 ELSE since[e]
        /\ ~current'[d] /\ \A e \in Docs : e # d => (current'[e] <=> current[e])
        /\ targets' = targets \ {d}
    BY <1>1, <1>3 DEF Typed, TypeOK
  <2>2. SinceKnown'
    BY <1>1, <2>1 DEF Fresh, SinceKnown, Typed, TypeOK, Versions
  <2>3. CurrentIsTarget' /\ InSyncIsFresh'
    BY <1>1, <2>1 DEF Fresh, CurrentIsTarget, InSyncIsFresh
  <2>4. CASE stream = "Open"
    <3>1. /\ outstanding' = [outstanding EXCEPT ![d] = @ + 1]
          /\ up' = [up EXCEPT ![d] = Append(@, "unwatch")]
          /\ UNCHANGED <<pending, update, down>>
      BY <1>1, <1>3, <2>4 DEF Send
    <3>2. \A e \in Docs : e # d => outstanding'[e] = outstanding[e] /\ up'[e] = up[e]
      BY <3>1 DEF Typed, TypeOK
    <3>3. PendingIsFresh'
      BY <1>1, <2>1, <3>1, <3>2 DEF Fresh, PendingIsFresh, IsActive
    <3>4. ComingIsFresh'
      <4> SUFFICES ASSUME NEW e \in targets', up'[e] = <<>> PROVE FreshIn(down', e, since'[e])
        BY DEF ComingIsFresh
      <4>1. e # d /\ e \in targets /\ e \in Docs
        BY <2>1 DEF Typed, TypeOK
      <4>2. FreshIn(down, e, since[e])
        BY <3>2, <4>1 DEF Fresh, ComingIsFresh
      <4> QED BY <2>1, <3>1, <4>1, <4>2
    <3> QED BY <2>2, <2>3, <3>3, <3>4 DEF Fresh
  <2>5. CASE stream # "Open"
    BY <1>1, <2>2, <2>3, <2>5, EmptyIsFresh DEF Fresh
  <2> QED BY <2>4, <2>5
<1> QED BY <1>2, <1>3

(* Tasks of the connection empty the wire or leave it, and no view comes   *)
(* into sync by them.                                                      *)
LEMMA ConnectionFresh ==
  ASSUME Typed, Typed', Steady, Fresh,
         \/ RestartNetwork \/ CredentialsArrive \/ StreamFails \/ BackoffElapses
         \/ IdleTimeout \/ OnlineStateTimeout
  PROVE  Fresh'
<1>1. UNCHANGED <<documents, targets>> /\ \A d \in Docs : current'[d] => current[d]
  <2>1. UNCHANGED <<documents, targets>> /\ (UNCHANGED current \/ ViewsFollowOnline)
    BY FailsRuns, IdleRuns, TimeoutRuns DEF RestartNetwork, CredentialsArrive, BackoffElapses
  <2> QED BY <2>1 DEF ViewsFollowOnline
<1>2. SinceKnown' /\ CurrentIsTarget' /\ InSyncIsFresh'
  BY <1>1 DEF Fresh, SinceKnown, CurrentIsTarget, InSyncIsFresh, documents
<1>3. ComingIsFresh' /\ PendingIsFresh'
  <2>1. CASE OnlineStateTimeout
    <3>1. UNCHANGED <<aggregator, wire>>
      BY <2>1, TimeoutRuns
    <3> QED BY <1>1, <3>1 DEF Fresh, ComingIsFresh, PendingIsFresh, FreshIn, AnswersIn, IsAnswer,
                              IsActive, aggregator, wire, documents
  <2>2. CASE ~OnlineStateTimeout
    <3>1. \/ Disconnected
          \/ stream # "Open" /\ UNCHANGED <<pending, down>>
      BY <2>2, FailsRuns, IdleRuns DEF RestartNetwork, CredentialsArrive, BackoffElapses,
                                       aggregator, wire
    <3>2. down' = <<>> /\ \A d \in Docs : ~pending'[d]
      BY <3>1 DEF Disconnected, Typed, NotOpenIsEmpty
    <3> QED BY <3>2, EmptyIsFresh
  <2> QED BY <2>1, <2>2
<1> QED BY <1>2, <1>3 DEF Fresh

LEMMA ReadFresh == ASSUME Typed, Typed', Fresh, OnWatchStreamChange PROVE Fresh'
<1> DEFINE m == Head(down)
<1>1. /\ down # <<>> /\ down' = Tail(down)
      /\ \/ m.type \in {"added", "removed"} /\ ReadAnswer(m.doc, m.type = "removed")
         \/ m.type = "update" /\ ReadUpdate(m.doc, m.version)
         \/ m.type = "snapshot" /\ ReadSnapshot
      /\ UNCHANGED <<server, since, targets, up>>
  BY DEF OnWatchStreamChange
<1>2. down \in Seq(Message)
  BY DEF Typed, TypeOK
<1>3. SinceKnown'
  BY <1>1 DEF Fresh, SinceKnown
<1>4. ComingIsFresh'
  <2> SUFFICES ASSUME NEW e \in targets, up[e] = <<>> PROVE FreshIn(Tail(down), e, since[e])
    BY <1>1 DEF ComingIsFresh
  <2>1. FreshIn(down, e, since[e])
    BY DEF Fresh, ComingIsFresh
  <2> QED BY <1>1, <1>2, <2>1, FreshTail
<1>5. m \in Message /\ m.doc \in Docs /\ m.version \in Versions
  <2>1. m \in Message
    BY <1>1, <1>2, HeadTailProperties
  <2> QED BY <2>1 DEF Message
<1>6. CASE m.type \in {"added", "removed"}
  <2>1. /\ outstanding' = [outstanding EXCEPT ![m.doc] = @ - 1]
        /\ pending' = [pending EXCEPT ![m.doc] = @ /\ outstanding[m.doc] # 1]
        /\ UNCHANGED <<update, cache, current>>
    BY <1>1, <1>6 DEF ReadAnswer
  <2> HIDE DEF m
  <2>2. PendingIsFresh'
    <3> SUFFICES ASSUME NEW e \in Docs, outstanding'[e] = 0, e \in targets', pending'[e]
                 PROVE  update'[e] >= since'[e] \/ cache'[e] >= since'[e]
      BY DEF PendingIsFresh, IsActive
    <3>1. e # m.doc
      <4> SUFFICES ASSUME e = m.doc PROVE FALSE
        OBVIOUS
      <4>1. outstanding[e] - 1 = 0 /\ outstanding[e] \in Nat
        BY <1>5, <2>1 DEF Typed, TypeOK
      <4>2. outstanding[e] # 1
        BY <1>5, <2>1 DEF Typed, TypeOK
      <4> QED BY <4>1, <4>2
    <3>2. outstanding[e] = 0 /\ e \in targets /\ pending[e]
      BY <1>1, <2>1, <3>1 DEF Typed, TypeOK
    <3> QED BY <1>1, <2>1, <3>2 DEF Fresh, PendingIsFresh, IsActive
  <2>3. CurrentIsTarget' /\ InSyncIsFresh'
    BY <1>1, <2>1 DEF Fresh, CurrentIsTarget, InSyncIsFresh
  <2> QED BY <1>3, <1>4, <2>2, <2>3 DEF Fresh
<1>7. CASE m.type = "update"
  <2>1. /\ IF IsActive(m.doc)
           THEN /\ pending' = [pending EXCEPT ![m.doc] = TRUE]
                /\ update' = [update EXCEPT ![m.doc] = m.version]
           ELSE UNCHANGED <<pending, update>>
        /\ UNCHANGED <<outstanding, cache, current>>
    BY <1>1, <1>7 DEF ReadUpdate
  <2>2. CurrentIsTarget' /\ InSyncIsFresh'
    BY <1>1, <2>1 DEF Fresh, CurrentIsTarget, InSyncIsFresh
  <2>3. IsActive(m.doc) => m.version >= since[m.doc]
    <3> SUFFICES ASSUME IsActive(m.doc) PROVE m.version >= since[m.doc]
      OBVIOUS
    <3>1. Len(up[m.doc]) \in Nat /\ Due(down, m.doc) \in Nat
      BY <1>2, <1>5, DueIsNat, LenProperties DEF Typed, TypeOK
    <3>2. Len(up[m.doc]) = 0 /\ Due(down, m.doc) = 0
      BY <1>5, <3>1 DEF Typed, OutstandingIsDue, IsActive
    <3>3. up[m.doc] = <<>> /\ AnswersIn(down, m.doc) = {}
      BY <1>2, <1>5, <3>2, DueIsNat, EmptySeq DEF Typed, TypeOK
    <3>4. FreshIn(down, m.doc, since[m.doc])
      BY <3>3 DEF Fresh, ComingIsFresh, IsActive
    <3>5. 1 \in 1..Len(down) /\ down[1] = m
      BY <1>1, <1>2, EmptySeq
    <3> QED BY <1>7, <3>3, <3>4, <3>5 DEF FreshIn
  <2> HIDE DEF m
  <2>4. PendingIsFresh'
    <3> SUFFICES ASSUME NEW e \in Docs, IsActive(e)', pending'[e]
                 PROVE  update'[e] >= since'[e] \/ cache'[e] >= since'[e]
      BY DEF PendingIsFresh
    <3>1. IsActive(e)
      BY <1>1, <2>1 DEF IsActive
    <3>2. CASE e = m.doc
      BY <1>1, <1>5, <2>1, <2>3, <3>1, <3>2 DEF Typed, TypeOK
    <3>3. CASE e # m.doc
      <4>1. pending[e] /\ update'[e] = update[e]
        BY <1>5, <2>1, <3>3 DEF Typed, TypeOK
      <4> QED BY <1>1, <2>1, <3>1, <4>1 DEF Fresh, PendingIsFresh
    <3> QED BY <3>2, <3>3
  <2> QED BY <1>3, <1>4, <2>2, <2>4 DEF Fresh
<1>8. CASE m.type = "snapshot"
  <2>1. /\ cache' = [d \in Docs |-> IF update[d] > cache[d] THEN update[d] ELSE cache[d]]
        /\ current' = [d \in Docs |-> IF IsActive(d) /\ pending[d] THEN isCurrent[d]
                                                                   ELSE current[d]]
        /\ pending' = [d \in Docs |-> pending[d] /\ ~IsActive(d)]
        /\ UNCHANGED outstanding
    BY <1>1, <1>8 DEF ReadSnapshot
  <2>2. PendingIsFresh'
    BY <1>1, <2>1 DEF PendingIsFresh, IsActive
  <2>3. CurrentIsTarget'
    BY <1>1, <2>1 DEF Fresh, CurrentIsTarget, IsActive
  <2>4. InSyncIsFresh'
    <3> SUFFICES ASSUME NEW e \in Docs, current'[e] PROVE cache'[e] >= since'[e]
      BY DEF InSyncIsFresh
    <3>1. update[e] >= since[e] \/ cache[e] >= since[e]
      <4>1. CASE IsActive(e) /\ pending[e]
        BY <4>1 DEF Fresh, PendingIsFresh
      <4>2. CASE ~(IsActive(e) /\ pending[e])
        BY <2>1, <4>2 DEF Fresh, InSyncIsFresh
      <4> QED BY <4>1, <4>2
    <3>2. update[e] \in Nat /\ cache[e] \in Nat /\ since[e] \in Nat
      BY BoundsAssumption DEF Typed, TypeOK, Versions
    <3> QED BY <1>1, <2>1, <3>1, <3>2
  <2> QED BY <1>3, <1>4, <2>2, <2>3, <2>4 DEF Fresh
<1> QED BY <1>1, <1>6, <1>7, <1>8

LEMMA RefusedFresh == ASSUME Typed, Typed', Fresh, NEW d \in Docs, ListenRefused(d) PROVE Fresh'
<1>1. /\ targets' = targets \ {d} /\ current' = [current EXCEPT ![d] = FALSE]
      /\ outstanding' = [outstanding EXCEPT ![d] = 0]
      /\ pending' = [pending EXCEPT ![d] = FALSE] /\ up' = [up EXCEPT ![d] = <<>>]
      /\ since' = [since EXCEPT ![d] = 0]
      /\ UNCHANGED <<server, cache, update, down>>
  BY DEF ListenRefused
<1>2. /\ \A e \in Docs : since'[e] = IF e = d THEN 0 ELSE since[e]
      /\ ~current'[d] /\ ~pending'[d]
      /\ \A e \in Docs : e # d => /\ (current'[e] <=> current[e]) /\ (pending'[e] <=> pending[e])
                                  /\ outstanding'[e] = outstanding[e] /\ up'[e] = up[e]
  BY <1>1 DEF Typed, TypeOK
<1>3. SinceKnown'
  BY <1>1, <1>2 DEF Fresh, SinceKnown, Typed, TypeOK, Versions
<1>4. CurrentIsTarget' /\ InSyncIsFresh'
  BY <1>1, <1>2 DEF Fresh, CurrentIsTarget, InSyncIsFresh
<1>5. PendingIsFresh'
  BY <1>1, <1>2 DEF Fresh, PendingIsFresh, IsActive
<1>6. ComingIsFresh'
  <2> SUFFICES ASSUME NEW e \in targets', up'[e] = <<>> PROVE FreshIn(down', e, since'[e])
    BY DEF ComingIsFresh
  <2>1. e # d /\ e \in targets /\ e \in Docs
    BY <1>1 DEF Typed, TypeOK
  <2>2. FreshIn(down, e, since[e])
    BY <1>2, <2>1 DEF Fresh, ComingIsFresh
  <2> QED BY <1>1, <1>2, <2>1, <2>2
<1> QED BY <1>3, <1>4, <1>5, <1>6 DEF Fresh

(* The service speaks of the versions it has, which listens do not exceed. *)
LEMMA ServiceFresh ==
  ASSUME Typed, Typed', Fresh, NEW d \in Docs, ServiceAnswers(d) \/ DocumentChanges(d)
  PROVE  Fresh'
<1>1. /\ UNCHANGED <<cache, since, current, targets, outstanding, pending, update>>
      /\ server' \in [Docs -> Versions] /\ down \in Seq(Message)
  BY DEF ServiceAnswers, DocumentChanges, aggregator, Typed, TypeOK
<1>2. SinceKnown'
  <2>1. server' = server \/ server' = [server EXCEPT ![d] = @ + 1]
    BY DEF ServiceAnswers, DocumentChanges
  <2>2. \A e \in Docs : server[e] \in Nat /\ since[e] \in Nat /\ since[e] <= server[e]
    BY DEF Fresh, SinceKnown, Typed, TypeOK, Versions
  <2>3. \A e \in Docs : server'[e] = server[e] \/ server'[e] = server[e] + 1
    BY <2>1 DEF Typed, TypeOK
  <2> QED BY <1>1, <2>2, <2>3 DEF SinceKnown
<1>3. CurrentIsTarget' /\ InSyncIsFresh' /\ PendingIsFresh'
  BY <1>1 DEF Fresh, CurrentIsTarget, InSyncIsFresh, PendingIsFresh, IsActive
<1>4. ComingIsFresh'
  <2> SUFFICES ASSUME NEW e \in targets, up'[e] = <<>> PROVE FreshIn(down', e, since[e])
    BY <1>1 DEF ComingIsFresh
  <2> DEFINE a == Say("added", d)
             b == Say("update", d)
             c == Say("snapshot", d)
             r == Say("removed", d)
             n == since[e]
  <2>1. a \in Message /\ b \in Message /\ c \in Message /\ r \in Message
    BY <1>1, BoundsAssumption DEF Say, Message, Versions
  <2>2. /\ b.type = "update" /\ b.doc = d /\ c.type = "snapshot"
        /\ a.type = "added" /\ r.type = "removed"
        /\ IsAnswer(a, d) /\ IsAnswer(r, d)
    BY DEF Say, IsAnswer
  <2>3. b.doc = e => b.version >= n
    <3>1. e \in Docs /\ b.version = server'[d] /\ b.doc = d
      BY DEF Say, Typed, TypeOK
    <3>2. n <= server'[e] /\ n \in Nat /\ server'[e] \in Nat
      BY <1>1, <1>2, <3>1 DEF SinceKnown, Typed, TypeOK, Versions
    <3> QED BY <3>1, <3>2
  <2>4. e # d => up'[e] = up[e]
    BY DEF ServiceAnswers, DocumentChanges, Typed, TypeOK
  <2>5. up[e] = <<>> => FreshIn(down, e, n)
    BY DEF Fresh, ComingIsFresh
  <2> HIDE DEF n
  <2>6. CASE ServiceAnswers(d) /\ Head(up[d]) = "watch"
    <3>1. down' = down \o <<a, b, c>>
      BY <2>6 DEF ServiceAnswers
    <3> HIDE DEF a, b, c, r
    <3>2. down' = Append(Append(Append(down, a), b), c)
      BY <1>1, <2>1, <3>1, AppendThree
    <3>3. Append(down, a) \in Seq(Message) /\ Append(Append(down, a), b) \in Seq(Message)
      BY <1>1, <2>1, AppendOfDocs
    <3>4. FreshIn(Append(down, a), e, n)
      <4>1. CASE e = d
        BY <1>1, <2>1, <2>2, <4>1, FreshAppend
      <4>2. CASE e # d
        BY <1>1, <2>1, <2>2, <2>4, <2>5, <4>2, FreshAppend
      <4> QED BY <4>1, <4>2
    <3>5. FreshIn(Append(Append(down, a), b), e, n)
      BY <2>1, <2>3, <3>3, <3>4, FreshAppend
    <3>6. FreshIn(Append(Append(Append(down, a), b), c), e, n)
      BY <2>1, <2>2, <3>3, <3>5, FreshAppend
    <3> QED BY <3>2, <3>6 DEF n
  <2>7. CASE ServiceAnswers(d) /\ Head(up[d]) # "watch"
    <3>1. down' = Append(down, r)
      BY <2>7 DEF ServiceAnswers
    <3> HIDE DEF a, b, c, r
    <3>2. FreshIn(Append(down, r), e, n)
      <4>1. CASE e = d
        BY <1>1, <2>1, <2>2, <4>1, FreshAppend
      <4>2. CASE e # d
        BY <1>1, <2>1, <2>2, <2>4, <2>5, <4>2, FreshAppend
      <4> QED BY <4>1, <4>2
    <3> QED BY <3>1, <3>2 DEF n
  <2>8. CASE DocumentChanges(d)
    <3>1. up' = up /\ down' = IF d \in watched THEN down \o <<b, c>> ELSE down
      BY <2>8 DEF DocumentChanges
    <3> HIDE DEF a, b, c, r
    <3>2. FreshIn(down, e, n)
      BY <2>5, <3>1
    <3>3. down \o <<b, c>> = Append(Append(down, b), c)
      BY <1>1, <2>1, AppendTwo
    <3>4. FreshIn(Append(down, b), e, n) /\ Append(down, b) \in Seq(Message)
      BY <1>1, <2>1, <2>3, <3>2, FreshAppend, AppendOfDocs
    <3>5. FreshIn(Append(Append(down, b), c), e, n)
      BY <2>1, <2>2, <3>4, FreshAppend
    <3> QED BY <3>1, <3>2, <3>3, <3>5 DEF n
  <2> QED BY <2>6, <2>7, <2>8
<1> QED BY <1>2, <1>3, <1>4 DEF Fresh

LEMMA FreshKeeps == Typed /\ Typed' /\ Steady /\ Fresh /\ [Next]_vars => Fresh'
<1> SUFFICES ASSUME Typed, Typed', Steady, Fresh, [Next]_vars PROVE Fresh'
  OBVIOUS
<1>1. CASE UNCHANGED vars \/ \E g \in Gets : HandleEvent(g)
  <2>1. UNCHANGED <<documents, current, targets, aggregator, wire>>
    BY <1>1 DEF vars, HandleEvent
  <2> QED BY <2>1 DEF Fresh, SinceKnown, CurrentIsTarget, ComingIsFresh, PendingIsFresh,
            InSyncIsFresh, FreshIn, AnswersIn, IsAnswer, IsActive, aggregator, wire, documents
<1>2. CASE (\E d \in Docs : GetDocument(d)) \/ (\E g \in Gets : RemoveListener(g))
  BY <1>2, GetFresh, RemoveFresh
<1>3. CASE Client
  BY <1>3, ConnectionFresh, ReadFresh DEF Client
<1>4. CASE Service
  BY <1>4, RefusedFresh, ServiceFresh DEF Service
<1>5. CASE Callers
  <2>1. \/ \E d \in Docs : GetDocument(d)
        \/ \E g \in Gets : HandleEvent(g) \/ RemoveListener(g)
    BY <1>5 DEF Callers
  <2> QED BY <1>1, <1>2, <2>1
<1>6. Next => Callers \/ Client \/ Service
  BY DEF Next
<1> QED BY <1>1, <1>3, <1>4, <1>5, <1>6

LEMMA AlwaysFresh == Spec => [](Typed /\ Steady /\ Fresh)
<1>1. Init => Typed /\ Steady /\ Fresh
  BY InitTyped, InitSteady, InitFresh
<1>2. Typed /\ Steady /\ Fresh /\ [Next]_vars => (Typed /\ Steady /\ Fresh)'
  BY TypedKeeps, SteadyKeeps, FreshKeeps
<1> QED BY <1>1, <1>2, PTL DEF Spec

(* A view in sync is no older than its document was when the client began  *)
(* to listen to it, whatever an earlier listen left on the wire.           *)
THEOREM SyncedViewsAreFresh == Spec => []InSyncIsFresh
<1>1. Fresh => InSyncIsFresh
  BY DEF Fresh
<1> QED BY <1>1, AlwaysFresh, PTL

-------------------------------------------------------------------------------
(* Every caller waits for something                                        *)

(* Only a caller that was told is muted or removed.                        *)
MutedWereTold == \A g \in muted \cup removing : told[g] # 0
RaisedMade == raised \subseteq DOMAIN doc

(* A caller not told has an event under way, or listens for its first.     *)
NotForgotten ==
  \A g \in DOMAIN doc : told[g] = 0 =>
    events[g] # <<>> \/ (g \in listeners[doc[g]] /\ g \notin raised)

(* While a listener waits for its first event nothing is there to raise.   *)
NothingToRaise ==
  \A d \in Docs : \A g \in listeners[d] \ raised : ~current[d] /\ online # "Offline"

Awaited == MutedWereTold /\ RaisedMade /\ NotForgotten /\ NothingToRaise

LEMMA InitAwaited == Init => Awaited
<1> SUFFICES ASSUME Init PROVE Awaited
  OBVIOUS
<1>1. /\ muted = {} /\ removing = {} /\ raised = {} /\ doc = <<>> /\ DOMAIN doc = {}
      /\ \A d \in Docs : listeners[d] = {}
  BY DEF Init
<1> QED BY <1>1 DEF Awaited, MutedWereTold, RaisedMade, NotForgotten, NothingToRaise

(* A task that ends with RaiseEvents: who is shown the view has an event,  *)
(* and who is not still waits for one.                                     *)
LEMMA RaisingAwaited ==
  ASSUME Typed, Typed', Calls, Calls', Awaited, RaiseEvents,
         UNCHANGED <<told, muted, removing>>,
         \A g \in DOMAIN doc : g \in DOMAIN doc' /\ doc'[g] = doc[g],
         \A d \in Docs : listeners[d] \subseteq listeners'[d],
         \A g \in DOMAIN doc' : g \in DOMAIN doc \/ g \in listeners'[doc'[g]]
  PROVE  Awaited'
<1> DEFINE to == {g \in DOMAIN doc' : Raises(g, doc'[g])}
<1>1. /\ raised' = raised \cup to
      /\ events' = [g \in Gets |-> IF g \in to THEN Dispatch(g, Snapshot(doc'[g]))
                                                ELSE events[g]]
  BY DEF RaiseEvents
<1>2. DOMAIN doc' \subseteq Gets
  <2>1. Len(doc') \in Nat /\ DOMAIN doc' = 1..Len(doc') /\ Len(doc') <= MaxGets
    BY LenProperties DEF Typed, TypeOK
  <2> QED BY <2>1, BoundsAssumption DEF Gets
<1>3. MutedWereTold'
  BY DEF Awaited, MutedWereTold
<1>4. RaisedMade'
  BY <1>1 DEF Awaited, RaisedMade
<1>5. NotForgotten'
  <2> SUFFICES ASSUME NEW g \in DOMAIN doc', told'[g] = 0, events'[g] = <<>>
               PROVE  g \in listeners'[doc'[g]] /\ g \notin raised'
    BY DEF NotForgotten
  <2>1. g \in Gets /\ g \notin muted /\ events[g] \in Seq(Event)
    BY <1>2 DEF Awaited, MutedWereTold, Typed, TypeOK
  <2>2. CASE g \in to
    <3>1. events'[g] = Dispatch(g, Snapshot(doc'[g]))
      BY <1>1, <2>1, <2>2
    <3>2. Snapshot(doc'[g]) \in Event
      BY DEF Snapshot, Event
    <3>3. CASE Len(events[g]) = 2
      BY <3>1, <3>3, EmptySeq DEF Dispatch
    <3>4. CASE Len(events[g]) # 2
      <4>1. events'[g] = Append(events[g], Snapshot(doc'[g]))
        BY <2>1, <3>1, <3>4 DEF Dispatch
      <4>2. Len(events'[g]) = Len(events[g]) + 1 /\ Len(events[g]) \in Nat
        BY <2>1, <3>2, <4>1, AppendOfDocs
      <4> QED BY <4>2, EmptySeq
    <3> QED BY <3>3, <3>4
  <2>3. CASE g \notin to /\ g \in DOMAIN doc
    <3>1. events[g] = <<>> /\ told[g] = 0 /\ doc'[g] = doc[g] /\ doc[g] \in Docs
      BY <1>1, <2>1, <2>3, LenProperties DEF Typed, TypeOK
    <3>2. g \in listeners[doc[g]] /\ g \notin raised
      BY <2>3, <3>1 DEF Awaited, NotForgotten
    <3> QED BY <1>1, <2>3, <3>1, <3>2
  <2>4. CASE g \notin to /\ g \notin DOMAIN doc
    BY <1>1, <2>4 DEF Awaited, RaisedMade
  <2> QED BY <2>2, <2>3, <2>4
<1>6. NothingToRaise'
  <2> SUFFICES ASSUME NEW d \in Docs, NEW g \in listeners'[d], g \notin raised'
               PROVE  ~current'[d] /\ online' # "Offline"
    BY DEF NothingToRaise
  <2>1. g \in DOMAIN doc' /\ doc'[g] = d
    BY DEF Typed, TypeOK, Calls, ListensToOwn
  <2>2. g \notin to /\ g \notin raised
    BY <1>1
  <2>3. ~Raises(g, d)
    BY <2>1, <2>2
  <2> QED BY <2>2, <2>3 DEF Raises
<1> QED BY <1>3, <1>4, <1>5, <1>6 DEF Awaited

(* A task that raises nothing, gives the views nothing more to show, and   *)
(* removes only listeners of callers that were told.                       *)
LEMMA QuietAwaited ==
  ASSUME Typed, Awaited, UNCHANGED <<doc, told, muted, raising>>, removing' \subseteq removing,
         \A d \in Docs : listeners'[d] \subseteq listeners[d],
         \A d \in Docs : \A g \in listeners[d] : told[g] = 0 => g \in listeners'[d],
         \A d \in Docs : current'[d] => current[d],
         online' = "Offline" => online = "Offline"
  PROVE  Awaited'
<1>1. \A g \in DOMAIN doc : doc[g] \in Docs
  BY LenProperties DEF Typed, TypeOK
<1>2. MutedWereTold' /\ RaisedMade'
  BY DEF Awaited, MutedWereTold, RaisedMade, raising
<1>3. NotForgotten'
  BY <1>1 DEF Awaited, NotForgotten, raising
<1>4. NothingToRaise'
  BY DEF Awaited, NothingToRaise, raising
<1> QED BY <1>2, <1>3, <1>4 DEF Awaited

LEMMA GetAwaited ==
  ASSUME Typed, Typed', Steady, Calls, Calls', Awaited, NEW d \in Docs, GetDocument(d)
  PROVE  Awaited'
<1> DEFINE new == Len(doc) + 1
<1>1. /\ Len(doc) < MaxGets /\ doc' = Append(doc, d)
      /\ listeners' = [listeners EXCEPT ![d] = @ \cup {new}]
      /\ UNCHANGED <<told, muted, removing>> /\ RaiseEvents
  BY GetRuns
<1>2. doc \in Seq(Docs) /\ listeners \in [Docs -> SUBSET DOMAIN doc]
  BY DEF Typed, TypeOK
<1>3. /\ Len(doc) \in Nat /\ DOMAIN doc = 1..Len(doc) /\ DOMAIN doc' = 1..new
      /\ doc'[new] = d /\ \A g \in 1..Len(doc) : doc'[g] = doc[g]
  <2>1. doc' \in Seq(Docs) /\ Len(doc') = new /\ doc'[new] = d
        /\ \A g \in 1..Len(doc) : doc'[g] = doc[g]
    BY <1>1, <1>2, AppendProperties
  <2> QED BY <1>2, <2>1, LenProperties
<1>4. \A g \in DOMAIN doc : g \in DOMAIN doc' /\ doc'[g] = doc[g]
  BY <1>3
<1>5. \A g \in DOMAIN doc' : g \in DOMAIN doc \/ g = new
  BY <1>3
<1> HIDE DEF new
<1>6. \A e \in Docs : listeners[e] \subseteq listeners'[e]
  BY <1>1, <1>2
<1>7. new \in listeners'[doc'[new]]
  BY <1>1, <1>2, <1>3
<1> QED BY <1>1, <1>4, <1>5, <1>6, <1>7, RaisingAwaited

LEMMA HandleAwaited == ASSUME Typed, Awaited, NEW g \in Gets, HandleEvent(g) PROVE Awaited'
<1>1. /\ events' = [events EXCEPT ![g] = Tail(@)]
      /\ told' = IF g \in muted THEN told ELSE [told EXCEPT ![g] = @ + 1]
      /\ muted' \subseteq muted \cup {g} /\ removing' \subseteq removing \cup {g}
      /\ UNCHANGED <<doc, raised, listeners, current, online>>
  BY DEF HandleEvent, tracker
<1>2. told'[g] # 0
  BY <1>1 DEF Awaited, MutedWereTold, Typed, TypeOK
<1>3. \A h \in Gets : h # g => told'[h] = told[h] /\ events'[h] = events[h]
  BY <1>1 DEF Typed, TypeOK
<1>4. DOMAIN doc \subseteq Gets
  <2>1. Len(doc) \in Nat /\ DOMAIN doc = 1..Len(doc) /\ Len(doc) <= MaxGets
    BY LenProperties DEF Typed, TypeOK
  <2> QED BY <2>1, BoundsAssumption DEF Gets
<1>5. MutedWereTold'
  BY <1>1, <1>2, <1>3 DEF Awaited, MutedWereTold, Typed, TypeOK
<1>6. NotForgotten'
  BY <1>1, <1>2, <1>3, <1>4 DEF Awaited, NotForgotten
<1>7. RaisedMade' /\ NothingToRaise'
  BY <1>1 DEF Awaited, RaisedMade, NothingToRaise
<1> QED BY <1>5, <1>6, <1>7 DEF Awaited

LEMMA RemoveAwaited ==
  ASSUME Typed, Steady, Awaited, NEW g \in Gets, RemoveListener(g)
  PROVE  Awaited'
<1> DEFINE d == doc[g]
           last == listeners[d] = {g}
<1>1. /\ d \in Docs /\ g \in removing /\ removing' = removing \ {g}
      /\ listeners' = [listeners EXCEPT ![d] = @ \ {g}]
      /\ current' = [current EXCEPT ![d] = @ /\ ~last]
      /\ UpdateState("Unknown") \/ UNCHANGED tracker
      /\ UNCHANGED <<doc, told, muted, raised, events>>
  BY RemoveRuns
<1>2. told[g] # 0
  BY <1>1 DEF Awaited, MutedWereTold
<1>3. \A e \in Docs : listeners'[e] = IF e = d THEN listeners[e] \ {g} ELSE listeners[e]
  BY <1>1 DEF Typed, TypeOK
<1>4. \A e \in Docs : current'[e] => current[e]
  BY <1>1 DEF Typed, TypeOK
<1>5. online' = "Offline" => online = "Offline"
  BY <1>1 DEF UpdateState, tracker
<1> QED BY <1>1, <1>2, <1>3, <1>4, <1>5, QuietAwaited DEF raising

LEMMA RefusedAwaited ==
  ASSUME Typed, Calls, Awaited, NEW d \in Docs, ListenRefused(d)
  PROVE  Awaited'
<1>1. /\ listeners' = [listeners EXCEPT ![d] = {}]
      /\ events' = [g \in Gets |-> IF g \in listeners[d] THEN Dispatch(g, "refused")
                                                         ELSE events[g]]
      /\ current' = [current EXCEPT ![d] = FALSE] /\ online' = "Online"
      /\ UNCHANGED <<doc, told, muted, removing, raised>>
  BY DEF ListenRefused, UpdateState, callers
<1>2. \A e \in Docs : listeners'[e] = IF e = d THEN {} ELSE listeners[e]
  BY <1>1 DEF Typed, TypeOK
<1>3. \A e \in Docs : current'[e] => current[e]
  BY <1>1 DEF Typed, TypeOK
<1>4. MutedWereTold' /\ RaisedMade' /\ NothingToRaise'
  BY <1>1, <1>2, <1>3 DEF Awaited, MutedWereTold, RaisedMade, NothingToRaise
<1>5. NotForgotten'
  <2> SUFFICES ASSUME NEW g \in DOMAIN doc, told[g] = 0, events'[g] = <<>>
               PROVE  g \in listeners'[doc[g]] /\ g \notin raised
    BY <1>1 DEF NotForgotten
  <2>1. g \in Gets /\ doc[g] \in Docs
    <3>1. Len(doc) \in Nat /\ DOMAIN doc = 1..Len(doc) /\ Len(doc) <= MaxGets
          /\ \A h \in 1..Len(doc) : doc[h] \in Docs
      BY LenProperties DEF Typed, TypeOK
    <3> QED BY <3>1, BoundsAssumption DEF Gets
  <2>2. g \notin muted /\ events[g] \in Seq(Event) /\ "refused" \in Event
    BY <2>1 DEF Awaited, MutedWereTold, Typed, TypeOK, Event
  <2>3. Append(events[g], "refused") # <<>>
    <3>1. Len(Append(events[g], "refused")) = Len(events[g]) + 1 /\ Len(events[g]) \in Nat
      BY <2>2, AppendOfDocs
    <3> QED BY <3>1, EmptySeq
  <2>4. Len(events[g]) = 2 => events[g] # <<>>
    BY EmptySeq
  <2>5. g \notin listeners[d] /\ events[g] = <<>>
    BY <1>1, <2>1, <2>2, <2>3, <2>4 DEF Dispatch
  <2>6. g \in listeners[doc[g]] /\ g \notin raised
    BY <2>5 DEF Awaited, NotForgotten
  <2> QED BY <1>2, <2>1, <2>5, <2>6
<1> QED BY <1>4, <1>5 DEF Awaited

LEMMA ClientAwaited ==
  ASSUME Typed, Typed', Steady, Calls, Calls', Awaited, Client
  PROVE  Awaited'
<1>1. CASE StreamFails \/ OnlineStateTimeout \/ OnWatchStreamChange
  <2>1. UNCHANGED <<callers, listeners>> /\ RaiseEvents
    BY <1>1, FailsRuns, TimeoutRuns DEF OnWatchStreamChange
  <2>2. \A g \in DOMAIN doc' : g \in DOMAIN doc
    BY <2>1 DEF callers
  <2> QED BY <2>1, <2>2, RaisingAwaited DEF callers
<1>2. CASE RestartNetwork \/ CredentialsArrive \/ BackoffElapses \/ IdleTimeout
  <2>1. /\ UNCHANGED <<callers, raising, listeners, current>>
        /\ online' = "Unknown" \/ online' = online
    BY <1>2, IdleRuns DEF RestartNetwork, CredentialsArrive, BackoffElapses, UpdateState, tracker
  <2> QED BY <2>1, QuietAwaited DEF callers
<1> QED BY <1>1, <1>2 DEF Client

LEMMA AwaitedKeeps ==
  Typed /\ Typed' /\ Steady /\ Calls /\ Calls' /\ Awaited /\ [Next]_vars => Awaited'
<1> SUFFICES ASSUME Typed, Typed', Steady, Calls, Calls', Awaited, [Next]_vars PROVE Awaited'
  OBVIOUS
<1>1. CASE UNCHANGED vars \/ \E d \in Docs : ServiceAnswers(d) \/ DocumentChanges(d)
  <2>1. UNCHANGED <<callers, raising, listeners, current, online>>
    BY <1>1 DEF vars, ServiceAnswers, DocumentChanges, tracker
  <2> QED BY <2>1, QuietAwaited DEF callers
<1>2. CASE Callers
  BY <1>2, GetAwaited, HandleAwaited, RemoveAwaited DEF Callers
<1>3. CASE Client
  BY <1>3, ClientAwaited
<1>4. CASE Service
  BY <1>1, <1>4, RefusedAwaited DEF Service
<1> QED BY <1>1, <1>2, <1>3, <1>4 DEF Next

LEMMA AlwaysAwaited == Spec => [](Typed /\ Steady /\ Calls /\ Awaited)
<1> QED BY InitAwaited, AwaitedKeeps, AlwaysCalls, PTL DEF Spec

-------------------------------------------------------------------------------
(* What the stream still has to bring for a target *)

(* Its last request is with the service, and asks for the document.        *)
LastAsked(d) == up[d] # <<>> /\ up[d][Len(up[d])] = "watch"

(* Its last request is answered: what follows the answer is on its way.    *)
UpdateComing(d) ==
  /\ up[d] = <<>>
  /\ \E i \in 1..(Len(down) - 1) :
       /\ down[i].type = "update" /\ down[i].doc = d /\ down[i + 1].type = "snapshot"
       /\ \A j \in AnswersIn(down, d) : j < i

(* The document was read: the snapshot that raises it is on its way.       *)
SnapshotComing(d) ==
  /\ up[d] = <<>> /\ AnswersIn(down, d) = {} /\ pending[d]
  /\ \E i \in 1..Len(down) : down[i].type = "snapshot"

Coming(d) == LastAsked(d) \/ UpdateComing(d) \/ SnapshotComing(d)

PendingIsCurrent == \A d \in Docs : pending[d] => isCurrent[d]
TargetsServed ==
  stream = "Open" => \A d \in targets : Coming(d) \/ (current[d] /\ online = "Online")
Served == PendingIsCurrent /\ TargetsServed

(* More messages, none of them an answer for the target, change nothing.   *)
LEMMA ComingKept ==
  ASSUME Typed, NEW t \in Seq(Message), down' = down \o t, NEW d \in Docs,
         AnswersIn(t, d) = {}, up'[d] = up[d], pending'[d] = pending[d], Coming(d)
  PROVE  Coming(d)'
<1>1. /\ down \in Seq(Message) /\ Len(down) \in Nat /\ Len(t) \in Nat
      /\ Len(down') = Len(down) + Len(t)
      /\ \A i \in 1..Len(down') : down'[i] = IF i <= Len(down) THEN down[i]
                                              ELSE t[i - Len(down)]
  <2>1. down \in Seq(Message)
    BY DEF Typed, TypeOK
  <2> QED BY <2>1, ConcatProperties, LenProperties
<1>2. AnswersIn(down', d) \subseteq AnswersIn(down, d)
  <2> SUFFICES ASSUME NEW j \in AnswersIn(down', d) PROVE j \in AnswersIn(down, d)
    OBVIOUS
  <2>1. j \in 1..Len(down') /\ IsAnswer(down'[j], d)
    BY DEF AnswersIn
  <2>2. CASE j <= Len(down)
    BY <1>1, <2>1, <2>2 DEF AnswersIn
  <2>3. CASE ~(j <= Len(down))
    <3>1. j - Len(down) \in 1..Len(t) /\ IsAnswer(t[j - Len(down)], d)
      BY <1>1, <2>1, <2>3
    <3> QED BY <3>1 DEF AnswersIn
  <2> QED BY <2>2, <2>3
<1>3. \A i \in 1..Len(down) : i \in 1..Len(down') /\ down'[i] = down[i]
  BY <1>1
<1>4. CASE LastAsked(d)
  BY <1>4 DEF Coming, LastAsked
<1>5. CASE UpdateComing(d)
  <2> PICK i \in 1..(Len(down) - 1) :
         /\ down[i].type = "update" /\ down[i].doc = d /\ down[i + 1].type = "snapshot"
         /\ \A j \in AnswersIn(down, d) : j < i
    BY <1>5 DEF UpdateComing
  <2>1. i \in 1..(Len(down') - 1) /\ i \in 1..Len(down) /\ i + 1 \in 1..Len(down)
    BY <1>1
  <2> QED BY <1>2, <1>3, <1>5, <2>1 DEF Coming, UpdateComing
<1>6. CASE SnapshotComing(d)
  BY <1>2, <1>3, <1>6 DEF Coming, SnapshotComing
<1> QED BY <1>4, <1>5, <1>6 DEF Coming

(* Nothing is read and nothing arrives.                                    *)
LEMMA ComingSame ==
  ASSUME NEW d \in Docs, UNCHANGED <<up, down, pending>>, Coming(d)
  PROVE  Coming(d)'
BY DEF Coming, LastAsked, UpdateComing, SnapshotComing, AnswersIn

LEMMA GetServed ==
  ASSUME Typed, Typed', Steady, Served, NEW d \in Docs, GetDocument(d)
  PROVE  Served'
<1>1. /\ IF listeners[d] = {} THEN Listen(d)
         ELSE UNCHANGED <<since, targets, stream, idle, tracker, aggregator, wire>>
      /\ UNCHANGED current
  BY GetRuns
<1>2. UNCHANGED <<isCurrent, pending>>
  BY <1>1 DEF Listen, Send, aggregator
<1>3. PendingIsCurrent'
  BY <1>2 DEF Served, PendingIsCurrent
<1>4. CASE listeners[d] = {} /\ ~IsStarted
  BY <1>1, <1>3, <1>4 DEF Listen, StartWatchStream, Served, TargetsServed
<1>5. CASE listeners[d] # {} \/ (IsStarted /\ stream # "Open")
  <2>1. UNCHANGED <<stream, online, up, down, pending>>
    BY <1>1, <1>5 DEF Listen, aggregator, wire, tracker
  <2>2. stream = "Open" => targets' = targets
    BY <1>1, <1>5
  <2>3. targets \subseteq Docs
    BY DEF Typed, TypeOK
  <2> QED BY <1>1, <1>3, <2>1, <2>2, <2>3, ComingSame DEF Served, TargetsServed
<1>6. CASE listeners[d] = {} /\ stream = "Open"
  <2>1. /\ targets' = targets \cup {d} /\ UNCHANGED <<stream, online, down, pending>>
        /\ up' = [up EXCEPT ![d] = Append(@, "watch")]
    BY <1>1, <1>6 DEF Listen, Send, IsStarted, tracker
  <2>2. up[d] \in Seq({"watch", "unwatch"}) /\ "watch" \in {"watch", "unwatch"}
    BY DEF Typed, TypeOK
  <2>3. up'[d] = Append(up[d], "watch") /\ \A e \in Docs : e # d => up'[e] = up[e]
    BY <2>1 DEF Typed, TypeOK
  <2>4. Coming(d)'
    <3>1. Len(up'[d]) = Len(up[d]) + 1 /\ Len(up[d]) \in Nat /\ up'[d][Len(up'[d])] = "watch"
      BY <2>2, <2>3, AppendProperties, LenProperties
    <3> QED BY <3>1, EmptySeq DEF Coming, LastAsked
  <2>5. ASSUME NEW e \in targets, e # d PROVE Coming(e)' \/ (current'[e] /\ online' = "Online")
    <3>1. e \in Docs
      BY DEF Typed, TypeOK
    <3>2. Coming(e) => Coming(e)'
      BY <2>1, <2>3, <2>5, <3>1 DEF Coming, LastAsked, UpdateComing, SnapshotComing, AnswersIn
    <3> QED BY <1>1, <1>6, <2>1, <3>2 DEF Served, TargetsServed
  <2> QED BY <1>3, <2>1, <2>4, <2>5 DEF Served, TargetsServed
<1> QED BY <1>4, <1>5, <1>6

LEMMA RemoveServed ==
  ASSUME Typed, Steady, Served, NEW g \in Gets, RemoveListener(g)
  PROVE  Served'
<1> DEFINE d == doc[g]
           last == listeners[d] = {g}
<1>1. /\ d \in Docs
      /\ targets' = IF last THEN targets \ {d} ELSE targets
      /\ current' = [current EXCEPT ![d] = @ /\ ~last]
      /\ IF last /\ stream = "Open" THEN Send("unwatch", d) ELSE UNCHANGED <<aggregator, wire>>
      /\ stream = "Open" => UNCHANGED tracker
      /\ UNCHANGED stream
  BY RemoveRuns
<1>2. UNCHANGED <<isCurrent, pending, down>>
  BY <1>1 DEF Send, aggregator, wire
<1>3. PendingIsCurrent'
  BY <1>2 DEF Served, PendingIsCurrent
<1>4. ASSUME stream = "Open", NEW e \in targets'
      PROVE  Coming(e)' \/ (current'[e] /\ online' = "Online")
  <2>1. e \in targets /\ e \in Docs /\ (last => e # d)
    BY <1>1 DEF Typed, TypeOK
  <2>2. up'[e] = up[e] /\ (current[e] => current'[e]) /\ online' = online
    BY <1>1, <1>4, <2>1 DEF Send, wire, tracker, Typed, TypeOK
  <2>3. Coming(e) => Coming(e)'
    BY <1>2, <2>1, <2>2 DEF Coming, LastAsked, UpdateComing, SnapshotComing, AnswersIn
  <2> QED BY <1>4, <2>1, <2>2, <2>3 DEF Served, TargetsServed
<1> QED BY <1>1, <1>3, <1>4 DEF Served, TargetsServed

(* When the stream opens every target is asked for, and nothing is read.   *)
LEMMA ConnectionServed ==
  ASSUME Typed, Steady, Served,
         \/ RestartNetwork \/ CredentialsArrive \/ StreamFails \/ BackoffElapses
         \/ IdleTimeout \/ OnlineStateTimeout
  PROVE  Served'
<1>1. CASE RestartNetwork \/ StreamFails \/ IdleTimeout
  <2>1. Disconnected /\ stream' # "Open"
    BY <1>1, FailsRuns, IdleRuns DEF RestartNetwork
  <2> QED BY <2>1 DEF Disconnected, Served, PendingIsCurrent, TargetsServed
<1>2. CASE BackoffElapses
  BY <1>2 DEF BackoffElapses, aggregator, Served, PendingIsCurrent, TargetsServed
<1>3. CASE CredentialsArrive
  <2>1. /\ UNCHANGED <<targets, isCurrent, pending>>
        /\ \A d \in targets : d \in Docs /\ up'[d] = <<"watch">>
    BY <1>3 DEF CredentialsArrive, Typed, TypeOK
  <2>2. <<"watch">> # <<>> /\ Len(<<"watch">>) = 1 /\ <<"watch">>[1] = "watch"
    OBVIOUS
  <2>3. \A d \in targets : LastAsked(d)'
    BY <2>1, <2>2 DEF LastAsked
  <2> QED BY <2>1, <2>3 DEF Served, PendingIsCurrent, TargetsServed, Coming
<1>4. CASE OnlineStateTimeout
  <2>1. online = "Unknown" /\ UNCHANGED <<targets, stream, up, down, isCurrent, pending>>
    BY <1>4, TimeoutRuns DEF aggregator, wire
  <2>2. targets \subseteq Docs
    BY DEF Typed, TypeOK
  <2> QED BY <2>1, <2>2, ComingSame DEF Served, PendingIsCurrent, TargetsServed
<1> QED BY <1>1, <1>2, <1>3, <1>4

(* Reading a message brings a target closer to its snapshot.               *)
LEMMA ReadServed == ASSUME Typed, Typed', Served, OnWatchStreamChange PROVE Served'
<1> DEFINE m == Head(down)
<1>1. /\ stream = "Open" /\ down # <<>> /\ down' = Tail(down) /\ online' = "Online"
      /\ UNCHANGED <<targets, stream, up>>
      /\ \/ m.type \in {"added", "removed"} /\ ReadAnswer(m.doc, m.type = "removed")
         \/ m.type = "update" /\ ReadUpdate(m.doc, m.version)
         \/ m.type = "snapshot" /\ ReadSnapshot
  BY DEF OnWatchStreamChange, UpdateState
<1>2. /\ Len(down) \in Nat \ {0} /\ Len(down') = Len(down) - 1 /\ m = down[1]
      /\ \A i \in 1..Len(down') : down'[i] = down[i + 1]
      /\ m \in Message /\ m.doc \in Docs
  <2>1. down \in Seq(Message)
    BY DEF Typed, TypeOK
  <2>2. /\ Len(down) \in Nat \ {0} /\ Len(Tail(down)) = Len(down) - 1 /\ m = down[1]
        /\ \A i \in 1..Len(Tail(down)) : Tail(down)[i] = down[i + 1]
    BY <1>1, <2>1, EmptySeq, LenProperties, HeadTailProperties
  <2>3. m \in Message
    BY <2>1, <2>2, ElementOfSeq
  <2> QED BY <1>1, <2>2, <2>3 DEF Message
<1>3. \A d, j : j \in AnswersIn(down', d) => j + 1 \in AnswersIn(down, d) /\ j \in Nat
  BY <1>2 DEF AnswersIn
<1> HIDE DEF m
<1>4. PendingIsCurrent'
  <2> SUFFICES ASSUME NEW d \in Docs, pending'[d] PROVE isCurrent'[d]
    BY DEF PendingIsCurrent
  <2>1. CASE ReadAnswer(m.doc, m.type = "removed")
    BY <1>2, <2>1 DEF ReadAnswer, Served, PendingIsCurrent, Typed, TypeOK
  <2>2. CASE ReadUpdate(m.doc, m.version)
    BY <1>2, <2>2 DEF ReadUpdate, Served, PendingIsCurrent, Typed, TypeOK
  <2>3. CASE ReadSnapshot
    BY <2>3 DEF ReadSnapshot, Served, PendingIsCurrent
  <2> QED BY <1>1, <2>1, <2>2, <2>3
<1>5. ASSUME NEW d \in targets PROVE Coming(d)' \/ current'[d]
  <2>1. d \in Docs /\ up[d] \in Seq({"watch", "unwatch"})
    BY DEF Typed, TypeOK
  <2>2. up[d] = <<>> /\ AnswersIn(down, d) = {} => IsActive(d)
    <3>1. Due(down, d) = 0 <=> AnswersIn(down, d) = {}
      BY DueIsNat DEF Typed, TypeOK
    <3> QED BY <2>1, <3>1, EmptySeq DEF Typed, OutstandingIsDue, IsActive
  <2>3. Coming(d) \/ current[d]
    BY <1>1 DEF Served, TargetsServed
  <2>4. CASE LastAsked(d)
    BY <1>1, <2>4 DEF Coming, LastAsked
  <2>5. CASE UpdateComing(d)
    <3> PICK i \in 1..(Len(down) - 1) :
           /\ down[i].type = "update" /\ down[i].doc = d /\ down[i + 1].type = "snapshot"
           /\ \A j \in AnswersIn(down, d) : j < i
      BY <2>5 DEF UpdateComing
    <3>1. CASE i = 1
      <4>1. AnswersIn(down, d) = {}
        <5>1. \A j \in AnswersIn(down, d) : j < 1 /\ j \in 1..Len(down)
          BY <3>1 DEF AnswersIn
        <5> QED BY <1>2, <5>1
      <4>2. m.type = "update" /\ m.doc = d
        BY <1>2, <3>1
      <4>3. ReadUpdate(d, m.version)
        BY <1>1, <4>2
      <4>4. pending'[d] /\ up'[d] = <<>>
        BY <1>1, <2>1, <2>2, <2>5, <4>1, <4>3 DEF ReadUpdate, UpdateComing, Typed, TypeOK
      <4>5. 1 \in 1..Len(down') /\ down'[1].type = "snapshot"
        BY <1>2, <3>1
      <4>6. AnswersIn(down', d) = {}
        BY <1>3, <4>1
      <4> QED BY <4>4, <4>5, <4>6 DEF Coming, SnapshotComing
    <3>2. CASE i # 1
      <4>1. /\ i - 1 \in 1..(Len(down') - 1) /\ down'[i - 1] = down[i]
            /\ down'[i - 1 + 1] = down[i + 1]
        BY <1>2, <3>2
      <4>2. \A j \in AnswersIn(down', d) : j < i - 1
        BY <1>2, <1>3
      <4> QED BY <1>1, <2>5, <4>1, <4>2 DEF Coming, UpdateComing
    <3> QED BY <3>1, <3>2
  <2>6. CASE SnapshotComing(d)
    <3>1. up[d] = <<>> /\ AnswersIn(down, d) = {} /\ pending[d] /\ IsActive(d)
      BY <2>2, <2>6 DEF SnapshotComing
    <3>2. CASE m.type = "snapshot"
      <4>1. ReadSnapshot
        BY <1>1, <3>2
      <4> QED BY <2>1, <3>1, <4>1 DEF ReadSnapshot, Served, PendingIsCurrent
    <3>3. CASE m.type # "snapshot"
      <4> PICK i \in 1..Len(down) : down[i].type = "snapshot"
        BY <2>6 DEF SnapshotComing
      <4>1. i - 1 \in 1..Len(down') /\ down'[i - 1].type = "snapshot"
        BY <1>2, <3>3
      <4>2. AnswersIn(down', d) = {}
        BY <1>3, <3>1
      <4>3. pending'[d]
        <5>1. CASE m.type \in {"added", "removed"} /\ ReadAnswer(m.doc, m.type = "removed")
          <6>1. m.doc # d
            BY <1>2, <3>1, <5>1 DEF AnswersIn, IsAnswer
          <6> QED BY <1>2, <2>1, <3>1, <5>1, <6>1 DEF ReadAnswer, Typed, TypeOK
        <5>2. CASE ReadUpdate(m.doc, m.version)
          BY <1>2, <2>1, <3>1, <5>2 DEF ReadUpdate, Typed, TypeOK
        <5> QED BY <1>1, <3>3, <5>1, <5>2
      <4> QED BY <1>1, <3>1, <4>1, <4>2, <4>3 DEF Coming, SnapshotComing
    <3> QED BY <3>2, <3>3
  <2>7. CASE current[d]
    <3>1. CASE ReadSnapshot
      BY <2>1, <2>7, <3>1 DEF ReadSnapshot, Served, PendingIsCurrent
    <3>2. CASE ~ReadSnapshot
      BY <1>1, <2>7, <3>2 DEF ReadAnswer, ReadUpdate
    <3> QED BY <3>1, <3>2
  <2> QED BY <2>3, <2>4, <2>5, <2>6, <2>7 DEF Coming
<1> QED BY <1>1, <1>4, <1>5 DEF Served, TargetsServed

LEMMA RefusedServed == ASSUME Typed, Served, NEW d \in Docs, ListenRefused(d) PROVE Served'
<1>1. /\ stream = "Open" /\ targets' = targets \ {d} /\ online' = "Online"
      /\ current' = [current EXCEPT ![d] = FALSE]
      /\ pending' = [pending EXCEPT ![d] = FALSE]
      /\ isCurrent' = [isCurrent EXCEPT ![d] = FALSE]
      /\ up' = [up EXCEPT ![d] = <<>>]
      /\ UNCHANGED <<stream, down>>
  BY DEF ListenRefused, UpdateState
<1>2. PendingIsCurrent'
  BY <1>1 DEF Served, PendingIsCurrent, Typed, TypeOK
<1>3. ASSUME NEW e \in targets' PROVE Coming(e)' \/ (current'[e] /\ online' = "Online")
  <2>1. e \in targets /\ e \in Docs /\ e # d
    BY <1>1 DEF Typed, TypeOK
  <2>2. up'[e] = up[e] /\ pending'[e] = pending[e] /\ current'[e] = current[e]
    BY <1>1, <2>1 DEF Typed, TypeOK
  <2>3. Coming(e) => Coming(e)'
    BY <1>1, <2>2 DEF Coming, LastAsked, UpdateComing, SnapshotComing, AnswersIn
  <2> QED BY <1>1, <2>1, <2>2, <2>3 DEF Served, TargetsServed
<1> QED BY <1>2, <1>3 DEF Served, TargetsServed

(* The answer to a last request brings the document and a snapshot.        *)
LEMMA AnswerServed ==
  ASSUME Typed, Typed', NEW d \in Docs, ServiceAnswers(d), LastAsked(d)
  PROVE  Coming(d)'
<1>1. /\ up[d] # <<>> /\ up'[d] = Tail(up[d]) /\ UNCHANGED server
      /\ up[d] \in Seq({"watch", "unwatch"}) /\ down \in Seq(Message)
      /\ server[d] \in Versions
  BY DEF ServiceAnswers, Typed, TypeOK
<1>2. /\ Len(up[d]) \in Nat \ {0} /\ Len(Tail(up[d])) = Len(up[d]) - 1
      /\ \A i \in 1..Len(Tail(up[d])) : Tail(up[d])[i] = up[d][i + 1]
      /\ Tail(up[d]) \in Seq({"watch", "unwatch"}) /\ Head(up[d]) = up[d][1]
  BY <1>1, EmptySeq, LenProperties, HeadTailProperties
<1>3. CASE Len(up[d]) > 1
  <2> DEFINE rest == Tail(up[d])
             k == Len(up[d])
  <2> HIDE DEF rest, k
  <2>1. rest # <<>> /\ rest[Len(rest)] = up[d][k]
    <3>1. k \in Nat /\ k > 1 /\ Len(rest) = k - 1 /\ \A i \in 1..Len(rest) : rest[i] = up[d][i + 1]
      BY <1>2, <1>3 DEF rest, k
    <3>2. Len(rest) \in 1..Len(rest) /\ Len(rest) + 1 = k
      BY <3>1
    <3>3. rest # <<>>
      BY <3>1, EmptySeq
    <3> QED BY <3>1, <3>2, <3>3
  <2> USE DEF rest, k
  <2> QED BY <1>1, <2>1 DEF Coming, LastAsked
<1>4. CASE Len(up[d]) = 1
  <2> DEFINE a == Say("added", d)
             b == Say("update", d)
             c == Say("snapshot", d)
             t == <<a, b, c>>
             n == Len(down)
  <2>1. up'[d] = <<>>
    <3>1. Len(Tail(up[d])) = 0
      BY <1>2, <1>4
    <3> QED BY <1>1, <1>2, <3>1, EmptySeq
  <2>2. down' = down \o t
    BY <1>2, <1>4 DEF ServiceAnswers, LastAsked
  <2>3. a \in Message /\ b \in Message /\ c \in Message
    BY <1>1, BoundsAssumption DEF Say, Message, Versions
  <2>4. b.type = "update" /\ b.doc = d /\ c.type = "snapshot"
    BY DEF Say
  <2>5. t \in Seq(Message) /\ Len(t) = 3 /\ t[2] = b /\ t[3] = c
    BY <2>3
  <2>6. /\ n \in Nat /\ Len(down') = n + 3
        /\ down'[n + 2] = b /\ down'[n + 3] = c
    <3> HIDE DEF t, a, b, c
    <3>1. /\ Len(down \o t) = n + Len(t) /\ n \in Nat
          /\ \A i \in 1..(n + Len(t)) : (down \o t)[i] = IF i <= n THEN down[i] ELSE t[i - n]
      BY <1>1, <2>5, ConcatProperties, LenProperties
    <3>2. n + 2 \in 1..(n + 3) /\ n + 3 \in 1..(n + 3) /\ ~(n + 2 <= n) /\ ~(n + 3 <= n)
          /\ n + 2 - n = 2 /\ n + 3 - n = 3
      BY <3>1
    <3> QED BY <2>2, <2>5, <3>1, <3>2
  <2> HIDE DEF t, a, b, c, n
  <2>7. \A j \in AnswersIn(down', d) : j < n + 2
    <3> SUFFICES ASSUME NEW j \in AnswersIn(down', d) PROVE j < n + 2
      OBVIOUS
    <3>1. j \in 1..(n + 3) /\ IsAnswer(down'[j], d)
      BY <2>6 DEF AnswersIn
    <3>2. ~IsAnswer(b, d) /\ ~IsAnswer(c, d)
      BY <2>4 DEF IsAnswer
    <3>3. j # n + 2 /\ j # n + 3
      BY <2>6, <3>1, <3>2
    <3> QED BY <2>6, <3>1, <3>3
  <2>8. n + 2 \in 1..(Len(down') - 1) /\ n + 2 + 1 = n + 3
    BY <2>6
  <2> QED BY <2>1, <2>4, <2>6, <2>7, <2>8 DEF Coming, UpdateComing
<1>5. Len(up[d]) > 1 \/ Len(up[d]) = 1
  <2> DEFINE k == Len(up[d])
  <2>1. k \in Nat \ {0}
    BY <1>2
  <2> HIDE DEF k
  <2>2. k > 1 \/ k = 1
    BY <2>1
  <2> QED BY <2>2 DEF k
<1> QED BY <1>3, <1>4, <1>5

LEMMA ServiceServed ==
  ASSUME Typed, Typed', Served, NEW d \in Docs, ServiceAnswers(d) \/ DocumentChanges(d)
  PROVE  Served'
<1> DEFINE a == Say("added", d)
           b == Say("update", d)
           c == Say("snapshot", d)
           r == Say("removed", d)
<1>1. /\ UNCHANGED <<targets, stream, current, online, pending, isCurrent>>
      /\ server' \in [Docs -> Versions] /\ targets \subseteq Docs
  BY DEF ServiceAnswers, DocumentChanges, tracker, aggregator, Typed, TypeOK
<1>2. a \in Message /\ b \in Message /\ c \in Message /\ r \in Message
  BY <1>1, BoundsAssumption DEF Say, Message, Versions
<1>3. /\ a.doc = d /\ r.doc = d /\ b.type = "update" /\ c.type = "snapshot"
  BY DEF Say
<1>4. \/ ServiceAnswers(d) /\ down' \in {down \o <<a, b, c>>, Append(down, r)}
      \/ DocumentChanges(d) /\ down' \in {down \o <<b, c>>, down}
  BY DEF ServiceAnswers, DocumentChanges
<1> HIDE DEF a, b, c, r
<1>5. PICK t \in Seq(Message) :
        /\ down' = down \o t
        /\ \A i \in 1..Len(t) : t[i] \in {a, b, c, r}
        /\ DocumentChanges(d) /\ ~ServiceAnswers(d) => \A i \in 1..Len(t) : t[i] \in {b, c}
  <2>1. down \in Seq(Message) /\ <<>> \in Seq(Message) /\ down \o <<>> = down
    BY ConcatEmptySeq, EmptySeq DEF Typed, TypeOK
  <2>2. <<a, b, c>> \in Seq(Message) /\ <<b, c>> \in Seq(Message) /\ <<r>> \in Seq(Message)
    BY <1>2
  <2>3. Append(down, r) = down \o <<r>>
    OBVIOUS
  <2>4. CASE down' = down \o <<a, b, c>> /\ ServiceAnswers(d)
    <3>1. \A i \in 1..Len(<<a, b, c>>) : <<a, b, c>>[i] \in {a, b, c, r}
      OBVIOUS
    <3> QED BY <2>2, <2>4, <3>1
  <2>5. CASE down' = Append(down, r) /\ ServiceAnswers(d)
    <3>1. \A i \in 1..Len(<<r>>) : <<r>>[i] \in {a, b, c, r}
      OBVIOUS
    <3> QED BY <2>2, <2>3, <2>5, <3>1
  <2>6. CASE down' = down \o <<b, c>> /\ DocumentChanges(d)
    <3>1. \A i \in 1..Len(<<b, c>>) : <<b, c>>[i] \in {b, c}
      OBVIOUS
    <3> QED BY <2>2, <2>6, <3>1
  <2>7. CASE down' = down /\ DocumentChanges(d)
    <3>1. \A i \in 1..Len(<<>>) : <<>>[i] \in {b, c}
      BY EmptySeq
    <3> QED BY <2>1, <2>7, <3>1
  <2> QED BY <1>4, <2>4, <2>5, <2>6, <2>7
<1>6. ASSUME NEW e \in targets, Coming(e) PROVE Coming(e)'
  <2>1. e \in Docs
    BY <1>1
  <2>2. CASE e # d
    <3>1. up'[e] = up[e]
      BY <2>1, <2>2 DEF ServiceAnswers, DocumentChanges, Typed, TypeOK
    <3>2. AnswersIn(t, e) = {}
      BY <1>3, <1>5, <2>2 DEF AnswersIn, IsAnswer
    <3> QED BY <1>1, <1>5, <1>6, <2>1, <3>1, <3>2, ComingKept
  <2>3. CASE e = d /\ ServiceAnswers(d)
    <3>1. LastAsked(d)
      BY <1>6, <2>3 DEF ServiceAnswers, Coming, UpdateComing, SnapshotComing
    <3> QED BY <2>3, <3>1, AnswerServed
  <2>4. CASE e = d /\ ~ServiceAnswers(d)
    <3>1. up'[e] = up[e]
      BY <2>4 DEF DocumentChanges
    <3>2. AnswersIn(t, e) = {}
      BY <1>3, <1>5, <2>4 DEF AnswersIn, IsAnswer
    <3> QED BY <1>1, <1>5, <1>6, <2>1, <3>1, <3>2, ComingKept
  <2> QED BY <2>2, <2>3, <2>4
<1> QED BY <1>1, <1>6 DEF Served, PendingIsCurrent, TargetsServed

LEMMA ServedKeeps == Typed /\ Typed' /\ Steady /\ Served /\ [Next]_vars => Served'
<1> SUFFICES ASSUME Typed, Typed', Steady, Served, [Next]_vars PROVE Served'
  OBVIOUS
<1>1. CASE UNCHANGED vars \/ \E g \in Gets : HandleEvent(g)
  <2>1. UNCHANGED <<stream, targets, current, online, up, down, pending, isCurrent>>
    BY <1>1 DEF vars, HandleEvent, tracker, aggregator, wire
  <2>2. targets \subseteq Docs
    BY DEF Typed, TypeOK
  <2> QED BY <2>1, <2>2, ComingSame DEF Served, PendingIsCurrent, TargetsServed
<1>2. CASE Callers
  BY <1>1, <1>2, GetServed, RemoveServed DEF Callers
<1>3. CASE Client
  BY <1>3, ConnectionServed, ReadServed DEF Client
<1>4. CASE Service
  BY <1>4, RefusedServed, ServiceServed DEF Service
<1> QED BY <1>1, <1>2, <1>3, <1>4 DEF Next

LEMMA AlwaysServed == Spec => [](Typed /\ Steady /\ Served)
<1>1. Init => Served
  BY DEF Init, Served, PendingIsCurrent, TargetsServed
<1> QED BY <1>1, ServedKeeps, AlwaysSteady, PTL DEF Spec

(* A caller of getDocument not told yet has an event dispatched to it, or  *)
(* a stream that is being started, or its document on its way in the       *)
(* stream.                                                                 *)
WaitsForSomething ==
  \A g \in DOMAIN doc : told[g] = 0 =>
    \/ events[g] # <<>>
    \/ stream \in {"Starting", "Backoff"}
    \/ stream = "Open" /\ Coming(doc[g])

(* After no failure, timeout, refusal or removal of another listener does  *)
(* a caller wait for nothing (SyncEngine::Listen, RemoteStore, WatchChange-*)
(* Aggregator).  With fairness this is why EveryGetAnswered.               *)
THEOREM CallersWaitForSomething == Spec => []WaitsForSomething
<1>1. Typed /\ Steady /\ Awaited /\ Served => WaitsForSomething
  <2> SUFFICES ASSUME Typed, Steady, Awaited, Served,
                      NEW g \in DOMAIN doc, told[g] = 0, events[g] = <<>>
               PROVE  \/ stream \in {"Starting", "Backoff"}
                      \/ stream = "Open" /\ Coming(doc[g])
    BY DEF WaitsForSomething
  <2>1. g \in listeners[doc[g]] /\ g \notin raised /\ doc[g] \in Docs
    BY LenProperties DEF Awaited, NotForgotten, Typed, TypeOK
  <2>2. doc[g] \in targets /\ IsStarted /\ ~current[doc[g]]
    BY <2>1 DEF Steady, TargetsAreListened, TargetsHaveStream, Awaited, NothingToRaise
  <2> QED BY <2>2 DEF IsStarted, Served, TargetsServed
<1> QED BY <1>1, AlwaysAwaited, AlwaysServed, PTL

===============================================================================
