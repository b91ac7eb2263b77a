------------------------- MODULE WritePipeline_proofs -------------------------
(***************************************************************************)
(* Proofs about WritePipeline, for every set of accounts, every size of    *)
(* the pipeline and every number of writes.  The inductive invariant says  *)
(* how the five copies of a batch fit together: on disk, in the pipeline,  *)
(* on the wire, in the service and in the callbacks.                       *)
(***************************************************************************)
EXTENDS WritePipeline, SequenceTheorems, TLAPS

(* Batch ids and writes increase along a queue, and an account's writes    *)
(* are no other account's.                                                 *)
Increasing(q) == \A i, j \in 1..Len(q) : i < j => q[i].id < q[j].id /\ q[i].no < q[j].no
QueuesOrdered ==
  /\ \A u \in Users : Increasing(queue[u])
  /\ \A u \in Users : \A i \in 1..Len(queue[u]) :
       queue[u][i].id < nextId /\ queue[u][i].no <= written
  /\ \A u, v \in Users : u # v =>
       \A i \in 1..Len(queue[u]) : \A j \in 1..Len(queue[v]) :
         queue[u][i].no # queue[v][j].no

(* What the state of the stream says of the wire and of the pipeline.      *)
CallShape ==
  /\ shake # "none" => stream = "Open"
  /\ stream = "Open" => shake # "none"
  /\ shake # "complete" => up = <<>> /\ down = <<>> /\ ~refusal /\ ~idle
  /\ IsStarted(stream) => enabled
  /\ ~enabled => pipeline = <<>>
  /\ IsStarted(stream) /\ shake # "complete" => pipeline # <<>>
  /\ idle => pipeline = <<>>

(* What the service has committed, and what of it is still queued.         *)
Attempt(u) == IF u = user THEN Len(down) ELSE 0
NoneCommitted(u) == \A i \in 1..Len(queue[u]) : queue[u][i].no \notin committed[u]
ServiceKnown ==
  /\ \A u \in Users : \A n \in committed[u] : n <= written
  /\ \A u, v \in Users : u # v => \A i \in 1..Len(queue[u]) :
       queue[u][i].no \notin committed[v]
  /\ \A i \in 1..Len(down) : down[i].no \in committed[user]
  /\ refusal => up # <<>> /\ Head(up).no \notin committed[user]

(* The service's value: the newest write committed, save while writes      *)
(* committed before a lost answer are still queued.                        *)
ValueNewest ==
  \A u \in Users :
    /\ Attempt(u) > 0 => value[u] = queue[u][Attempt(u)].no
    /\ \A n \in committed[u] : \A i \in 1..Len(queue[u]) :
         n < queue[u][i].no \/ \E j \in 1..Len(queue[u]) : n = queue[u][j].no
    /\ NoneCommitted(u) => \A n \in committed[u] : n <= value[u]

(* A callback is that of the batch with its id.                            *)
CallbacksOfQueued ==
  \A c \in callbacks : \E i \in 1..Len(queue[c.user]) :
    queue[c.user][i].id = c.id /\ queue[c.user][i].no = c.no
ToldKnown == \A t \in told : t[1] <= written

IInv ==
  /\ TypeOK /\ PipelineFollowsQueue /\ AnswersMatchPipeline /\ NoAssertFails
  /\ CallersToldTheTruth /\ WaitsAreForQueued
  /\ QueuesOrdered /\ CallShape /\ ServiceKnown /\ ValueNewest
  /\ CallbacksOfQueued /\ ToldKnown
-------------------------------------------------------------------------------
(* Sequences of batches *)

Prefix(p, q) == Len(p) <= Len(q) /\ \A i \in 1..Len(p) : p[i] = q[i]

LEMMA EmptyBatches == <<>> \in Seq(Batch) /\ Len(<<>>) = 0
  BY EmptySeq

LEMMA BatchOfSeq ==
  ASSUME NEW q \in Seq(Batch), NEW i \in 1..Len(q)
  PROVE  q[i] \in Batch /\ q[i].id \in Nat \ {0} /\ q[i].no \in 1..MaxWrites
<1>1. q[i] \in Batch
  BY ElementOfSeq
<1> QED BY <1>1 DEF Batch

LEMMA ConcatOfBatches ==
  ASSUME NEW r \in Seq(Batch), NEW s \in Seq(Batch), NEW t \in Seq(Batch)
  PROVE  (r \o s) \o t = r \o (s \o t)
BY ConcatAssociative

LEMMA HeadIsFirst ==
  ASSUME NEW q \in Seq(Batch), q # <<>>
  PROVE  Head(q) = q[1] /\ Len(q) \in Nat \ {0} /\ 1 \in 1..Len(q)
BY EmptySeq, LenProperties

(* Without its first batch, a queue is still in order.                     *)
LEMMA TailOfQueue ==
  ASSUME NEW q \in Seq(Batch), q # <<>>, Increasing(q)
  PROVE  /\ Tail(q) \in Seq(Batch) /\ Len(Tail(q)) = Len(q) - 1
         /\ \A i \in 1..Len(Tail(q)) : Tail(q)[i] = q[i + 1]
         /\ Increasing(Tail(q))
         /\ \A i \in 1..Len(Tail(q)) : q[1].id < Tail(q)[i].id /\ q[1].no < Tail(q)[i].no
<1>1. /\ Tail(q) \in Seq(Batch) /\ Len(Tail(q)) = Len(q) - 1
      /\ \A i \in 1..Len(Tail(q)) : Tail(q)[i] = q[i + 1]
  BY HeadTailProperties
<1>2. Len(q) \in Nat \ {0}
  BY HeadIsFirst
<1> QED BY <1>1, <1>2 DEF Increasing

(* Removing the batch of the first id removes the first.                   *)
LEMMA WithoutFirst ==
  ASSUME NEW q \in Seq(Batch), q # <<>>, Increasing(q)
  PROVE  Without(q, q[1].id) = Tail(q)
<1> DEFINE P(i) == q[i].id = q[1].id
           at == CHOOSE i \in 1..Len(q) : P(i)
<1>1. Len(q) \in Nat \ {0} /\ 1 \in 1..Len(q)
  BY HeadIsFirst
<1>2. \A i \in 1..Len(q) : q[i].id \in Nat
  BY BatchOfSeq
<1>3. P(1)
  OBVIOUS
<1>4. \A i \in 1..Len(q) : P(i) => i = 1
  BY <1>1, <1>2 DEF Increasing
<1>5. at = 1
  <2> HIDE DEF P
  <2> QED BY <1>1, <1>3, <1>4
<1>6. Without(q, q[1].id) = SubSeq(q, 1, at - 1) \o SubSeq(q, at + 1, Len(q))
  BY DEF Without
<1>7. SubSeq(q, 1, at - 1) = <<>> /\ SubSeq(q, at + 1, Len(q)) = Tail(q)
  <2>1. SubSeq(q, 1, 0) = <<>>
    BY SubSeqEmpty
  <2>2. SubSeq(q, 2, Len(q)) = Tail(q)
    BY TailIsSubSeq
  <2> HIDE DEF at
  <2> QED BY <1>5, <2>1, <2>2
<1>8. Tail(q) \in Seq(Batch)
  BY TailOfQueue
<1> HIDE DEF at
<1> QED BY <1>6, <1>7, <1>8, ConcatEmptySeq

(* What is added to a pipeline is what follows it in the queue.            *)
LEMMA ToAddFollows ==
  ASSUME NEW q \in Seq(Batch), Increasing(q), NEW pipe \in Seq(Batch),
         Prefix(pipe, q), Len(pipe) <= MaxPendingWrites
  PROVE  /\ ToAdd(q, pipe) \in Seq(Batch)
         /\ Len(pipe) + Len(ToAdd(q, pipe)) <= MaxPendingWrites
         /\ Len(pipe) + Len(ToAdd(q, pipe)) <= Len(q)
         /\ \A i \in 1..Len(ToAdd(q, pipe)) : ToAdd(q, pipe)[i] = q[Len(pipe) + i]
         /\ pipe = <<>> /\ q # <<>> => ToAdd(q, pipe) # <<>>
         /\ \/ Len(pipe) + Len(ToAdd(q, pipe)) = Len(q)
            \/ Len(pipe) + Len(ToAdd(q, pipe)) = MaxPendingWrites
<1> DEFINE n == Len(q)
           m == Len(pipe)
           until == m + MaxPendingWrites - m
           to == IF until < n THEN until ELSE n
<1>1. n \in Nat /\ m \in Nat /\ m <= n /\ MaxPendingWrites \in Nat \ {0}
  BY LenProperties, PipelineAssumption DEF Prefix
<1>2. \A i \in 1..n : q[i] \in Batch /\ q[i].id \in Nat
  BY BatchOfSeq
<1>3. Retrieved(q, pipe) = m
  <2>1. CASE pipe = <<>>
    BY <2>1, EmptyBatches DEF Retrieved
  <2>2. CASE pipe # <<>>
    <3>1. m \in 1..n /\ pipe[m] = q[m]
      BY <1>1, <2>2, EmptySeq DEF Prefix
    <3> DEFINE P(i) == \A j \in 1..n : (j <= i) <=> (q[j].id <= pipe[m].id)
    <3>2. P(m)
      BY <1>1, <1>2, <3>1 DEF Increasing
    <3>3. \A i \in 0..n : P(i) => i = m
      <4> SUFFICES ASSUME NEW i \in 0..n, P(i) PROVE i = m
        OBVIOUS
      <4>1. m <= i
        BY <1>1, <1>2, <3>1
      <4>2. CASE i > m
        <5>1. i \in 1..n /\ q[i].id <= q[m].id
          BY <1>1, <3>1, <4>2
        <5>2. q[m].id < q[i].id
          BY <1>1, <3>1, <4>2, <5>1 DEF Increasing
        <5> QED BY <1>2, <3>1, <5>1, <5>2
      <4> QED BY <1>1, <4>1, <4>2
    <3>4. Retrieved(q, pipe) = CHOOSE i \in 0..n : P(i)
      BY <2>2 DEF Retrieved
    <3>5. m \in 0..n
      BY <1>1
    <3> HIDE DEF P
    <3> QED BY <3>2, <3>3, <3>4, <3>5
  <2> QED BY <2>1, <2>2
<1>4. CASE m < MaxPendingWrites
  <2>1. ToAdd(q, pipe) = SubSeq(q, m + 1, to)
    BY <1>3, <1>4 DEF ToAdd
  <2>2. until = MaxPendingWrites /\ to \in Nat /\ to <= n /\ to <= MaxPendingWrites /\ m <= to
    BY <1>1, <1>4
  <2>3. /\ SubSeq(q, m + 1, to) \in Seq(Batch)
        /\ Len(SubSeq(q, m + 1, to)) = IF m + 1 <= to THEN to - (m + 1) + 1 ELSE 0
        /\ \A i \in 1..(to - (m + 1) + 1) : SubSeq(q, m + 1, to)[i] = q[m + 1 + i - 1]
    <3> HIDE DEF to
    <3>1. \A i \in m + 1 .. to : q[i] \in Batch
      BY <1>1, <1>2, <2>2
    <3>2. m + 1 \in Int /\ to \in Int
      BY <1>1, <2>2
    <3> QED BY <3>1, <3>2, SubSeqProperties
  <2>4. Len(ToAdd(q, pipe)) = to - m
    BY <1>1, <2>1, <2>2, <2>3
  <2>5. \A i \in 1..(to - m) : ToAdd(q, pipe)[i] = q[m + i]
    BY <1>1, <2>1, <2>2, <2>3
  <2>6. ASSUME pipe = <<>>, q # <<>> PROVE to > 0 /\ m = 0
    BY <1>1, <2>2, <2>6, EmptySeq
  <2>7. ASSUME pipe = <<>>, q # <<>> PROVE ToAdd(q, pipe) # <<>>
    <3>1. Len(ToAdd(q, pipe)) > 0
      BY <2>2, <2>4, <2>6, <2>7
    <3> QED BY <3>1, EmptyBatches
  <2>8. m + Len(ToAdd(q, pipe)) = n \/ m + Len(ToAdd(q, pipe)) = MaxPendingWrites
    BY <1>1, <2>2, <2>4
  <2> HIDE DEF to
  <2> QED BY <1>1, <2>1, <2>2, <2>3, <2>4, <2>5, <2>7, <2>8
<1>5. CASE ~(m < MaxPendingWrites)
  <2>1. ToAdd(q, pipe) = <<>>
    BY <1>5 DEF ToAdd
  <2>2. pipe # <<>>
    BY <1>1, <1>5, EmptyBatches
  <2>3. m = MaxPendingWrites /\ Len(<<>>) = 0 /\ <<>> \in Seq(Batch)
    BY <1>1, <1>5, EmptyBatches
  <2>4. m + Len(ToAdd(q, pipe)) = MaxPendingWrites
    BY <1>1, <2>1, <2>3
  <2>5. \A i \in 1..Len(ToAdd(q, pipe)) : ToAdd(q, pipe)[i] = q[m + i]
    BY <2>1, <2>3
  <2> QED BY <1>1, <2>1, <2>2, <2>3, <2>4, <2>5
<1> QED BY <1>4, <1>5

(* A filled pipeline is still the beginning of the queue.                  *)
LEMMA FilledIsPrefix ==
  ASSUME NEW q \in Seq(Batch), Increasing(q), NEW pipe \in Seq(Batch),
         Prefix(pipe, q), Len(pipe) <= MaxPendingWrites
  PROVE  /\ pipe \o ToAdd(q, pipe) \in Seq(Batch)
         /\ Prefix(pipe \o ToAdd(q, pipe), q)
         /\ Len(pipe \o ToAdd(q, pipe)) <= MaxPendingWrites
         /\ (pipe \o ToAdd(q, pipe) = <<>>) <=> (q = <<>>)
<1> DEFINE more == ToAdd(q, pipe)
           full == pipe \o more
<1>1. /\ more \in Seq(Batch)
      /\ Len(pipe) + Len(more) <= MaxPendingWrites
      /\ Len(pipe) + Len(more) <= Len(q)
      /\ \A i \in 1..Len(more) : more[i] = q[Len(pipe) + i]
      /\ pipe = <<>> /\ q # <<>> => more # <<>>
  BY ToAddFollows
<1>2. Len(pipe) \in Nat /\ Len(more) \in Nat /\ Len(q) \in Nat
  BY <1>1, LenProperties
<1> HIDE DEF more
<1>3. /\ full \in Seq(Batch) /\ Len(full) = Len(pipe) + Len(more)
      /\ \A i \in 1..Len(full) : full[i] = IF i <= Len(pipe) THEN pipe[i]
                                          ELSE more[i - Len(pipe)]
  BY <1>1, ConcatProperties
<1>4. Prefix(full, q)
  BY <1>1, <1>2, <1>3 DEF Prefix
<1>5. ASSUME full = <<>> PROVE q = <<>>
  <2>1. Len(pipe) = 0 /\ Len(more) = 0
    BY <1>2, <1>3, <1>5, EmptyBatches
  <2>2. pipe = <<>> /\ more = <<>>
    BY <1>1, <2>1, EmptySeq
  <2> QED BY <1>1, <2>2
<1>6. ASSUME q = <<>> PROVE full = <<>>
  <2>1. Len(full) = 0
    BY <1>2, <1>3, <1>4, <1>6, EmptyBatches DEF Prefix
  <2> QED BY <1>3, <2>1, EmptySeq
<1> QED BY <1>1, <1>3, <1>4, <1>5, <1>6 DEF more

(* The pipeline is filled from the beginning of the queue.                 *)
LEMMA FillEffect ==
  ASSUME up \in Seq(Batch), NEW q \in Seq(Batch), Increasing(q),
         NEW pipe \in Seq(Batch), Prefix(pipe, q), Len(pipe) <= MaxPendingWrites,
         NEW s \in StreamState, idle => pipe = <<>>, shake # "complete" => ~idle,
         FillWritePipeline(q, pipe, s)
  PROVE  /\ pipeline' \in Seq(Batch) /\ Prefix(pipeline', q)
         /\ Len(pipeline') <= MaxPendingWrites
         /\ (pipeline' = <<>>) <=> (q = <<>>)
         /\ stream' \in StreamState /\ idle' \in BOOLEAN /\ up' \in Seq(Batch)
         /\ IsStarted(s) => stream' = s
         /\ ~IsStarted(s) => /\ stream' # "Open"
                             /\ IsStarted(stream') => pipeline' # <<>>
         /\ s # "Open" => up' = <<>> /\ ~idle'
         /\ s = "Open" => /\ shake = "complete" => up' = up \o ToAdd(q, pipe)
                          /\ shake # "complete" => up' = up
         /\ idle' => pipeline' = <<>>
         /\ pipeline' = pipe \o ToAdd(q, pipe)
<1> DEFINE more == ToAdd(q, pipe)
<1>1. /\ pipe \o more \in Seq(Batch) /\ Prefix(pipe \o more, q)
      /\ Len(pipe \o more) <= MaxPendingWrites
      /\ (pipe \o more = <<>>) <=> (q = <<>>)
  BY FilledIsPrefix
<1>2. more \in Seq(Batch)
  BY ToAddFollows
<1> HIDE DEF more
<1>3. up \o more \in Seq(Batch) /\ <<>> \in Seq(Batch)
  BY <1>2, ConcatProperties, EmptySeq
<1>4. pipe = <<>> /\ more = <<>> => pipe \o more = <<>>
  BY <1>2, ConcatEmptySeq
<1>5. /\ pipeline' = pipe \o more
      /\ up' = IF s # "Open" THEN <<>>
               ELSE IF shake = "complete" THEN up \o more ELSE up
      /\ stream' = IF ~IsStarted(s) /\ pipe \o more # <<>> THEN Started(s) ELSE s
      /\ idle' \in BOOLEAN
      /\ idle' => s = "Open" /\ (pipe \o more = <<>> \/ (idle /\ ~(shake = "complete" /\ more # <<>>)))
  BY DEF FillWritePipeline, more
<1>6. idle' => pipeline' = <<>>
  <2>1. CASE ~idle' \/ pipe \o more = <<>>
    BY <1>5, <2>1
  <2>2. CASE idle' /\ pipe \o more # <<>> /\ shake = "complete"
    BY <1>4, <1>5, <2>2
  <2>3. CASE idle' /\ pipe \o more # <<>> /\ shake # "complete"
    BY <1>4, <1>5, <2>3
  <2> QED BY <2>1, <2>2, <2>3
<1>7. stream' \in StreamState /\ (IsStarted(s) => stream' = s)
  BY <1>5 DEF StreamState, Started
<1>8. ~IsStarted(s) => stream' # "Open" /\ (IsStarted(stream') => pipeline' # <<>>)
  BY <1>5 DEF StreamState, Started, IsStarted
<1>9. s = "Open" => /\ shake = "complete" => up' = up \o more
                    /\ shake # "complete" => up' = up
  BY <1>5
<1>10. up' \in Seq(Batch) /\ (s # "Open" => up' = <<>> /\ ~idle')
  BY <1>3, <1>5
<1> QED BY <1>1, <1>5, <1>6, <1>7, <1>8, <1>9, <1>10 DEF more

-------------------------------------------------------------------------------
(* Tasks that leave the disk, the callers and what is committed alone      *)

NetFrame ==
  /\ UNCHANGED <<disk, user, nextId, callers, service, failed>>
  /\ down' = down \/ down' = <<>>
  /\ refusal' => up' # <<>> /\ Head(up').no \notin committed[user]

LEMMA NetFrameKeeps ==
  ASSUME IInv, NetFrame
  PROVE  /\ NoAssertFails' /\ CallersToldTheTruth' /\ WaitsAreForQueued'
         /\ QueuesOrdered' /\ ServiceKnown' /\ ValueNewest'
         /\ CallbacksOfQueued' /\ ToldKnown'
<1> USE DEF NetFrame, disk, callers, service
<1>1. NoAssertFails' /\ WaitsAreForQueued' /\ CallbacksOfQueued' /\ ToldKnown'
  BY DEF IInv, NoAssertFails, WaitsAreForQueued, CallbacksOfQueued, ToldKnown
<1>2. CallersToldTheTruth'
  BY DEF IInv, CallersToldTheTruth
<1>3. QueuesOrdered'
  BY DEF IInv, QueuesOrdered
<1>4. ServiceKnown'
  <2>1. \A i \in 1..Len(down') : down'[i].no \in committed[user]
    BY EmptyBatches DEF IInv, ServiceKnown
  <2> QED BY <2>1 DEF IInv, ServiceKnown
<1>5. ValueNewest'
  <2>1. \A u \in Users : Attempt(u)' > 0 => Attempt(u)' = Attempt(u)
    BY EmptyBatches DEF Attempt
  <2>2. \A u \in Users : NoneCommitted(u)' => NoneCommitted(u)
    BY DEF NoneCommitted
  <2> QED BY <2>1, <2>2 DEF IInv, ValueNewest
<1> QED BY <1>1, <1>2, <1>3, <1>4, <1>5

(* The types such a task must restore itself.                              *)
LEMMA NetTypes ==
  ASSUME TypeOK, UNCHANGED <<disk, user, nextId, callers, service, failed>>,
         enabled' \in BOOLEAN, pipeline' \in Seq(Batch), stream' \in StreamState,
         shake' \in Handshake, idle' \in BOOLEAN, stale' \in BOOLEAN,
         up' \in Seq(Batch), down' \in Seq(Batch), refusal' \in BOOLEAN
  PROVE  TypeOK'
BY DEF TypeOK, disk, callers, service

(* The queue of an account, and the pipeline as its beginning.             *)
LEMMA QueueOf ==
  ASSUME IInv, NEW u \in Users
  PROVE  queue[u] \in Seq(Batch) /\ Increasing(queue[u])
BY DEF IInv, TypeOK, QueuesOrdered

LEMMA PipelineOf ==
  ASSUME IInv
  PROVE  /\ user \in Users /\ queue[user] \in Seq(Batch) /\ Increasing(queue[user])
         /\ pipeline \in Seq(Batch) /\ Prefix(pipeline, queue[user])
         /\ Len(pipeline) <= MaxPendingWrites
         /\ <<>> \in Seq(Batch) /\ Prefix(<<>>, queue[user]) /\ 0 <= MaxPendingWrites
<1>1. user \in Users /\ pipeline \in Seq(Batch)
  BY DEF IInv, TypeOK
<1>2. queue[user] \in Seq(Batch) /\ Increasing(queue[user])
  BY <1>1, QueueOf
<1>3. Len(queue[user]) \in Nat
  BY <1>2, LenProperties
<1> QED BY <1>1, <1>2, <1>3, EmptyBatches, PipelineAssumption
        DEF IInv, PipelineFollowsQueue, Prefix

(* The batches answered are the first of the account's queue.              *)
LEMMA AnswersInQueue ==
  ASSUME IInv, down # <<>> \/ up # <<>>
  PROVE  /\ stream = "Open" /\ shake = "complete" /\ pipeline = down \o up
         /\ Len(down) \in Nat /\ Len(up) \in Nat
         /\ Len(down) + Len(up) <= Len(queue[user])
         /\ \A i \in 1..Len(down) : down[i] = queue[user][i]
         /\ \A i \in 1..Len(up) : up[i] = queue[user][Len(down) + i]
<1>1. stream = "Open" /\ shake = "complete" /\ pipeline = down \o up
  BY DEF IInv, CallShape, AnswersMatchPipeline
<1>2. down \in Seq(Batch) /\ up \in Seq(Batch) /\ Len(down) \in Nat /\ Len(up) \in Nat
  BY LenProperties DEF IInv, TypeOK
<1>3. Len(pipeline) = Len(down) + Len(up)
      /\ \A i \in 1..Len(pipeline) : pipeline[i] =
           IF i <= Len(down) THEN down[i] ELSE up[i - Len(down)]
  BY <1>1, <1>2, ConcatProperties
<1>4. Len(pipeline) <= Len(queue[user])
      /\ \A i \in 1..Len(pipeline) : pipeline[i] = queue[user][i]
  BY DEF IInv, PipelineFollowsQueue
<1>5. ASSUME NEW i \in 1..Len(down) PROVE down[i] = queue[user][i]
  <2>1. i \in 1..Len(pipeline) /\ i <= Len(down)
    BY <1>2, <1>3
  <2> QED BY <1>3, <1>4, <2>1
<1>6. ASSUME NEW i \in 1..Len(up) PROVE up[i] = queue[user][Len(down) + i]
  <2>1. Len(down) + i \in 1..Len(pipeline) /\ ~(Len(down) + i <= Len(down))
        /\ Len(down) + i - Len(down) = i
    BY <1>2, <1>3
  <2> QED BY <1>3, <1>4, <2>1
<1> QED BY <1>1, <1>2, <1>3, <1>4, <1>5, <1>6

LEMMA AttemptInQueue ==
  ASSUME IInv, NEW u \in Users, Attempt(u) > 0
  PROVE  Attempt(u) \in 1..Len(queue[u]) /\ u = user /\ down # <<>>
<1>1. u = user /\ Len(down) > 0
  BY DEF Attempt
<1>2. down # <<>>
  BY <1>1, EmptyBatches
<1>3. Len(queue[user]) \in Nat
  BY PipelineOf, LenProperties
<1> QED BY <1>1, <1>2, <1>3, AnswersInQueue DEF Attempt

(* A pipeline filled afresh, the stream not being open.                    *)
LEMMA FreshFill ==
  ASSUME IInv, NEW u \in Users, NEW q \in Seq(Batch), Increasing(q),
         CallGone, FillWritePipeline(q, <<>>, "Initial"), enabled', queue'[u] = q, user' = u
  PROVE  /\ pipeline' \in Seq(Batch) /\ stream' \in StreamState /\ idle' \in BOOLEAN
         /\ up' = <<>> /\ down' = <<>> /\ ~refusal' /\ refusal' \in BOOLEAN
         /\ shake' = "none"
         /\ PipelineFollowsQueue' /\ AnswersMatchPipeline' /\ CallShape'
<1> DEFINE s == "Initial"
<1>1. Prefix(<<>>, q) /\ <<>> \in Seq(Batch) /\ Len(<<>>) <= MaxPendingWrites
  <2>1. Len(q) \in Nat
    BY LenProperties
  <2> QED BY <2>1, EmptyBatches, PipelineAssumption DEF Prefix
<1>2. s \in StreamState /\ ~IsStarted(s) /\ s # "Open" /\ up \in Seq(Batch)
  BY DEF StreamState, IsStarted, IInv, TypeOK
<1>3. shake # "complete" => ~idle
  BY DEF IInv, CallShape
<1>4. /\ pipeline' \in Seq(Batch) /\ Prefix(pipeline', q)
      /\ Len(pipeline') <= MaxPendingWrites
      /\ stream' \in StreamState /\ idle' \in BOOLEAN
      /\ stream' # "Open" /\ (IsStarted(stream') => pipeline' # <<>>)
      /\ up' = <<>> /\ ~idle'
  BY <1>1, <1>2, <1>3, FillEffect
<1>5. PipelineFollowsQueue'
  BY <1>4 DEF PipelineFollowsQueue, Prefix
<1> QED BY <1>4, <1>5 DEF CallGone, AnswersMatchPipeline, CallShape

LEMMA NetQed ==
  ASSUME IInv, NetFrame, TypeOK', PipelineFollowsQueue', AnswersMatchPipeline', CallShape'
  PROVE  IInv'
BY NetFrameKeeps DEF IInv

LEMMA ConnectivityKeeps == ASSUME IInv, ConnectivityChanges PROVE IInv'
<1> USE DEF ConnectivityChanges, RestartNetwork
<1>1. enabled' /\ user' = user /\ queue' = queue
  BY DEF disk
<1>2. /\ pipeline' \in Seq(Batch) /\ stream' \in StreamState /\ idle' \in BOOLEAN
      /\ up' = <<>> /\ down' = <<>> /\ ~refusal' /\ refusal' \in BOOLEAN
      /\ shake' = "none"
      /\ PipelineFollowsQueue' /\ AnswersMatchPipeline' /\ CallShape'
  BY <1>1, PipelineOf, FreshFill
<1>3. TypeOK'
  BY <1>1, <1>2, PipelineOf, NetTypes DEF IInv, TypeOK, Handshake
<1> QED BY <1>1, <1>2, <1>3, NetQed DEF NetFrame

(* Filling on, from a queue that may have grown, while the call goes on.    *)
LEMMA FillKeepsCall ==
  ASSUME IInv, enabled, enabled' = enabled, user' = user,
         NEW q \in Seq(Batch), Increasing(q), Prefix(pipeline, q), queue'[user] = q,
         UNCHANGED <<shake, down, refusal>>, FillWritePipeline(q, pipeline, stream)
  PROVE  /\ pipeline' \in Seq(Batch) /\ stream' \in StreamState /\ idle' \in BOOLEAN
         /\ up' \in Seq(Batch)
         /\ PipelineFollowsQueue' /\ AnswersMatchPipeline' /\ CallShape'
         /\ refusal' => up' # <<>> /\ Head(up') = Head(up)
<1>2. /\ up \in Seq(Batch) /\ down \in Seq(Batch) /\ stream \in StreamState
      /\ (idle => pipeline = <<>>) /\ (shake # "complete" => ~idle)
  BY DEF IInv, TypeOK, CallShape
<1> DEFINE more == ToAdd(q, pipeline)
<1>3. /\ pipeline' \in Seq(Batch) /\ Prefix(pipeline', q)
      /\ Len(pipeline') <= MaxPendingWrites
      /\ stream' \in StreamState /\ idle' \in BOOLEAN /\ up' \in Seq(Batch)
      /\ IsStarted(stream) => stream' = stream
      /\ ~IsStarted(stream) => stream' # "Open" /\ (IsStarted(stream') => pipeline' # <<>>)
      /\ stream # "Open" => up' = <<>> /\ ~idle'
      /\ stream = "Open" => /\ shake = "complete" => up' = up \o more
                            /\ shake # "complete" => up' = up
      /\ idle' => pipeline' = <<>>
      /\ pipeline' = pipeline \o more
  BY <1>2, PipelineOf, FillEffect
<1>4. more \in Seq(Batch)
  BY PipelineOf, ToAddFollows
<1> HIDE DEF more
<1>5. pipeline # <<>> => pipeline' # <<>>
  BY <1>3, <1>4, PipelineOf, ConcatEqualIffEmpty
<1>6. PipelineFollowsQueue'
  BY <1>3 DEF PipelineFollowsQueue, Prefix
<1>7. AnswersMatchPipeline'
  <2>1. SUFFICES ASSUME stream' = "Open", shake = "complete"
                 PROVE  pipeline' = down \o up'
    BY DEF AnswersMatchPipeline
  <2>2. stream = "Open"
    BY <1>3, <2>1 DEF IInv, CallShape
  <2>3. pipeline = down \o up /\ up' = up \o more
    BY <1>3, <2>1, <2>2 DEF IInv, AnswersMatchPipeline
  <2> QED BY <1>2, <1>3, <1>4, <2>3, ConcatAssociative
<1>8. CallShape'
  <2>1. stream' = "Open" <=> stream = "Open"
    BY <1>3 DEF IsStarted
  <2>2. shake # "complete" => up' = <<>> /\ ~idle'
    <3>1. CASE stream # "Open"
      BY <1>3, <3>1
    <3>2. CASE stream = "Open" /\ shake # "complete"
      <4>1. up' = <<>> /\ pipeline' # <<>>
        BY <1>3, <1>5, <3>2 DEF IInv, CallShape, IsStarted
      <4> QED BY <1>3, <4>1
    <3> QED BY <3>1, <3>2
  <2>3. IsStarted(stream') /\ shake' # "complete" => pipeline' # <<>>
    BY <1>3, <1>5 DEF IInv, CallShape
  <2> QED BY <1>3, <2>1, <2>2, <2>3 DEF IInv, CallShape
<1>9. refusal' => up' # <<>> /\ Head(up') = Head(up)
  <2>1. SUFFICES ASSUME refusal PROVE up' # <<>> /\ Head(up') = Head(up)
    OBVIOUS
  <2>2. up # <<>> /\ shake = "complete" /\ stream = "Open"
    BY <2>1 DEF IInv, ServiceKnown, CallShape
  <2>3. up' = up \o more
    BY <1>3, <2>2
  <2>4. up' # <<>>
    BY <1>2, <1>4, <2>2, <2>3, ConcatEqualIffEmpty
  <2>5. Len(up) \in Nat \ {0} /\ Len(more) \in Nat
    BY <1>2, <1>4, <2>2, HeadIsFirst, LenProperties
  <2>6. (up \o more)[1] = up[1]
    BY <1>2, <1>4, <2>5, ConcatProperties
  <2> QED BY <1>2, <1>3, <2>2, <2>3, <2>4, <2>6, HeadIsFirst
<1> QED BY <1>3, <1>6, <1>7, <1>8, <1>9

LEMMA EnableKeeps == ASSUME IInv, EnableNetwork PROVE IInv'
<1> USE DEF EnableNetwork
<1>1. CASE enabled
  <2>1. /\ pipeline' \in Seq(Batch) /\ stream' \in StreamState /\ idle' \in BOOLEAN
        /\ up' \in Seq(Batch)
        /\ PipelineFollowsQueue' /\ AnswersMatchPipeline' /\ CallShape'
        /\ refusal' => up' # <<>> /\ Head(up') = Head(up)
    <3>1. enabled' = enabled /\ user' = user /\ queue'[user] = queue[user]
      BY <1>1 DEF disk, IInv, TypeOK
    <3> QED BY <1>1, <3>1, PipelineOf, FillKeepsCall
  <2>2. TypeOK'
    BY <2>1, PipelineOf, NetTypes DEF IInv, TypeOK
  <2>3. NetFrame
    BY <2>1 DEF NetFrame, IInv, ServiceKnown
  <2> QED BY <2>1, <2>2, <2>3, NetQed
<1>2. CASE ~enabled
  <2>1. /\ pipeline = <<>> /\ stream \in StreamState /\ ~IsStarted(stream) /\ stream # "Open"
        /\ shake = "none" /\ down = <<>> /\ ~refusal /\ ~idle
    BY <1>2 DEF IInv, CallShape, IsStarted, TypeOK
  <2>2. /\ pipeline' \in Seq(Batch) /\ Prefix(pipeline', queue[user])
        /\ Len(pipeline') <= MaxPendingWrites
        /\ stream' \in StreamState /\ stream' # "Open"
        /\ IsStarted(stream') => pipeline' # <<>>
        /\ up' = <<>> /\ ~idle' /\ idle' \in BOOLEAN
    BY <2>1, PipelineOf, FillEffect DEF IInv, TypeOK
  <2>3. PipelineFollowsQueue'
    BY <2>2 DEF PipelineFollowsQueue, Prefix, disk
  <2>4. TypeOK'
    BY <2>2, PipelineOf, NetTypes DEF IInv, TypeOK
  <2>5. CallShape' /\ AnswersMatchPipeline' /\ NetFrame
    BY <2>1, <2>2 DEF CallShape, AnswersMatchPipeline, NetFrame
  <2> QED BY <2>3, <2>4, <2>5, NetQed
<1> QED BY <1>1, <1>2 DEF IInv, TypeOK

LEMMA DisableKeeps == ASSUME IInv, DisableNetwork PROVE IInv'
<1> USE DEF DisableNetwork, CallGone
<1>1. stream' \in StreamState /\ ~IsStarted(stream') /\ queue' = queue /\ user' = user
  BY DEF IInv, TypeOK, StreamState, IsStarted, disk
<1>2. TypeOK'
  BY <1>1, PipelineOf, NetTypes DEF IInv, TypeOK, Handshake
<1>3. PipelineFollowsQueue'
  BY <1>1, PipelineOf DEF PipelineFollowsQueue, Prefix
<1>4. CallShape' /\ AnswersMatchPipeline' /\ NetFrame
  BY <1>1 DEF CallShape, AnswersMatchPipeline, NetFrame, IsStarted
<1> QED BY <1>2, <1>3, <1>4, NetQed

LEMMA StreamTasksKeep ==
  ASSUME IInv,
         \/ CredentialsArrive \/ StaleCredentialsArrive \/ BackoffElapses
         \/ ServiceGreets \/ StreamFails
  PROVE  IInv'
<1>1. CASE CredentialsArrive
  <2> USE <1>1 DEF CredentialsArrive
  <2>1. TypeOK' /\ PipelineFollowsQueue'
    BY NetTypes DEF IInv, TypeOK, PipelineFollowsQueue, StreamState, Handshake, disk
  <2>2. CallShape' /\ AnswersMatchPipeline' /\ NetFrame
    BY DEF IInv, CallShape, AnswersMatchPipeline, NetFrame, IsStarted, ServiceKnown
  <2> QED BY <2>1, <2>2, NetQed
<1>2. CASE StaleCredentialsArrive
  <2> USE <1>2 DEF StaleCredentialsArrive, wire
  <2>1. TypeOK' /\ PipelineFollowsQueue'
    BY NetTypes DEF IInv, TypeOK, PipelineFollowsQueue, disk
  <2>2. CallShape' /\ AnswersMatchPipeline' /\ NetFrame
    BY DEF IInv, CallShape, AnswersMatchPipeline, NetFrame, IsStarted, ServiceKnown
  <2> QED BY <2>1, <2>2, NetQed
<1>3. CASE BackoffElapses
  <2> USE <1>3 DEF BackoffElapses, wire
  <2>1. TypeOK' /\ PipelineFollowsQueue'
    BY NetTypes DEF IInv, TypeOK, PipelineFollowsQueue, StreamState, disk
  <2>2. CallShape' /\ AnswersMatchPipeline' /\ NetFrame
    BY DEF IInv, CallShape, AnswersMatchPipeline, NetFrame, IsStarted, ServiceKnown
  <2> QED BY <2>1, <2>2, NetQed
<1>4. CASE ServiceGreets
  <2> USE <1>4 DEF ServiceGreets
  <2>1. TypeOK' /\ PipelineFollowsQueue'
    BY NetTypes DEF IInv, TypeOK, PipelineFollowsQueue, Handshake, disk
  <2>2. CallShape' /\ AnswersMatchPipeline' /\ NetFrame
    BY DEF IInv, CallShape, AnswersMatchPipeline, NetFrame, IsStarted, ServiceKnown
  <2> QED BY <2>1, <2>2, NetQed
<1>5. CASE StreamFails
  <2> USE <1>5 DEF StreamFails, CloseOnError, CallGone
  <2>1. TypeOK' /\ PipelineFollowsQueue'
    BY EmptyBatches, NetTypes
       DEF IInv, TypeOK, PipelineFollowsQueue, StreamState, Handshake, disk
  <2>2. CallShape' /\ AnswersMatchPipeline' /\ NetFrame
    BY DEF IInv, CallShape, AnswersMatchPipeline, NetFrame, IsStarted
  <2> QED BY <2>1, <2>2, NetQed
<1> QED BY <1>1, <1>2, <1>3, <1>4, <1>5

LEMMA IdleTimeoutKeeps == ASSUME IInv, IdleTimeout PROVE IInv'
<1> USE DEF IdleTimeout, CallGone
<1>1. pipeline = <<>>
  BY DEF IInv, CallShape
<1>2. /\ UNCHANGED <<disk, user, nextId, enabled, pipeline, stale, callers, service, failed>>
      /\ stream' = "Initial" /\ idle' = FALSE /\ up' = <<>> /\ CallGone
  BY <1>1 DEF HardAssert
<1>3. TypeOK' /\ PipelineFollowsQueue'
  BY <1>2, EmptyBatches, NetTypes
     DEF IInv, TypeOK, PipelineFollowsQueue, StreamState, Handshake, disk
<1>4. CallShape' /\ AnswersMatchPipeline' /\ NetFrame
  BY <1>1, <1>2 DEF IInv, CallShape, AnswersMatchPipeline, NetFrame, IsStarted
<1> QED BY <1>3, <1>4, NetQed

LEMMA HandshakeKeeps == ASSUME IInv, HandshakeCompletes PROVE IInv'
<1> USE DEF HandshakeCompletes
<1>1. /\ up = <<>> /\ down = <<>> /\ ~refusal /\ ~idle /\ pipeline # <<>>
      /\ up \o pipeline = pipeline /\ down' = <<>> /\ down' \o pipeline = pipeline
  BY PipelineOf, ConcatEmptySeq DEF IInv, CallShape, IsStarted
<1>2. TypeOK' /\ PipelineFollowsQueue'
  BY <1>1, NetTypes DEF IInv, TypeOK, PipelineFollowsQueue, Handshake, disk
<1>3. CallShape' /\ AnswersMatchPipeline' /\ NetFrame
  BY <1>1 DEF IInv, CallShape, AnswersMatchPipeline, NetFrame, IsStarted
<1> QED BY <1>2, <1>3, NetQed

LEMMA ServiceRefusesKeeps == ASSUME IInv, ServiceRefuses PROVE IInv'
<1> USE DEF ServiceRefuses
<1>1. TypeOK' /\ PipelineFollowsQueue'
  BY NetTypes DEF IInv, TypeOK, PipelineFollowsQueue, disk
<1>2. CallShape' /\ AnswersMatchPipeline' /\ NetFrame
  BY DEF IInv, CallShape, AnswersMatchPipeline, NetFrame, IsStarted
<1> QED BY <1>1, <1>2, NetQed

-------------------------------------------------------------------------------
(* Waits, accounts and restarts                                            *)

LEMMA WaitKeeps == ASSUME IInv, WaitForPendingWrites PROVE IInv'
<1> USE DEF WaitForPendingWrites, disk, wire, service
<1> DEFINE n == Len(queue[user])
<1>1. n \in 1..n /\ n \in Nat
  BY PipelineOf, EmptySeq
<1>2. queue[user][n].id \in Nat
  BY <1>1, PipelineOf, BatchOfSeq
<1>3. TypeOK'
  BY <1>2 DEF IInv, TypeOK
<1>4. WaitsAreForQueued'
  BY <1>1 DEF IInv, WaitsAreForQueued, InQueue
<1>5. /\ PipelineFollowsQueue' /\ AnswersMatchPipeline' /\ NoAssertFails'
      /\ CallersToldTheTruth' /\ QueuesOrdered' /\ CallShape' /\ CallbacksOfQueued'
      /\ ToldKnown'
  BY DEF IInv, PipelineFollowsQueue, AnswersMatchPipeline, NoAssertFails,
         CallersToldTheTruth, QueuesOrdered, CallShape, CallbacksOfQueued, ToldKnown
<1>6. ServiceKnown' /\ ValueNewest'
  BY DEF IInv, ServiceKnown, ValueNewest, Attempt, NoneCommitted
<1> QED BY <1>3, <1>4, <1>5, <1>6 DEF IInv

(* A batch id loaded from the disk is above every id there.                *)
LEMMA NextIdAbove ==
  ASSUME IInv, NEW n \in Nat, IsNextBatchId(n, queue)
  PROVE  \A u \in Users : \A i \in 1..Len(queue[u]) : queue[u][i].id < n
<1> SUFFICES ASSUME NEW u \in Users, NEW i \in 1..Len(queue[u])
             PROVE  queue[u][i].id < n
  OBVIOUS
<1> DEFINE m == Len(queue[u])
<1>1. m \in Nat /\ i \in 1..m /\ m \in 1..m /\ queue[u] # <<>>
  BY QueueOf, LenProperties, EmptyBatches
<1>2. queue[u][m].id < n
  BY <1>1 DEF IsNextBatchId
<1>3. queue[u][i].id \in Nat /\ queue[u][m].id \in Nat
  BY <1>1, QueueOf, BatchOfSeq
<1>4. i = m \/ queue[u][i].id < queue[u][m].id
  BY <1>1, QueueOf DEF Increasing
<1> QED BY <1>2, <1>3, <1>4

(* What holds of the disk and the service when the call, the batch ids and *)
(* the account may be others.                                              *)
LEMMA CallGoneKeeps ==
  ASSUME IInv, UNCHANGED <<disk, service, failed>>, CallGone, nextId' \in Nat,
         nextId' = nextId \/ IsNextBatchId(nextId', queue)
  PROVE  QueuesOrdered' /\ ServiceKnown' /\ ValueNewest' /\ NoAssertFails'
<1> USE DEF disk, service, CallGone
<1>1. \A u \in Users : \A i \in 1..Len(queue[u]) : queue[u][i].id < nextId'
  BY NextIdAbove DEF IInv, QueuesOrdered
<1>2. QueuesOrdered'
  BY <1>1 DEF IInv, QueuesOrdered
<1>3. ServiceKnown' /\ NoAssertFails'
  BY EmptyBatches DEF IInv, ServiceKnown, NoAssertFails
<1>4. ValueNewest'
  <2>1. \A u \in Users : Attempt(u)' = 0 /\ (NoneCommitted(u)' => NoneCommitted(u))
    BY EmptyBatches DEF Attempt, NoneCommitted
  <2> QED BY <2>1 DEF IInv, ValueNewest
<1> QED BY <1>2, <1>3, <1>4

LEMMA AccountKeeps ==
  ASSUME IInv, NEW u \in Users, HandleCredentialChange(u) PROVE IInv'
<1> USE DEF HandleCredentialChange
<1>1. nextId' \in Nat \ {0} /\ (nextId' = nextId \/ IsNextBatchId(nextId', queue))
  BY PipelineAssumption DEF IInv, TypeOK
<1>2. waits' \subseteq Nat /\ WaitsAreForQueued'
  BY DEF IInv, TypeOK, WaitsAreForQueued, InQueue, disk
<1>3. CallersToldTheTruth' /\ CallbacksOfQueued' /\ ToldKnown'
  BY DEF IInv, CallersToldTheTruth, CallbacksOfQueued, ToldKnown, disk, service
<1>4. CASE enabled
  <2>1. /\ CallGone /\ FillWritePipeline(queue[u], <<>>, "Initial") /\ enabled'
        /\ stale' \in BOOLEAN
    BY <1>4 DEF RestartNetwork, IInv, TypeOK
  <2>2. queue' = queue /\ queue[u] \in Seq(Batch) /\ Increasing(queue[u])
    BY QueueOf DEF disk
  <2>3. /\ pipeline' \in Seq(Batch) /\ stream' \in StreamState /\ idle' \in BOOLEAN
        /\ up' = <<>> /\ down' = <<>> /\ ~refusal' /\ refusal' \in BOOLEAN
        /\ shake' = "none"
        /\ PipelineFollowsQueue' /\ AnswersMatchPipeline' /\ CallShape'
    BY <2>1, <2>2, FreshFill
  <2>4. TypeOK'
    BY <1>1, <1>2, <2>1, <2>3, EmptyBatches DEF IInv, TypeOK, Handshake, disk, service
  <2>5. QueuesOrdered' /\ ServiceKnown' /\ ValueNewest' /\ NoAssertFails'
    BY <1>1, <2>1, CallGoneKeeps
  <2> QED BY <1>2, <1>3, <2>3, <2>4, <2>5 DEF IInv
<1>5. CASE ~enabled
  <2>1. /\ pipeline = <<>> /\ stream # "Open" /\ shake = "none"
        /\ up = <<>> /\ down = <<>> /\ ~refusal
        /\ UNCHANGED <<enabled, pipeline, stream, idle, stale, shake, up, down, refusal>>
    BY <1>5 DEF IInv, CallShape, IsStarted, wire
  <2>2. TypeOK'
    BY <1>1, <1>2, <2>1 DEF IInv, TypeOK, disk, service
  <2>3. PipelineFollowsQueue'
    <3>1. Len(queue[u]) \in Nat /\ queue' = queue
      BY QueueOf, LenProperties DEF disk
    <3> QED BY <2>1, <3>1, EmptyBatches, PipelineAssumption DEF PipelineFollowsQueue
  <2>4. AnswersMatchPipeline' /\ CallShape'
    BY <1>5, <2>1 DEF IInv, AnswersMatchPipeline, CallShape, IsStarted
  <2>5. CallGone
    BY <2>1 DEF CallGone, IInv, TypeOK
  <2>6. QueuesOrdered' /\ ServiceKnown' /\ ValueNewest' /\ NoAssertFails'
    BY <1>1, <2>5, CallGoneKeeps
  <2> QED BY <1>2, <1>3, <2>2, <2>3, <2>4, <2>6 DEF IInv
<1> QED BY <1>4, <1>5 DEF IInv, TypeOK

(* A caller told of the front just before the process dies: committed.     *)
LEMMA FrontCommitted ==
  ASSUME IInv, stream = "Open", shake = "complete", down # <<>>
  PROVE  /\ pipeline # <<>> /\ queue[user] # <<>>
         /\ Head(pipeline) = queue[user][1] /\ Head(down) = Head(pipeline)
         /\ Head(pipeline).no \in committed[user]
<1>1. pipeline = down \o up /\ up \in Seq(Batch) /\ down \in Seq(Batch)
  BY DEF IInv, AnswersMatchPipeline, TypeOK
<1>2. Len(down) \in Nat \ {0} /\ Len(up) \in Nat
  BY <1>1, EmptySeq, LenProperties
<1>3. pipeline # <<>> /\ pipeline[1] = down[1] /\ Len(pipeline) = Len(down) + Len(up)
  BY <1>1, <1>2, ConcatProperties, ConcatEqualIffEmpty
<1>4. down[1].no \in committed[user]
  BY <1>2 DEF IInv, ServiceKnown
<1>5. Len(pipeline) <= Len(queue[user]) /\ pipeline[1] = queue[user][1]
  BY <1>2, <1>3 DEF IInv, PipelineFollowsQueue
<1>6. queue[user] # <<>>
  BY <1>2, <1>3, <1>5, EmptyBatches
<1>7. Head(pipeline) = pipeline[1] /\ Head(down) = down[1]
  BY <1>1, <1>3, PipelineOf, HeadIsFirst
<1> QED BY <1>3, <1>4, <1>5, <1>6, <1>7

(* The callback of a batch id of the account is the one of that batch.     *)
LEMMA NotifiedIsFront ==
  ASSUME IInv, NEW c \in ToNotify(queue[user][1].id), queue[user] # <<>>
  PROVE  c.no = queue[user][1].no /\ c \in Callback
<1>1. c \in callbacks /\ c.user = user /\ c.id = queue[user][1].id /\ c \in Callback
  BY DEF ToNotify, IInv, TypeOK
<1>2. PICK i \in 1..Len(queue[user]) :
        queue[user][i].id = c.id /\ queue[user][i].no = c.no
  BY <1>1 DEF IInv, CallbacksOfQueued
<1>3. Len(queue[user]) \in Nat /\ 1 \in 1..Len(queue[user])
  BY <1>2, PipelineOf, LenProperties
<1>4. i = 1
  <2>1. queue[user][1].id \in Nat /\ queue[user][i].id \in Nat
    BY <1>3, PipelineOf, BatchOfSeq
  <2> QED BY <1>1, <1>2, <1>3, <2>1, PipelineOf DEF Increasing
<1> QED BY <1>1, <1>2, <1>4

LEMMA RestartKeeps == ASSUME IInv, Restart PROVE IInv'
<1> USE DEF Restart
<1>1. nextId' \in Nat \ {0} /\ IsNextBatchId(nextId', queue) /\ nextId' \in Nat
  BY PipelineAssumption
<1>2. /\ queue' = queue /\ user' = user /\ enabled'
      /\ queue[user] \in Seq(Batch) /\ Increasing(queue[user]) /\ user \in Users
  BY PipelineOf DEF disk
<1>3. /\ pipeline' \in Seq(Batch) /\ stream' \in StreamState /\ idle' \in BOOLEAN
      /\ up' = <<>> /\ down' = <<>> /\ ~refusal' /\ refusal' \in BOOLEAN
      /\ shake' = "none"
      /\ PipelineFollowsQueue' /\ AnswersMatchPipeline' /\ CallShape'
  BY <1>2, FreshFill
<1>4. QueuesOrdered' /\ ServiceKnown' /\ ValueNewest' /\ NoAssertFails'
  BY <1>1, CallGoneKeeps
<1>5. WaitsAreForQueued' /\ CallbacksOfQueued'
  BY DEF WaitsAreForQueued, CallbacksOfQueued
<1>6. \A t \in told' : t \in told \/ \E n \in 1..MaxWrites :
        t = <<n, "ok">> /\ n \in committed[user] /\ n <= written
  <2>1. SUFFICES ASSUME NEW t \in told', t \notin told
        PROVE \E n \in 1..MaxWrites :
                t = <<n, "ok">> /\ n \in committed[user] /\ n <= written
    OBVIOUS
  <2>2. /\ stream = "Open" /\ shake = "complete" /\ down # <<>>
        /\ \E c \in ToNotify(Head(pipeline).id) : t = <<c.no, "ok">>
    BY <2>1
  <2>3. PICK c \in ToNotify(Head(pipeline).id) : t = <<c.no, "ok">>
    BY <2>2
  <2>4. /\ Head(pipeline) = queue[user][1] /\ Head(pipeline).no \in committed[user]
        /\ queue[user] # <<>>
    BY <2>2, FrontCommitted
  <2>5. c.no = Head(pipeline).no /\ c \in Callback
    BY <2>3, <2>4, NotifiedIsFront
  <2>6. c.no \in 1..MaxWrites
    BY <2>5 DEF Callback
  <2>7. c.no <= written
    BY <1>2, <2>4, <2>5 DEF IInv, ServiceKnown
  <2> QED BY <2>3, <2>4, <2>5, <2>6, <2>7
<1>7. told' \subseteq (1..MaxWrites) \X {"ok", "error"} /\ ToldKnown'
  BY <1>6 DEF IInv, TypeOK, ToldKnown, disk
<1>8. CallersToldTheTruth'
  BY <1>2, <1>6 DEF IInv, CallersToldTheTruth, service
<1>9. TypeOK'
  BY <1>1, <1>2, <1>3, <1>7, EmptyBatches DEF IInv, TypeOK, Handshake, disk, service
<1> QED BY <1>3, <1>4, <1>5, <1>7, <1>8, <1>9 DEF IInv

-------------------------------------------------------------------------------
(* A new write                                                             *)

LEMMA WriteKeeps == ASSUME IInv, WriteMutations PROVE IInv'
<1> USE DEF WriteMutations
<1> DEFINE new == [id |-> nextId, no |-> written + 1]
           q == Append(queue[user], new)
           n == Len(queue[user])
<1>1. /\ written \in Nat /\ written + 1 \in 1..MaxWrites /\ new \in Batch
      /\ nextId \in Nat \ {0} /\ nextId + 1 \in Nat \ {0} /\ user \in Users
  BY PipelineAssumption DEF IInv, TypeOK, Batch
<1>2. n \in Nat /\ \A i \in 1..n : /\ queue[user][i].id < nextId
                                   /\ queue[user][i].no <= written
                                   /\ queue[user][i] \in Batch
  BY <1>1, PipelineOf, LenProperties, BatchOfSeq DEF IInv, QueuesOrdered
<1>3. /\ q \in Seq(Batch) /\ Len(q) = n + 1 /\ q[n + 1] = new
      /\ \A i \in 1..n : q[i] = queue[user][i]
  BY <1>1, PipelineOf, AppendProperties
<1>4. queue' = [queue EXCEPT ![user] = q] /\ queue' \in [Users -> Seq(Batch)]
  BY <1>3 DEF IInv, TypeOK
<1>5. queue'[user] = q /\ \A u \in Users : u # user => queue'[u] = queue[u]
  BY <1>1, <1>4 DEF IInv, TypeOK
<1>6. callbacks' \subseteq callbacks \cup {[user |-> user, id |-> nextId, no |-> written + 1]}
  OBVIOUS
<1>7. UNCHANGED <<user, enabled, stale, shake, down, refusal, waits, told, committed, value, failed>>
  BY DEF service
<1>8. written' = written + 1 /\ nextId' = nextId + 1
  OBVIOUS
<1>9. enabled => FillWritePipeline(q, pipeline, stream)
  OBVIOUS
<1>10. ~enabled => UNCHANGED <<pipeline, up, idle, stream>>
  OBVIOUS
<1> HIDE DEF WriteMutations, q, new
<1>11. \A i, j \in 1..n : i < j => queue[user][i].id < queue[user][j].id /\ queue[user][i].no < queue[user][j].no
  BY PipelineOf DEF Increasing
<1>12. new.id = nextId /\ new.no = written + 1
  BY DEF new
<1>13. Increasing(q)
  <2> SUFFICES ASSUME NEW i \in 1..(n + 1), NEW j \in 1..(n + 1), i < j
               PROVE  q[i].id < q[j].id /\ q[i].no < q[j].no
    BY <1>3 DEF Increasing
  <2>1. i \in 1..n /\ q[i] = queue[user][i] /\ q[i].no \in Nat
    <3>1. i \in 1..n
      BY <1>2
    <3>2. queue[user][i].no \in 1..MaxWrites
      BY <3>1, PipelineOf, BatchOfSeq
    <3> QED BY <1>3, <3>1, <3>2
  <2>2. CASE j \in 1..n
    BY <1>3, <1>11, <2>1, <2>2
  <2>3. CASE j = n + 1
    BY <1>1, <1>2, <1>3, <1>12, <2>1, <2>3
  <2> QED BY <1>2, <2>2, <2>3
<1>14. Prefix(pipeline, q)
  BY <1>2, <1>3, PipelineOf, LenProperties DEF Prefix
<1>15. \A u \in Users : \A i \in 1..Len(queue'[u]) :
         \/ i \in 1..Len(queue[u]) /\ queue'[u][i] = queue[u][i]
         \/ u = user /\ i = n + 1 /\ queue'[u][i] = new
  BY <1>2, <1>3, <1>5
<1>16. \A u \in Users : \A i \in 1..Len(queue[u]) :
         i \in 1..Len(queue'[u]) /\ queue'[u][i] = queue[u][i]
  BY <1>2, <1>3, <1>5
<1>17. QueuesOrdered'
  <2>1. \A u \in Users : Increasing(queue'[u])
    BY <1>5, <1>13 DEF IInv, QueuesOrdered
  <2>2. \A u \in Users : \A i \in 1..Len(queue[u]) :
          /\ queue[u][i].id < nextId /\ queue[u][i].no <= written
          /\ queue[u][i].id \in Nat /\ queue[u][i].no \in Nat
    BY QueueOf, BatchOfSeq DEF IInv, QueuesOrdered
  <2>3. \A u \in Users : \A i \in 1..Len(queue'[u]) :
          queue'[u][i].id < nextId' /\ queue'[u][i].no <= written'
    BY <1>1, <1>8, <1>12, <1>15, <2>2
  <2>4. \A u, v \in Users : u # v =>
          \A i \in 1..Len(queue'[u]) : \A j \in 1..Len(queue'[v]) :
            queue'[u][i].no # queue'[v][j].no
    <3> SUFFICES ASSUME NEW u \in Users, NEW v \in Users, u # v,
                        NEW i \in 1..Len(queue'[u]), NEW j \in 1..Len(queue'[v])
                 PROVE  queue'[u][i].no # queue'[v][j].no
      OBVIOUS
    <3>1. CASE i \in 1..Len(queue[u]) /\ j \in 1..Len(queue[v])
                /\ queue'[u][i] = queue[u][i] /\ queue'[v][j] = queue[v][j]
      BY <3>1 DEF IInv, QueuesOrdered
    <3>2. CASE u = user /\ queue'[u][i] = new
      <4>1. j \in 1..Len(queue[v]) /\ queue'[v][j] = queue[v][j]
        BY <1>15, <3>2
      <4>2. queue'[v][j].no <= written /\ queue'[v][j].no \in Nat
        BY <2>2, <4>1
      <4>3. queue'[u][i].no = written + 1
        BY <1>12, <3>2
      <4> QED BY <1>1, <4>2, <4>3
    <3>3. CASE v = user /\ queue'[v][j] = new
      <4>1. i \in 1..Len(queue[u]) /\ queue'[u][i] = queue[u][i]
        BY <1>15, <3>3
      <4>2. queue'[u][i].no <= written /\ queue'[u][i].no \in Nat
        BY <2>2, <4>1
      <4>3. queue'[v][j].no = written + 1
        BY <1>12, <3>3
      <4> QED BY <1>1, <4>2, <4>3
    <3> QED BY <1>15, <3>1, <3>2, <3>3
  <2> QED BY <2>1, <2>3, <2>4 DEF QueuesOrdered
<1>18. /\ pipeline' \in Seq(Batch) /\ stream' \in StreamState /\ idle' \in BOOLEAN
       /\ up' \in Seq(Batch)
       /\ PipelineFollowsQueue' /\ AnswersMatchPipeline' /\ CallShape'
       /\ refusal' => up' # <<>> /\ Head(up') = Head(up)
  <2>1. CASE enabled
    BY <1>3, <1>5, <1>7, <1>9, <1>13, <1>14, <2>1, FillKeepsCall
  <2>2. CASE ~enabled
    <3>1. PipelineFollowsQueue'
      BY <1>5, <1>7, <1>10, <1>14, <2>2, PipelineOf DEF PipelineFollowsQueue, Prefix
    <3> QED BY <1>7, <1>10, <2>2, <3>1
            DEF IInv, TypeOK, AnswersMatchPipeline, CallShape, IsStarted, ServiceKnown
  <2> QED BY <2>1, <2>2
<1>19. callbacks' \subseteq Callback /\ CallbacksOfQueued'
  <2>1. [user |-> user, id |-> nextId, no |-> written + 1] \in Callback
    BY <1>1 DEF Callback
  <2>2. \A c \in callbacks : c \in Callback /\ c.user \in Users
    BY DEF IInv, TypeOK, Callback
  <2>3. ASSUME NEW c \in callbacks'
        PROVE \E i \in 1..Len(queue'[c.user]) :
                queue'[c.user][i].id = c.id /\ queue'[c.user][i].no = c.no
    <3>1. CASE c \in callbacks
      BY <1>16, <2>2, <3>1 DEF IInv, CallbacksOfQueued
    <3>2. CASE c = [user |-> user, id |-> nextId, no |-> written + 1]
      <4>1. n + 1 \in 1..Len(queue'[user]) /\ queue'[user][n + 1] = new
        BY <1>2, <1>3, <1>5
      <4> QED BY <1>12, <3>2, <4>1
    <3> QED BY <1>6, <3>1, <3>2
  <2> QED BY <1>6, <2>1, <2>2, <2>3 DEF CallbacksOfQueued
<1>20. TypeOK'
  BY <1>1, <1>4, <1>7, <1>8, <1>18, <1>19 DEF IInv, TypeOK
<1>21. NoAssertFails' /\ WaitsAreForQueued' /\ ToldKnown'
  <2>1. \A t \in told : t[1] \in Nat
    BY DEF IInv, TypeOK
  <2> QED BY <1>1, <1>7, <1>8, <1>16, <2>1
          DEF IInv, NoAssertFails, WaitsAreForQueued, InQueue, ToldKnown
<1>22. CallersToldTheTruth'
  <2>1. <<written + 1, "error">> \notin told
    <3>1. \A m : <<m, "error">> \in told => m <= written
      BY DEF IInv, ToldKnown
    <3> QED BY <1>1, <3>1
  <2> QED BY <1>7, <1>12, <1>15, <2>1 DEF IInv, CallersToldTheTruth
<1>23. ServiceKnown'
  <2>1. \A u \in Users : \A m \in committed[u] : m \in Nat /\ m <= written
    BY DEF IInv, TypeOK, ServiceKnown
  <2>2. \A u \in Users : \A m \in committed[u] : m <= written + 1 /\ m # written + 1
    BY <1>1, <2>1
  <2>3. \A u, v \in Users : u # v => \A i \in 1..Len(queue'[u]) :
          queue'[u][i].no \notin committed[v]
    BY <1>12, <1>15, <2>2 DEF IInv, ServiceKnown
  <2> QED BY <1>7, <1>8, <1>18, <2>2, <2>3 DEF IInv, ServiceKnown
<1>24. ValueNewest'
  <2>1. \A u \in Users : Attempt(u)' = Attempt(u) /\ (NoneCommitted(u)' => NoneCommitted(u))
    BY <1>7, <1>16 DEF Attempt, NoneCommitted
  <2>2. \A u \in Users : Attempt(u) > 0 => Attempt(u) \in 1..Len(queue[u])
    BY AttemptInQueue
  <2>3. \A u \in Users : \A m \in committed[u] : m \in Nat /\ m < written + 1
    BY <1>1 DEF IInv, TypeOK, ServiceKnown
  <2>4. \A u \in Users : Attempt(u)' > 0 => value'[u] = queue'[u][Attempt(u)'].no
    BY <1>7, <1>16, <2>1, <2>2 DEF IInv, ValueNewest
  <2>5. \A u \in Users : \A m \in committed'[u] : \A i \in 1..Len(queue'[u]) :
          m < queue'[u][i].no \/ \E j \in 1..Len(queue'[u]) : m = queue'[u][j].no
    BY <1>7, <1>12, <1>15, <1>16, <2>3 DEF IInv, ValueNewest
  <2>6. \A u \in Users : NoneCommitted(u)' => \A m \in committed'[u] : m <= value'[u]
    BY <1>7, <2>1 DEF IInv, ValueNewest
  <2> QED BY <2>4, <2>5, <2>6 DEF ValueNewest
<1> QED BY <1>17, <1>18, <1>19, <1>20, <1>21, <1>22, <1>23, <1>24 DEF IInv

-------------------------------------------------------------------------------
(* The service commits the next batch sent                                 *)

LEMMA CommitKeeps == ASSUME IInv, ServiceCommits PROVE IInv'
<1> USE DEF ServiceCommits
<1> DEFINE b == Head(up)
           k == Len(down) + 1
<1>1. /\ stream = "Open" /\ shake = "complete" /\ pipeline = down \o up
      /\ Len(down) \in Nat /\ Len(up) \in Nat
      /\ Len(down) + Len(up) <= Len(queue[user])
      /\ \A i \in 1..Len(down) : down[i] = queue[user][i]
      /\ \A i \in 1..Len(up) : up[i] = queue[user][Len(down) + i]
  BY AnswersInQueue
<1>2. /\ up \in Seq(Batch) /\ down \in Seq(Batch) /\ up # <<>> /\ user \in Users
      /\ Len(queue[user]) \in Nat
  BY PipelineOf, LenProperties DEF IInv, TypeOK
<1>3. /\ b \in Batch /\ Tail(up) \in Seq(Batch) /\ Len(Tail(up)) = Len(up) - 1
      /\ \A i \in 1..Len(Tail(up)) : Tail(up)[i] = up[i + 1]
      /\ b = up[1] /\ Len(up) \in Nat \ {0}
  BY <1>2, HeadTailProperties, HeadIsFirst
<1>4. k \in 1..Len(queue[user]) /\ b = queue[user][k]
  BY <1>1, <1>2, <1>3
<1>5. /\ down' = Append(down, b) /\ down' \in Seq(Batch) /\ Len(down') = k
      /\ \A i \in 1..Len(down) : down'[i] = down[i]
      /\ down'[k] = b
  BY <1>2, <1>3, AppendProperties
<1>6. b.no \in 1..MaxWrites /\ b.no <= written /\ b.no \in Nat
  BY <1>2, <1>4, QueueOf, BatchOfSeq DEF IInv, QueuesOrdered
<1>7. /\ committed' = [committed EXCEPT ![user] = @ \cup {b.no}]
      /\ value' = [value EXCEPT ![user] = b.no]
      /\ up' = Tail(up) /\ ~refusal'
      /\ UNCHANGED <<disk, user, nextId, enabled, pipeline, stream, idle, stale,
                     shake, refusal, callers, failed>>
  OBVIOUS
<1> HIDE DEF ServiceCommits, b, k
<1>8. /\ \A u \in Users : committed'[u] = IF u = user THEN committed[u] \cup {b.no} ELSE committed[u]
      /\ \A u \in Users : value'[u] = IF u = user THEN b.no ELSE value[u]
      /\ committed' \in [Users -> SUBSET (1..MaxWrites)]
      /\ value' \in [Users -> 0..MaxWrites]
  <2>1. committed \in [Users -> SUBSET (1..MaxWrites)] /\ value \in [Users -> 0..MaxWrites]
    BY DEF IInv, TypeOK
  <2>2. b.no \in 0..MaxWrites
    BY <1>6
  <2>3. value' \in [Users -> 0..MaxWrites]
    BY <1>7, <2>1, <2>2
  <2>4. committed[user] \cup {b.no} \in SUBSET (1..MaxWrites)
    BY <1>2, <1>6, <2>1
  <2>5. committed' \in [Users -> SUBSET (1..MaxWrites)]
    BY <1>7, <2>1, <2>4
  <2> QED BY <1>2, <1>7, <2>1, <2>3, <2>5
<1>9. UNCHANGED <<queue, written, callbacks, waits, told>>
  BY <1>7 DEF disk, callers
<1>10. TypeOK' /\ PipelineFollowsQueue' /\ NoAssertFails' /\ WaitsAreForQueued'
       /\ QueuesOrdered' /\ CallbacksOfQueued' /\ ToldKnown'
  BY <1>3, <1>5, <1>7, <1>8, <1>9
     DEF IInv, TypeOK, PipelineFollowsQueue, NoAssertFails, WaitsAreForQueued,
         InQueue, QueuesOrdered, CallbacksOfQueued, ToldKnown
<1>11. AnswersMatchPipeline'
  <2>1. down' \o up' = down \o up
    <3>1. down' \o up' \in Seq(Batch) /\ Len(down' \o up') = Len(down') + Len(up')
          /\ \A i \in 1..Len(down') + Len(up') : (down' \o up')[i] =
               IF i <= Len(down') THEN down'[i] ELSE up'[i - Len(down')]
      <4>1. down' \in Seq(Batch) /\ up' \in Seq(Batch)
        BY <1>3, <1>5, <1>7
      <4> QED BY <4>1, ConcatProperties
    <3>2. down \o up \in Seq(Batch) /\ Len(down \o up) = Len(down) + Len(up)
          /\ \A i \in 1..Len(down) + Len(up) : (down \o up)[i] =
               IF i <= Len(down) THEN down[i] ELSE up[i - Len(down)]
      BY <1>2, ConcatProperties
    <3>3. Len(down') + Len(up') = Len(down) + Len(up)
      BY <1>1, <1>3, <1>5, <1>7 DEF k
    <3>4. ASSUME NEW i \in 1..Len(down) + Len(up)
          PROVE  (down' \o up')[i] = (down \o up)[i]
      <4>1. CASE i <= Len(down)
        BY <1>1, <1>5, <3>1, <3>2, <3>3, <4>1 DEF k
      <4>2. CASE i = Len(down) + 1
        <5>1. (down \o up)[i] = up[1]
          BY <1>1, <3>2, <4>2
        <5>2. (down' \o up')[i] = down'[k]
          BY <1>1, <1>5, <3>1, <3>3, <4>2 DEF k
        <5> QED BY <1>3, <1>5, <5>1, <5>2
      <4>3. CASE i > Len(down) + 1
        <5>1. (down \o up)[i] = up[i - Len(down)]
          BY <1>1, <3>2, <4>3
        <5>2. (down' \o up')[i] = up'[i - Len(down) - 1]
          BY <1>1, <1>5, <3>1, <3>3, <4>3 DEF k
        <5>3. i - Len(down) - 1 \in 1..Len(Tail(up))
          BY <1>1, <1>3, <4>3
        <5>4. up'[i - Len(down) - 1] = up[(i - Len(down) - 1) + 1]
          BY <1>3, <1>7, <5>3
        <5> QED BY <1>1, <5>1, <5>2, <5>4
      <4>4. i <= Len(down) \/ i = Len(down) + 1 \/ i > Len(down) + 1
        BY <1>1
      <4> QED BY <4>1, <4>2, <4>3, <4>4
    <3> QED BY <3>1, <3>2, <3>3, <3>4, SeqEqual
  <2> QED BY <1>1, <1>7, <2>1 DEF AnswersMatchPipeline
<1>12. CallShape'
  BY <1>1, <1>7 DEF IInv, CallShape, IsStarted
<1>13. CallersToldTheTruth'
  <2>1. <<b.no, "error">> \notin told
    <3>1. <<b.no, "error">> \in told => queue[user][k].no # b.no
      BY <1>2, <1>4, <1>6 DEF IInv, CallersToldTheTruth
    <3> QED BY <1>4, <3>1
  <2> QED BY <1>8, <1>9, <2>1 DEF IInv, CallersToldTheTruth
<1>14. ServiceKnown'
  <2>1. \A u \in Users : \A m \in committed'[u] : m <= written'
    BY <1>6, <1>8, <1>9 DEF IInv, ServiceKnown
  <2>2. \A u, v \in Users : u # v => \A i \in 1..Len(queue'[u]) :
          queue'[u][i].no \notin committed'[v]
    <3> SUFFICES ASSUME NEW u \in Users, NEW v \in Users, u # v,
                        NEW i \in 1..Len(queue[u])
                 PROVE  queue[u][i].no \notin committed'[v]
      BY <1>9
    <3>1. queue[u][i].no \notin committed[v]
      BY DEF IInv, ServiceKnown
    <3>2. v = user => queue[u][i].no # b.no
      BY <1>2, <1>4 DEF IInv, QueuesOrdered
    <3> QED BY <1>8, <3>1, <3>2
  <2>3. \A i \in 1..Len(down') : down'[i].no \in committed'[user']
    <3> SUFFICES ASSUME NEW i \in 1..k PROVE down'[i].no \in committed'[user]
      BY <1>5, <1>7
    <3>1. CASE i \in 1..Len(down)
      BY <1>2, <1>5, <1>8, <3>1 DEF IInv, ServiceKnown
    <3>2. CASE i = k
      BY <1>2, <1>5, <1>8, <3>2
    <3> QED BY <1>1, <3>1, <3>2 DEF k
  <2> QED BY <1>7, <2>1, <2>2, <2>3 DEF ServiceKnown
<1>15. ValueNewest'
  <2>1. \A u \in Users : Attempt(u)' > 0 => value'[u] = queue'[u][Attempt(u)'].no
    BY <1>4, <1>5, <1>7, <1>8, <1>9 DEF Attempt
  <2>2. \A u \in Users : \A m \in committed'[u] : \A i \in 1..Len(queue'[u]) :
          m < queue'[u][i].no \/ \E j \in 1..Len(queue'[u]) : m = queue'[u][j].no
    BY <1>4, <1>8, <1>9 DEF IInv, ValueNewest
  <2>3. \A u \in Users : NoneCommitted(u)' => \A m \in committed'[u] : m <= value'[u]
    <3>1. \A u \in Users : u = user => ~NoneCommitted(u)'
      BY <1>2, <1>4, <1>8, <1>9 DEF NoneCommitted
    <3>2. \A u \in Users : u # user => (NoneCommitted(u)' => NoneCommitted(u))
      BY <1>8, <1>9 DEF NoneCommitted
    <3> QED BY <1>8, <3>1, <3>2 DEF IInv, ValueNewest
  <2> QED BY <2>1, <2>2, <2>3 DEF ValueNewest
<1> QED BY <1>10, <1>11, <1>12, <1>13, <1>14, <1>15 DEF IInv

-------------------------------------------------------------------------------
(* The front of the pipeline is answered                                   *)

LEMMA FrontOf ==
  ASSUME IInv, pipeline # <<>>
  PROVE  /\ queue[user] # <<>> /\ Head(pipeline) = queue[user][1]
         /\ 1 \in 1..Len(queue[user])
         /\ Without(queue[user], Head(pipeline).id) = Tail(queue[user])
         /\ Tail(pipeline) \in Seq(Batch) /\ Prefix(Tail(pipeline), Tail(queue[user]))
         /\ Len(Tail(pipeline)) <= MaxPendingWrites
         /\ Tail(queue[user]) \in Seq(Batch) /\ Increasing(Tail(queue[user]))
<1>1. /\ Head(pipeline) = pipeline[1] /\ Len(pipeline) \in Nat \ {0}
      /\ Len(pipeline) <= Len(queue[user]) /\ Len(queue[user]) \in Nat
      /\ \A i \in 1..Len(pipeline) : pipeline[i] = queue[user][i]
  BY HeadIsFirst, PipelineOf, LenProperties DEF Prefix
<1>2. queue[user] # <<>> /\ Head(pipeline) = queue[user][1] /\ 1 \in 1..Len(queue[user])
  BY <1>1, EmptyBatches
<1>3. /\ Tail(pipeline) \in Seq(Batch) /\ Len(Tail(pipeline)) = Len(pipeline) - 1
      /\ \A i \in 1..Len(Tail(pipeline)) : Tail(pipeline)[i] = pipeline[i + 1]
  BY PipelineOf, HeadTailProperties
<1>4. /\ Tail(queue[user]) \in Seq(Batch) /\ Increasing(Tail(queue[user]))
      /\ Len(Tail(queue[user])) = Len(queue[user]) - 1
      /\ \A i \in 1..Len(Tail(queue[user])) : Tail(queue[user])[i] = queue[user][i + 1]
  BY <1>2, PipelineOf, TailOfQueue
<1>5. Prefix(Tail(pipeline), Tail(queue[user]))
  BY <1>1, <1>3, <1>4 DEF Prefix
<1>6. Without(queue[user], Head(pipeline).id) = Tail(queue[user])
  BY <1>2, PipelineOf, WithoutFirst
<1> QED BY <1>1, <1>2, <1>3, <1>4, <1>5, <1>6, PipelineOf, PipelineAssumption

(* The disk and the callers after it.                                      *)
LEMMA CompleteFrontKeeps ==
  ASSUME IInv, pipeline # <<>>, NEW result \in {"ok", "error"}, NEW s,
         CompleteFront(result, s), UNCHANGED failed,
         result = "ok" => queue[user][1].no \in committed[user],
         result = "error" => queue[user][1].no \notin committed[user]
  PROVE  /\ queue' \in [Users -> Seq(Batch)] /\ queue'[user] = Tail(queue[user])
         /\ \A u \in Users : u # user => queue'[u] = queue[u]
         /\ \A u \in Users : \A i \in 1..Len(queue'[u]) :
              \E j \in 1..Len(queue[u]) :
                queue'[u][i] = queue[u][j] /\ (u = user => j = i + 1)
         /\ \A u \in Users : \A j \in 1..Len(queue[u]) :
              (u = user /\ j = 1) \/ \E i \in 1..Len(queue'[u]) : queue'[u][i] = queue[u][j]
         /\ callbacks' \subseteq Callback /\ waits' \subseteq Nat
         /\ told' \subseteq (1..MaxWrites) \X {"ok", "error"}
         /\ FillWritePipeline(Tail(queue[user]), Tail(pipeline), s)
         /\ UNCHANGED <<written, user, nextId, enabled, stale, committed, value, failed>>
         /\ NoAssertFails' /\ CallersToldTheTruth' /\ WaitsAreForQueued'
         /\ QueuesOrdered' /\ CallbacksOfQueued' /\ ToldKnown'
<1> DEFINE Q == queue[user]
           id == Q[1].id
           no == Q[1].no
<1>1. /\ Q # <<>> /\ Head(pipeline) = Q[1] /\ 1 \in 1..Len(Q)
      /\ Without(Q, Head(pipeline).id) = Tail(Q)
      /\ user \in Users /\ Q \in Seq(Batch) /\ Increasing(Q)
  BY FrontOf, PipelineOf
<1>2. /\ Tail(Q) \in Seq(Batch) /\ Len(Tail(Q)) = Len(Q) - 1 /\ Len(Q) \in Nat
      /\ \A i \in 1..Len(Tail(Q)) : Tail(Q)[i] = Q[i + 1]
      /\ \A i \in 1..Len(Tail(Q)) : id < Tail(Q)[i].id /\ no < Tail(Q)[i].no
  BY <1>1, TailOfQueue, LenProperties
<1>3. id \in Nat /\ no \in Nat /\ no \in 1..MaxWrites /\ no <= written
  BY <1>1, BatchOfSeq DEF IInv, QueuesOrdered
<1>4. /\ queue' = [queue EXCEPT ![user] = Tail(Q)]
      /\ told' = told \cup {<<c.no, result>> : c \in ToNotify(id)}
      /\ callbacks' = callbacks \ ToNotify(id) /\ waits' = waits \ {id}
      /\ FillWritePipeline(Tail(Q), Tail(pipeline), s)
      /\ UNCHANGED <<written, user, nextId, enabled, stale, committed, value, failed>>
  BY <1>1 DEF CompleteFront, Notify, service
<1> HIDE DEF CompleteFront
<1>5. /\ queue' \in [Users -> Seq(Batch)] /\ queue'[user] = Tail(Q)
      /\ \A u \in Users : u # user => queue'[u] = queue[u]
  BY <1>1, <1>2, <1>4 DEF IInv, TypeOK
<1>6. \A u \in Users : \A i \in 1..Len(queue'[u]) :
        \E j \in 1..Len(queue[u]) :
          queue'[u][i] = queue[u][j] /\ (u = user => j = i + 1)
  <2> SUFFICES ASSUME NEW u \in Users, NEW i \in 1..Len(queue'[u])
               PROVE  \E j \in 1..Len(queue[u]) :
                        queue'[u][i] = queue[u][j] /\ (u = user => j = i + 1)
    OBVIOUS
  <2>1. CASE u = user
    <3>1. i \in 1..Len(Tail(Q)) /\ queue'[u][i] = Tail(Q)[i]
      BY <1>5, <2>1
    <3>2. i + 1 \in 1..Len(Q) /\ Tail(Q)[i] = Q[i + 1]
      BY <1>2, <3>1
    <3> QED BY <2>1, <3>1, <3>2
  <2>2. CASE u # user
    BY <1>5, <2>2
  <2> QED BY <2>1, <2>2
<1>7. \A u \in Users : \A j \in 1..Len(queue[u]) :
        (u = user /\ j = 1) \/ \E i \in 1..Len(queue'[u]) : queue'[u][i] = queue[u][j]
  <2> SUFFICES ASSUME NEW u \in Users, NEW j \in 1..Len(queue[u]), ~(u = user /\ j = 1)
               PROVE  \E i \in 1..Len(queue'[u]) : queue'[u][i] = queue[u][j]
    OBVIOUS
  <2>1. CASE u = user
    <3>1. j - 1 \in 1..Len(Tail(Q)) /\ (j - 1) + 1 = j
      BY <1>2, <2>1
    <3>2. Tail(Q)[j - 1] = Q[(j - 1) + 1]
      BY <1>2, <3>1
    <3>3. j - 1 \in 1..Len(queue'[u]) /\ queue'[u][j - 1] = queue[u][j]
      BY <1>5, <2>1, <3>1, <3>2
    <3> QED BY <3>3
  <2>2. CASE u # user
    BY <1>5, <2>2
  <2> QED BY <2>1, <2>2
<1>8. \A c \in ToNotify(id) : c.no = no /\ c \in Callback
  BY <1>1, NotifiedIsFront
<1>9. \A t \in told' : t \in told \/ t = <<no, result>>
  BY <1>4, <1>8
<1>10. callbacks' \subseteq callbacks /\ callbacks' \subseteq Callback /\ waits' \subseteq Nat
       /\ told' \subseteq (1..MaxWrites) \X {"ok", "error"}
  <2>1. callbacks \subseteq Callback /\ waits \subseteq Nat
        /\ told \subseteq (1..MaxWrites) \X {"ok", "error"}
    BY DEF IInv, TypeOK
  <2>2. <<no, result>> \in (1..MaxWrites) \X {"ok", "error"}
    BY <1>3
  <2>3. told' \subseteq (1..MaxWrites) \X {"ok", "error"}
    BY <1>9, <2>1, <2>2
  <2>4. callbacks' \subseteq callbacks /\ waits' \subseteq waits
    BY <1>4
  <2> QED BY <2>1, <2>3, <2>4
<1>11. NoAssertFails' /\ ToldKnown'
  BY <1>3, <1>4, <1>9 DEF IInv, NoAssertFails, ToldKnown
<1>12. WaitsAreForQueued'
  <2> SUFFICES ASSUME NEW w \in waits' PROVE InQueue(queue'[user], w)
    BY <1>4 DEF WaitsAreForQueued
  <2>1. w # id /\ InQueue(Q, w)
    BY <1>4 DEF IInv, WaitsAreForQueued
  <2>2. PICK j \in 1..Len(Q) : Q[j].id = w
    BY <2>1 DEF InQueue
  <2>3. PICK i \in 1..Len(queue'[user]) : queue'[user][i] = Q[j]
    BY <1>1, <1>7, <2>1, <2>2
  <2> QED BY <2>2, <2>3 DEF InQueue
<1>13. CallbacksOfQueued'
  <2> SUFFICES ASSUME NEW c \in callbacks'
               PROVE  \E i \in 1..Len(queue'[c.user]) :
                        queue'[c.user][i].id = c.id /\ queue'[c.user][i].no = c.no
    BY DEF CallbacksOfQueued
  <2>1. c \in callbacks /\ c \notin ToNotify(id) /\ c.user \in Users
    BY <1>4, <1>10 DEF Callback
  <2>2. PICK j \in 1..Len(queue[c.user]) :
          queue[c.user][j].id = c.id /\ queue[c.user][j].no = c.no
    BY <2>1 DEF IInv, CallbacksOfQueued
  <2>3. ~(c.user = user /\ j = 1)
    BY <2>1, <2>2 DEF ToNotify
  <2>4. PICK i \in 1..Len(queue'[c.user]) : queue'[c.user][i] = queue[c.user][j]
    BY <1>7, <2>1, <2>3
  <2> QED BY <2>2, <2>4
<1>14. QueuesOrdered'
  <2>1. \A u \in Users : Increasing(queue'[u])
    BY <1>1, <1>5, TailOfQueue DEF IInv, QueuesOrdered
  <2>2. \A u \in Users : \A i \in 1..Len(queue'[u]) :
          queue'[u][i].id < nextId' /\ queue'[u][i].no <= written'
    BY <1>4, <1>6 DEF IInv, QueuesOrdered
  <2>3. \A u, v \in Users : u # v =>
          \A i \in 1..Len(queue'[u]) : \A j \in 1..Len(queue'[v]) :
            queue'[u][i].no # queue'[v][j].no
    <3> SUFFICES ASSUME NEW u \in Users, NEW v \in Users, u # v,
                        NEW i \in 1..Len(queue'[u]), NEW j \in 1..Len(queue'[v])
                 PROVE  queue'[u][i].no # queue'[v][j].no
      OBVIOUS
    <3>1. PICK k \in 1..Len(queue[u]) : queue'[u][i] = queue[u][k]
      BY <1>6
    <3>2. PICK l \in 1..Len(queue[v]) : queue'[v][j] = queue[v][l]
      BY <1>6
    <3> QED BY <3>1, <3>2 DEF IInv, QueuesOrdered
  <2> QED BY <2>1, <2>2, <2>3 DEF QueuesOrdered
<1>15. CallersToldTheTruth'
  <2>1. ASSUME NEW m \in 1..MaxWrites, <<m, "ok">> \in told'
        PROVE  \E u \in Users : m \in committed'[u]
    <3>1. CASE <<m, "ok">> \in told
      BY <1>4, <3>1 DEF IInv, CallersToldTheTruth
    <3>2. CASE <<m, "ok">> = <<no, result>>
      BY <1>1, <1>4, <3>2
    <3> QED BY <1>9, <2>1, <3>1, <3>2
  <2>2. ASSUME NEW m \in 1..MaxWrites, <<m, "error">> \in told'
        PROVE  \A u \in Users : /\ m \notin committed'[u]
                                /\ \A i \in 1..Len(queue'[u]) : queue'[u][i].no # m
    <3>1. CASE <<m, "error">> \in told
      <4>1. \A u \in Users : /\ m \notin committed[u]
                             /\ \A j \in 1..Len(queue[u]) : queue[u][j].no # m
        BY <3>1 DEF IInv, CallersToldTheTruth
      <4>2. \A u \in Users : \A i \in 1..Len(queue'[u]) :
              \E j \in 1..Len(queue[u]) : queue'[u][i] = queue[u][j]
        BY <1>6
      <4>3. \A u \in Users : \A i \in 1..Len(queue'[u]) : queue'[u][i].no # m
        BY <4>1, <4>2
      <4> QED BY <1>4, <4>1, <4>3
    <3>2. CASE <<m, "error">> = <<no, result>>
      <4>1. m = no /\ no \notin committed[user]
        BY <3>2
      <4>2. \A u \in Users : u # user => no \notin committed[u]
        BY <1>1 DEF IInv, ServiceKnown
      <4>3. \A i \in 1..Len(queue'[user]) : queue'[user][i].no # no
        <5> SUFFICES ASSUME NEW i \in 1..Len(Tail(Q)) PROVE Tail(Q)[i].no # no
          BY <1>5
        <5>1. no < Tail(Q)[i].no /\ Tail(Q)[i].no \in 1..MaxWrites
          BY <1>2, BatchOfSeq
        <5> QED BY <1>3, <5>1
      <4>4. \A u \in Users : u # user => \A i \in 1..Len(queue'[u]) : queue'[u][i].no # no
        BY <1>1, <1>5 DEF IInv, QueuesOrdered
      <4> QED BY <1>4, <4>1, <4>2, <4>3, <4>4
    <3> QED BY <1>9, <2>2, <3>1, <3>2
  <2> QED BY <2>1, <2>2 DEF CallersToldTheTruth
<1> QED BY <1>4, <1>5, <1>6, <1>7, <1>10, <1>11, <1>12, <1>13, <1>14, <1>15

(* Of the values, what follows from the queue alone.                       *)
LEMMA ValuesAfterFront ==
  ASSUME IInv, UNCHANGED <<committed, value>>,
         \A u \in Users : \A i \in 1..Len(queue'[u]) :
           \E j \in 1..Len(queue[u]) :
             queue'[u][i] = queue[u][j] /\ (u = user => j = i + 1),
         \A u \in Users : \A j \in 1..Len(queue[u]) :
           (u = user /\ j = 1) \/ \E i \in 1..Len(queue'[u]) : queue'[u][i] = queue[u][j]
  PROVE  \A u \in Users : \A m \in committed'[u] : \A i \in 1..Len(queue'[u]) :
           m < queue'[u][i].no \/ \E j \in 1..Len(queue'[u]) : m = queue'[u][j].no
<1> SUFFICES ASSUME NEW u \in Users, NEW m \in committed[u], NEW i \in 1..Len(queue'[u])
             PROVE  m < queue'[u][i].no \/ \E j \in 1..Len(queue'[u]) : m = queue'[u][j].no
  OBVIOUS
<1>1. PICK j \in 1..Len(queue[u]) : queue'[u][i] = queue[u][j] /\ (u = user => j = i + 1)
  OBVIOUS
<1>2. CASE m < queue[u][j].no
  BY <1>1, <1>2
<1>3. ASSUME NEW k \in 1..Len(queue[u]), m = queue[u][k].no
      PROVE  m < queue'[u][i].no \/ \E h \in 1..Len(queue'[u]) : m = queue'[u][h].no
  <2>1. CASE u = user /\ k = 1
    <3>1. k < j /\ Increasing(queue[u])
      BY <1>1, <2>1, QueueOf, LenProperties
    <3> QED BY <1>1, <1>3, <3>1 DEF Increasing
  <2>2. CASE ~(u = user /\ k = 1)
    BY <1>3, <2>2
  <2> QED BY <2>1, <2>2
<1>4. m < queue[u][j].no \/ \E k \in 1..Len(queue[u]) : m = queue[u][k].no
  BY DEF IInv, ValueNewest
<1> QED BY <1>2, <1>3, <1>4

LEMMA ServiceOfRest ==
  ASSUME IInv,
         \A u \in Users : \A i \in 1..Len(queue'[u]) :
           \E j \in 1..Len(queue[u]) :
             queue'[u][i] = queue[u][j] /\ (u = user => j = i + 1)
  PROVE  \A u, v \in Users : u # v => \A i \in 1..Len(queue'[u]) :
           queue'[u][i].no \notin committed[v]
<1> SUFFICES ASSUME NEW u \in Users, NEW v \in Users, u # v, NEW i \in 1..Len(queue'[u])
             PROVE  queue'[u][i].no \notin committed[v]
  OBVIOUS
<1>1. PICK j \in 1..Len(queue[u]) : queue'[u][i] = queue[u][j]
  OBVIOUS
<1> QED BY <1>1 DEF IInv, ServiceKnown

LEMMA RejectedKeeps == ASSUME IInv, OnWriteRejected PROVE IInv'
<1>1. CASE pipeline = <<>>
  <2> USE <1>1 DEF OnWriteRejected, CloseOnError, CallGone
  <2>1. TypeOK' /\ PipelineFollowsQueue'
    BY EmptyBatches, NetTypes
       DEF IInv, TypeOK, PipelineFollowsQueue, StreamState, Handshake, disk
  <2>2. CallShape' /\ AnswersMatchPipeline' /\ NetFrame
    BY DEF IInv, CallShape, AnswersMatchPipeline, NetFrame, IsStarted
  <2> QED BY <2>1, <2>2, NetQed
<1>2. CASE pipeline # <<>>
  <2>1. FrontIsQueued
    <3>1. Head(pipeline) = queue[user][1] /\ 1 \in 1..Len(queue[user])
      BY <1>2, FrontOf
    <3> QED BY <1>2, <3>1 DEF FrontIsQueued, InQueue
  <2>2. /\ CompleteFront("error", "Initial") /\ CallGone /\ UNCHANGED failed
        /\ stream = "Open" /\ shake = "complete" /\ down = <<>> /\ refusal
    BY <1>2, <2>1 DEF OnWriteRejected, HardAssert
  <2>3. /\ up # <<>> /\ Head(up).no \notin committed[user] /\ up \in Seq(Batch)
        /\ pipeline = down \o up /\ enabled
    BY <2>2 DEF IInv, ServiceKnown, TypeOK, AnswersMatchPipeline, CallShape, IsStarted
  <2>4. queue[user][1].no \notin committed[user] /\ pipeline = up
    <3>1. pipeline = up
      BY <2>2, <2>3, ConcatEmptySeq
    <3> QED BY <1>2, <2>3, <3>1, FrontOf
  <2>5. /\ queue' \in [Users -> Seq(Batch)] /\ queue'[user] = Tail(queue[user])
        /\ \A u \in Users : u # user => queue'[u] = queue[u]
        /\ \A u \in Users : \A i \in 1..Len(queue'[u]) :
             \E j \in 1..Len(queue[u]) :
               queue'[u][i] = queue[u][j] /\ (u = user => j = i + 1)
        /\ \A u \in Users : \A j \in 1..Len(queue[u]) :
             (u = user /\ j = 1) \/ \E i \in 1..Len(queue'[u]) : queue'[u][i] = queue[u][j]
        /\ callbacks' \subseteq Callback /\ waits' \subseteq Nat
        /\ told' \subseteq (1..MaxWrites) \X {"ok", "error"}
        /\ FillWritePipeline(Tail(queue[user]), Tail(pipeline), "Initial")
        /\ UNCHANGED <<written, user, nextId, enabled, stale, committed, value, failed>>
        /\ NoAssertFails' /\ CallersToldTheTruth' /\ WaitsAreForQueued'
        /\ QueuesOrdered' /\ CallbacksOfQueued' /\ ToldKnown'
    BY <1>2, <2>2, <2>4, CompleteFrontKeeps
  <2>6. /\ pipeline' \in Seq(Batch) /\ Prefix(pipeline', Tail(queue[user]))
        /\ Len(pipeline') <= MaxPendingWrites
        /\ stream' \in StreamState /\ stream' # "Open"
        /\ IsStarted(stream') => pipeline' # <<>>
        /\ up' = <<>> /\ ~idle' /\ idle' \in BOOLEAN
    <3>1. "Initial" \in StreamState /\ ~IsStarted("Initial")
      BY DEF StreamState, IsStarted
    <3>2. idle => Tail(pipeline) = <<>>
      BY <1>2 DEF IInv, CallShape
    <3>3. shake # "complete" => ~idle
      BY DEF IInv, CallShape
    <3> QED BY <1>2, <2>3, <2>5, <3>1, <3>2, <3>3, FrontOf, FillEffect
  <2>7. PipelineFollowsQueue'
    BY <2>5, <2>6 DEF PipelineFollowsQueue, Prefix
  <2>8. AnswersMatchPipeline' /\ CallShape'
    BY <2>2, <2>3, <2>5, <2>6 DEF CallGone, AnswersMatchPipeline, CallShape
  <2>9. TypeOK'
    BY <2>2, <2>5, <2>6, EmptyBatches DEF IInv, TypeOK, CallGone, Handshake
  <2>10. ServiceKnown'
    <3>1. \A u, v \in Users : u # v => \A i \in 1..Len(queue'[u]) :
            queue'[u][i].no \notin committed[v]
      BY <2>5, ServiceOfRest
    <3>2. down' = <<>> /\ ~refusal'
      BY <2>2 DEF CallGone
    <3> QED BY <2>5, <3>1, <3>2, EmptyBatches DEF IInv, ServiceKnown
  <2>11. ValueNewest'
    <3>1. \A u \in Users : Attempt(u)' = 0
      BY <2>2, EmptyBatches DEF Attempt, CallGone
    <3>2. ASSUME NEW u \in Users, NoneCommitted(u)' PROVE NoneCommitted(u)
      <4> SUFFICES ASSUME NEW j \in 1..Len(queue[u]) PROVE queue[u][j].no \notin committed[u]
        BY DEF NoneCommitted
      <4>1. CASE u = user /\ j = 1
        BY <2>4, <4>1
      <4>2. CASE ~(u = user /\ j = 1)
        <5>1. PICK i \in 1..Len(queue'[u]) : queue'[u][i] = queue[u][j]
          BY <2>5, <4>2
        <5>2. queue'[u][i].no \notin committed'[u]
          BY <3>2 DEF NoneCommitted
        <5> QED BY <2>5, <5>1, <5>2
      <4> QED BY <4>1, <4>2
    <3>3. \A u \in Users : NoneCommitted(u)' => \A m \in committed'[u] : m <= value'[u]
      BY <2>5, <3>2 DEF IInv, ValueNewest
    <3> QED BY <2>5, <3>1, <3>3, ValuesAfterFront DEF ValueNewest
  <2> QED BY <2>5, <2>7, <2>8, <2>9, <2>10, <2>11 DEF IInv
<1> QED BY <1>1, <1>2

LEMMA TailOfConcat ==
  ASSUME NEW d \in Seq(Batch), NEW u \in Seq(Batch), d # <<>>
  PROVE  Tail(d \o u) = Tail(d) \o u
<1>1. Len(d) \in Nat \ {0} /\ Len(u) \in Nat
  BY HeadIsFirst, LenProperties
<1>2. /\ d \o u \in Seq(Batch) /\ Len(d \o u) = Len(d) + Len(u)
      /\ \A i \in 1..Len(d) + Len(u) : (d \o u)[i] =
           IF i <= Len(d) THEN d[i] ELSE u[i - Len(d)]
  BY ConcatProperties
<1>3. d \o u # <<>>
  BY ConcatEqualIffEmpty
<1>4. /\ Tail(d) \in Seq(Batch) /\ Len(Tail(d)) = Len(d) - 1
      /\ \A i \in 1..Len(Tail(d)) : Tail(d)[i] = d[i + 1]
  BY HeadTailProperties
<1>5. /\ Tail(d \o u) \in Seq(Batch) /\ Len(Tail(d \o u)) = Len(d \o u) - 1
      /\ \A i \in 1..Len(Tail(d \o u)) : Tail(d \o u)[i] = (d \o u)[i + 1]
  BY <1>2, <1>3, HeadTailProperties
<1>6. /\ Tail(d) \o u \in Seq(Batch) /\ Len(Tail(d) \o u) = Len(Tail(d)) + Len(u)
      /\ \A i \in 1..Len(Tail(d)) + Len(u) : (Tail(d) \o u)[i] =
           IF i <= Len(Tail(d)) THEN Tail(d)[i] ELSE u[i - Len(Tail(d))]
  BY <1>4, ConcatProperties
<1>7. ASSUME NEW i \in 1..Len(Tail(d \o u)) PROVE Tail(d \o u)[i] = (Tail(d) \o u)[i]
  <2>1. Tail(d \o u)[i] = (d \o u)[i + 1] /\ i + 1 \in 1..Len(d) + Len(u)
    BY <1>1, <1>2, <1>5
  <2>2. CASE i + 1 <= Len(d)
    <3>1. (d \o u)[i + 1] = d[i + 1]
      BY <1>2, <2>1, <2>2
    <3>2. i \in 1..Len(Tail(d)) /\ i \in 1..Len(Tail(d)) + Len(u) /\ i <= Len(Tail(d))
      BY <1>1, <1>2, <1>4, <1>5, <2>2
    <3> QED BY <1>4, <1>6, <2>1, <3>1, <3>2
  <2>3. CASE ~(i + 1 <= Len(d))
    <3>1. (d \o u)[i + 1] = u[(i + 1) - Len(d)]
      BY <1>2, <2>1, <2>3
    <3>2. i \in 1..Len(Tail(d)) + Len(u) /\ ~(i <= Len(Tail(d)))
          /\ i - Len(Tail(d)) = (i + 1) - Len(d)
      BY <1>1, <1>2, <1>4, <1>5, <2>3
    <3> QED BY <1>6, <2>1, <3>1, <3>2
  <2> QED BY <2>2, <2>3
<1>8. Len(Tail(d \o u)) = Len(Tail(d) \o u)
  BY <1>1, <1>2, <1>4, <1>5, <1>6
<1> QED BY <1>5, <1>6, <1>7, <1>8, SeqEqual

LEMMA ResultKeeps == ASSUME IInv, OnWriteStreamMutationResult PROVE IInv'
<1> DEFINE Q == queue[user]
           more == ToAdd(Tail(Q), Tail(pipeline))
<1>1. /\ stream = "Open" /\ shake = "complete" /\ down # <<>> /\ pipeline # <<>>
      /\ Head(pipeline) = Q[1] /\ Q[1].no \in committed[user] /\ Q # <<>>
  BY FrontCommitted DEF OnWriteStreamMutationResult
<1>2. FrontIsQueued
  <2>1. Head(pipeline) = Q[1] /\ 1 \in 1..Len(Q)
    BY <1>1, FrontOf
  <2> QED BY <1>1, <2>1 DEF FrontIsQueued, InQueue
<1>3. CompleteFront("ok", "Open") /\ down' = Tail(down) /\ UNCHANGED <<shake, refusal, failed>>
  BY <1>2 DEF OnWriteStreamMutationResult, HardAssert
<1>4. /\ queue' \in [Users -> Seq(Batch)] /\ queue'[user] = Tail(Q)
      /\ \A u \in Users : u # user => queue'[u] = queue[u]
      /\ \A u \in Users : \A i \in 1..Len(queue'[u]) :
           \E j \in 1..Len(queue[u]) :
             queue'[u][i] = queue[u][j] /\ (u = user => j = i + 1)
      /\ \A u \in Users : \A j \in 1..Len(queue[u]) :
           (u = user /\ j = 1) \/ \E i \in 1..Len(queue'[u]) : queue'[u][i] = queue[u][j]
      /\ callbacks' \subseteq Callback /\ waits' \subseteq Nat
      /\ told' \subseteq (1..MaxWrites) \X {"ok", "error"}
      /\ FillWritePipeline(Tail(Q), Tail(pipeline), "Open")
      /\ UNCHANGED <<written, user, nextId, enabled, stale, committed, value, failed>>
      /\ NoAssertFails' /\ CallersToldTheTruth' /\ WaitsAreForQueued'
      /\ QueuesOrdered' /\ CallbacksOfQueued' /\ ToldKnown'
  BY <1>1, <1>3, CompleteFrontKeeps
<1>5. /\ user \in Users /\ up \in Seq(Batch) /\ down \in Seq(Batch) /\ enabled
      /\ (idle => Tail(pipeline) = <<>>) /\ (shake # "complete" => ~idle)
      /\ pipeline = down \o up
  BY <1>1 DEF IInv, TypeOK, CallShape, IsStarted, AnswersMatchPipeline
<1>6. /\ pipeline' \in Seq(Batch) /\ Prefix(pipeline', Tail(Q))
      /\ Len(pipeline') <= MaxPendingWrites
      /\ stream' = "Open" /\ stream' \in StreamState
      /\ up' = up \o more /\ up' \in Seq(Batch)
      /\ idle' \in BOOLEAN /\ (idle' => pipeline' = <<>>)
      /\ pipeline' = Tail(pipeline) \o more
  <2>1. "Open" \in StreamState /\ IsStarted("Open")
    BY DEF StreamState, IsStarted
  <2> QED BY <1>1, <1>4, <1>5, <2>1, FrontOf, FillEffect
<1>7. more \in Seq(Batch)
  BY <1>1, FrontOf, ToAddFollows
<1> HIDE DEF more
<1>8. /\ Len(down) \in Nat \ {0} /\ Len(down') = Len(down) - 1 /\ down' \in Seq(Batch)
      /\ \A i \in 1..Len(down') : down'[i] = down[i + 1]
  BY <1>1, <1>3, <1>5, HeadIsFirst, HeadTailProperties
<1>9. /\ Len(Tail(Q)) = Len(Q) - 1 /\ Len(Q) \in Nat /\ Q \in Seq(Batch)
      /\ \A i \in 1..Len(Tail(Q)) : Tail(Q)[i] = Q[i + 1]
  BY <1>1, PipelineOf, TailOfQueue, LenProperties
<1>10. /\ Len(down) <= Len(Q)
       /\ \A i \in 1..Len(down) : down[i] = Q[i]
  BY <1>1, <1>9, AnswersInQueue
<1>11. PipelineFollowsQueue'
  BY <1>4, <1>6 DEF PipelineFollowsQueue, Prefix
<1>12. AnswersMatchPipeline'
  <2>1. Tail(pipeline) = down' \o up
    BY <1>1, <1>3, <1>5, TailOfConcat
  <2>2. pipeline' = down' \o up'
    <3>1. (down' \o up) \o more = down' \o (up \o more)
      BY <1>5, <1>7, <1>8, ConcatOfBatches
    <3> QED BY <1>6, <2>1, <3>1
  <2> QED BY <2>2 DEF AnswersMatchPipeline
<1>13. CallShape'
  BY <1>1, <1>3, <1>4, <1>5, <1>6 DEF CallShape
<1>14. TypeOK'
  BY <1>3, <1>4, <1>6, <1>8 DEF IInv, TypeOK
<1>15. ServiceKnown'
  <2>1. \A u, v \in Users : u # v => \A i \in 1..Len(queue'[u]) :
          queue'[u][i].no \notin committed[v]
    BY <1>4, ServiceOfRest
  <2>2. \A i \in 1..Len(down') : down'[i].no \in committed[user]
    <3> SUFFICES ASSUME NEW i \in 1..Len(down') PROVE down'[i].no \in committed[user]
      OBVIOUS
    <3>1. i + 1 \in 1..Len(down) /\ down'[i] = down[i + 1]
      BY <1>8
    <3> QED BY <3>1 DEF IInv, ServiceKnown
  <2>3. refusal => up' # <<>> /\ Head(up').no \notin committed[user]
    <3>1. ASSUME refusal PROVE up' # <<>> /\ Head(up').no \notin committed[user]
      <4>1. up # <<>> /\ Head(up).no \notin committed[user]
        BY <3>1 DEF IInv, ServiceKnown
      <4>2. up' # <<>>
        BY <1>5, <1>6, <1>7, <4>1, ConcatEqualIffEmpty
      <4>3. Len(up) \in Nat \ {0} /\ Len(more) \in Nat
        BY <1>5, <1>7, <4>1, HeadIsFirst, LenProperties
      <4>4. (up \o more)[1] = up[1]
        BY <1>5, <1>7, <4>3, ConcatProperties
      <4>5. Head(up') = up'[1] /\ Head(up) = up[1]
        BY <1>5, <1>6, <4>1, <4>2, HeadIsFirst
      <4> QED BY <1>6, <4>1, <4>2, <4>4, <4>5
    <3> QED BY <3>1
  <2> QED BY <1>3, <1>4, <2>1, <2>2, <2>3 DEF IInv, ServiceKnown
<1>16. ValueNewest'
  <2>1. \A u \in Users : Attempt(u) > 0 => value[u] = queue[u][Attempt(u)].no
    BY DEF IInv, ValueNewest
  <2>2. value[user] = Q[Len(down)].no
    BY <1>5, <1>8, <2>1 DEF Attempt
  <2>3. ASSUME NEW u \in Users, Attempt(u)' > 0
        PROVE  value'[u] = queue'[u][Attempt(u)'].no
    <3>1. u = user /\ Attempt(u)' = Len(down) - 1 /\ Len(down) - 1 > 0
      BY <1>4, <1>8, <2>3 DEF Attempt
    <3>2. Len(down) - 1 \in 1..Len(Tail(Q)) /\ (Len(down) - 1) + 1 = Len(down)
      BY <1>8, <1>9, <1>10, <3>1
    <3>3. Tail(Q)[Len(down) - 1] = Q[Len(down)]
      BY <1>9, <3>2
    <3> QED BY <1>4, <2>2, <3>1, <3>3
  <2>4. ASSUME NEW u \in Users, NoneCommitted(u)', NEW m \in committed[u]
        PROVE  m <= value[u]
    <3>1. \A i \in 1..Len(queue'[u]) : queue'[u][i].no \notin committed[u]
      BY <1>4, <2>4 DEF NoneCommitted
    <3>2. CASE u # user
      BY <1>4, <2>4, <3>1, <3>2 DEF IInv, ValueNewest, NoneCommitted
    <3>3. CASE u = user
      <4>1. \A j \in 1..Len(Q) : Q[j].no \in committed[user] => j = 1
        <5> SUFFICES ASSUME NEW j \in 1..Len(Q), j # 1 PROVE Q[j].no \notin committed[user]
          OBVIOUS
        <5>1. PICK i \in 1..Len(queue'[user]) : queue'[user][i] = Q[j]
          BY <1>4, <1>5
        <5> QED BY <3>1, <3>3, <5>1
      <4>2. Len(down) = 1
        <5>1. Len(down) \in 1..Len(down) /\ Len(down) \in 1..Len(Q)
          BY <1>8, <1>9, <1>10
        <5>2. down[Len(down)].no \in committed[user]
          BY <5>1 DEF IInv, ServiceKnown
        <5> QED BY <1>10, <4>1, <5>1, <5>2
      <4>3. value[user] = Q[1].no /\ 1 \in 1..Len(Q)
        BY <1>8, <1>9, <1>10, <2>2, <4>2
      <4>4. m < Q[1].no \/ \E j \in 1..Len(Q) : m = Q[j].no
        BY <1>5, <3>3, <4>3 DEF IInv, ValueNewest
      <4>5. m < Q[1].no \/ m = Q[1].no
        BY <3>3, <4>1, <4>4
      <4>6. m \in Nat /\ Q[1].no \in Nat
        BY <1>5, <1>9, <3>3, <4>3, BatchOfSeq DEF IInv, TypeOK
      <4> QED BY <3>3, <4>3, <4>5, <4>6
    <3> QED BY <3>2, <3>3
  <2>5. \A u \in Users : \A m \in committed'[u] : \A i \in 1..Len(queue'[u]) :
          m < queue'[u][i].no \/ \E j \in 1..Len(queue'[u]) : m = queue'[u][j].no
    BY <1>4, ValuesAfterFront
  <2> QED BY <1>4, <2>3, <2>4, <2>5 DEF ValueNewest
<1> QED BY <1>4, <1>11, <1>12, <1>13, <1>14, <1>15, <1>16 DEF IInv

-------------------------------------------------------------------------------
(* The invariant                                                           *)

LEMMA InitIInv == ASSUME Init PROVE IInv
<1> USE EmptyBatches, PipelineAssumption DEF Init
<1>1. TypeOK
  <2>1. queue \in [Users -> Seq(Batch)] /\ value \in [Users -> 0..MaxWrites]
        /\ committed \in [Users -> SUBSET (1..MaxWrites)] /\ written \in 0..MaxWrites
    OBVIOUS
  <2>2. /\ callbacks \subseteq Callback /\ waits \subseteq Nat
        /\ told \subseteq (1..MaxWrites) \X {"ok", "error"}
    OBVIOUS
  <2>3. /\ enabled \in BOOLEAN /\ idle \in BOOLEAN /\ stale \in BOOLEAN
        /\ refusal \in BOOLEAN /\ failed \in BOOLEAN
    BY Zenon
  <2>5. user \in Users /\ nextId \in Nat \ {0}
    OBVIOUS
  <2>6. stream \in StreamState /\ shake \in Handshake
    BY DEF StreamState, Handshake
  <2>4. pipeline \in Seq(Batch) /\ up \in Seq(Batch) /\ down \in Seq(Batch)
    OBVIOUS
  <2> HIDE DEF Init
  <2> QED BY <2>1, <2>2, <2>3, <2>4, <2>5, <2>6 DEF TypeOK
<1>2. /\ PipelineFollowsQueue /\ AnswersMatchPipeline /\ NoAssertFails
      /\ CallersToldTheTruth /\ WaitsAreForQueued
  BY DEF PipelineFollowsQueue, AnswersMatchPipeline, NoAssertFails,
         CallersToldTheTruth, WaitsAreForQueued
<1>3. QueuesOrdered /\ CallShape /\ CallbacksOfQueued /\ ToldKnown
  BY DEF QueuesOrdered, Increasing, CallShape, IsStarted, CallbacksOfQueued, ToldKnown
<1>4. ServiceKnown /\ ValueNewest
  BY DEF ServiceKnown, ValueNewest, Attempt
<1> QED BY <1>1, <1>2, <1>3, <1>4 DEF IInv

LEMMA StepIInv == ASSUME IInv, [Next]_vars PROVE IInv'
<1>1. CASE Callers
  BY <1>1, WriteKeeps, WaitKeeps, AccountKeeps, ConnectivityKeeps, EnableKeeps, DisableKeeps
     DEF Callers
<1>2. CASE Client
  BY <1>2, StreamTasksKeep, IdleTimeoutKeeps, HandshakeKeeps, ResultKeeps, RejectedKeeps,
     RestartKeeps DEF Client
<1>3. CASE Service
  BY <1>3, StreamTasksKeep, CommitKeeps, ServiceRefusesKeeps DEF Service
<1>4. CASE UNCHANGED vars
  <2> USE <1>4 DEF vars, wire, disk, callers, service
  <2>1. TypeOK' /\ PipelineFollowsQueue' /\ AnswersMatchPipeline' /\ CallShape'
    BY DEF IInv, TypeOK, PipelineFollowsQueue, AnswersMatchPipeline, CallShape
  <2>2. NetFrame
    BY DEF NetFrame, IInv, ServiceKnown
  <2> QED BY <2>1, <2>2, NetQed
<1> QED BY <1>1, <1>2, <1>3, <1>4 DEF Next

(* The inductive invariant holds at every moment of every behaviour of the *)
(* pipeline, the stream, the queue on disk and the callers.                *)
THEOREM Invariant == Spec => []IInv
<1>1. Init => IInv
  BY InitIInv
<1>2. IInv /\ [Next]_vars => IInv'
  BY StepIInv
<1> QED BY <1>1, <1>2, PTL DEF Spec

(* Every variable of the write path (RemoteStore, Stream, SyncEngine)      *)
(* keeps its type.                                                         *)
THEOREM TypeCorrect == Spec => []TypeOK
<1>1. IInv => TypeOK
  BY DEF IInv
<1> QED BY <1>1, Invariant, PTL

(* No write is skipped, sent out of turn or sent for another account,      *)
(* whatever the size of the pipeline (RemoteStore::FillWritePipeline).     *)
THEOREM PipelineIsPrefix == Spec => []PipelineFollowsQueue
<1>1. IInv => PipelineFollowsQueue
  BY DEF IInv
<1> QED BY <1>1, Invariant, PTL

(* Counting the answers finds the right batch for each                     *)
(* (RemoteStore::OnWriteStreamMutationResult).                             *)
THEOREM AnswersAreMatched == Spec => []AnswersMatchPipeline
<1>1. IInv => AnswersMatchPipeline
  BY DEF IInv
<1> QED BY <1>1, Invariant, PTL

(* No HARD_ASSERT of the pipeline, the stream and the queue can fail.      *)
THEOREM AssertionsHold == Spec => []NoAssertFails
<1>1. IInv => NoAssertFails
  BY DEF IInv
<1> QED BY <1>1, Invariant, PTL

(* What a caller hears is what became of its own write                     *)
(* (SyncEngine::NotifyUser).                                               *)
THEOREM CallersHearTheTruth == Spec => []CallersToldTheTruth
<1>1. IInv => CallersToldTheTruth
  BY DEF IInv
<1> QED BY <1>1, Invariant, PTL

(* Nobody waits for a batch that is gone                                   *)
(* (SyncEngine::RegisterPendingWritesCallback).                            *)
THEOREM WaitsEnd == Spec => []WaitsAreForQueued
<1>1. IInv => WaitsAreForQueued
  BY DEF IInv
<1> QED BY <1>1, Invariant, PTL

(* Once an account's queue is empty the service holds its newest write,    *)
(* however often writes were sent again.                                   *)
THEOREM NewestSettles == Spec => []SettledOnNewest
<1>1. IInv => SettledOnNewest
  <2> SUFFICES ASSUME IInv, NEW u \in Users, queue[u] = <<>>, NEW n \in committed[u]
               PROVE  n <= value[u]
    BY DEF SettledOnNewest
  <2>1. NoneCommitted(u)
    BY EmptyBatches DEF NoneCommitted
  <2> QED BY <2>1 DEF IInv, ValueNewest
<1> QED BY <1>1, Invariant, PTL

-------------------------------------------------------------------------------
(* Writing goes on: what keeps the queue draining                          *)

(* While the network is enabled the pipeline holds all the room allows.    *)
PipelineFull ==
  enabled => Len(pipeline) = Len(queue[user]) \/ Len(pipeline) = MaxPendingWrites

(* A stream that has something to send is started, or about to be.         *)
StreamWanted == pipeline # <<>> => IsStarted(stream)

(* Something is under way for a queue that is not empty: credentials or a  *)
(* delay, a handshake, or batches with the service or answered by it.      *)
NeverStalls ==
  enabled /\ queue[user] # <<>> =>
    \/ stream \in {"Starting", "Backoff"}
    \/ stream = "Open" /\ shake \in {"sent", "answered"}
    \/ stream = "Open" /\ shake = "complete" /\ (up # <<>> \/ down # <<>>)

FullInv == PipelineFull /\ StreamWanted

(* Filling leaves no room while the queue has more, and starts the stream. *)
LEMMA FillLeavesFull ==
  ASSUME NEW q \in Seq(Batch), Increasing(q), NEW pipe \in Seq(Batch),
         Prefix(pipe, q), Len(pipe) <= MaxPendingWrites,
         NEW s, FillWritePipeline(q, pipe, s)
  PROVE  /\ Len(pipeline') = Len(q) \/ Len(pipeline') = MaxPendingWrites
         /\ pipeline' # <<>> => IsStarted(stream')
<1> DEFINE more == ToAdd(q, pipe)
<1>1. /\ more \in Seq(Batch)
      /\ Len(pipe) + Len(more) = Len(q) \/ Len(pipe) + Len(more) = MaxPendingWrites
  BY ToAddFollows
<1> HIDE DEF more
<1>2. Len(pipe \o more) = Len(pipe) + Len(more)
  BY <1>1, ConcatProperties
<1>3. /\ pipeline' = pipe \o more
      /\ stream' = IF ~IsStarted(s) /\ pipe \o more # <<>> THEN Started(s) ELSE s
  BY DEF FillWritePipeline, more
<1> QED BY <1>1, <1>2, <1>3 DEF IsStarted, Started

(* A pipeline filled from the account's queue is full.                     *)
LEMMA FilledIsFull ==
  ASSUME NEW u, user' = u, NEW q \in Seq(Batch), queue'[u] = q, Increasing(q),
         NEW pipe \in Seq(Batch), Prefix(pipe, q), Len(pipe) <= MaxPendingWrites,
         NEW s, FillWritePipeline(q, pipe, s)
  PROVE  FullInv'
BY FillLeavesFull DEF FullInv, PipelineFull, StreamWanted

LEMMA NothingInQueue ==
  ASSUME NEW q \in Seq(Batch)
  PROVE  <<>> \in Seq(Batch) /\ Prefix(<<>>, q) /\ Len(<<>>) <= MaxPendingWrites
BY EmptyBatches, LenProperties, PipelineAssumption DEF Prefix

LEMMA WriteKeepsFull == ASSUME IInv, FullInv, WriteMutations PROVE FullInv'
<1> DEFINE q == Append(queue[user], [id |-> nextId, no |-> written + 1])
<1>1. user \in Users /\ queue'[user] = q /\ user' = user /\ enabled' = enabled
  BY DEF WriteMutations, IInv, TypeOK
<1>2. IInv'
  BY WriteKeeps
<1>3. q \in Seq(Batch) /\ Increasing(q)
  BY <1>1, <1>2, QueueOf DEF IInv, TypeOK, QueuesOrdered
<1>4. Prefix(pipeline, q)
  <2>1. [id |-> nextId, no |-> written + 1] \in Batch
    BY PipelineAssumption DEF WriteMutations, IInv, TypeOK, Batch
  <2>2. Len(q) = Len(queue[user]) + 1 /\ \A i \in 1..Len(queue[user]) : q[i] = queue[user][i]
    BY <2>1, PipelineOf, AppendProperties
  <2>3. Len(pipeline) \in Nat /\ Len(queue[user]) \in Nat
    BY PipelineOf, LenProperties
  <2> HIDE DEF q
  <2> QED BY <2>2, <2>3, PipelineOf DEF Prefix
<1>5. CASE enabled
  <2>1. FillWritePipeline(q, pipeline, stream)
    BY <1>5 DEF WriteMutations
  <2> HIDE DEF q
  <2> QED BY <1>1, <1>3, <1>4, <2>1, PipelineOf, FilledIsFull
<1>6. CASE ~enabled
  <2>1. pipeline' = pipeline /\ stream' = stream
    BY <1>6 DEF WriteMutations
  <2> QED BY <1>1, <1>6, <2>1 DEF FullInv, PipelineFull, StreamWanted
<1> QED BY <1>5, <1>6

LEMMA AccountKeepsFull ==
  ASSUME IInv, FullInv, NEW u \in Users, HandleCredentialChange(u)
  PROVE  FullInv'
<1>1. queue' = queue /\ user' = u /\ enabled' = enabled
  BY DEF HandleCredentialChange, disk
<1>2. queue[u] \in Seq(Batch) /\ Increasing(queue[u])
  BY QueueOf
<1>3. CASE enabled
  <2>1. FillWritePipeline(queue[u], <<>>, "Initial")
    BY <1>3 DEF HandleCredentialChange, RestartNetwork
  <2> QED BY <1>1, <1>2, <2>1, NothingInQueue, FilledIsFull
<1>4. CASE ~enabled
  <2>1. pipeline' = pipeline /\ stream' = stream
    BY <1>4 DEF HandleCredentialChange
  <2> QED BY <1>1, <1>4, <2>1 DEF FullInv, PipelineFull, StreamWanted
<1> QED BY <1>3, <1>4

LEMMA RefillKeepsFull ==
  ASSUME IInv, ConnectivityChanges \/ EnableNetwork \/ Restart
  PROVE  FullInv'
<1>1. queue' = queue /\ user' = user
  BY DEF ConnectivityChanges, EnableNetwork, Restart, disk
<1>2. queue[user] \in Seq(Batch) /\ Increasing(queue[user])
  BY PipelineOf
<1>3. CASE EnableNetwork
  BY <1>1, <1>3, PipelineOf, FilledIsFull DEF EnableNetwork
<1>4. CASE ConnectivityChanges \/ Restart
  <2>1. FillWritePipeline(queue[user], <<>>, "Initial")
    BY <1>4 DEF ConnectivityChanges, RestartNetwork, Restart
  <2> QED BY <1>1, <1>2, <2>1, NothingInQueue, FilledIsFull
<1> QED BY <1>3, <1>4

(* An answer makes room, and CompleteFront fills it.                       *)
LEMMA AnswerKeepsFull ==
  ASSUME IInv, FullInv, OnWriteStreamMutationResult \/ OnWriteRejected
  PROVE  FullInv'
<1>1. CASE FrontIsQueued /\ \E result, s : CompleteFront(result, s)
  <2> PICK result, s : CompleteFront(result, s)
    BY <1>1
  <2>1. pipeline # <<>>
    BY <1>1 DEF FrontIsQueued
  <2> DEFINE q == Tail(queue[user])
  <2>2. /\ Without(queue[user], Head(pipeline).id) = q
        /\ Tail(pipeline) \in Seq(Batch) /\ Prefix(Tail(pipeline), q)
        /\ Len(Tail(pipeline)) <= MaxPendingWrites
        /\ q \in Seq(Batch) /\ Increasing(q)
    BY <2>1, FrontOf
  <2>3. queue' = [queue EXCEPT ![user] = q] /\ user' = user
        /\ FillWritePipeline(q, Tail(pipeline), s)
    BY <2>2 DEF CompleteFront
  <2>4. queue'[user] = q
    BY <2>3 DEF IInv, TypeOK
  <2> HIDE DEF q
  <2> QED BY <2>2, <2>3, <2>4, FilledIsFull
<1>2. CASE OnWriteRejected /\ pipeline = <<>>
  BY <1>2 DEF OnWriteRejected, CloseOnError, FullInv, PipelineFull, StreamWanted, disk
<1>3. CASE ~FrontIsQueued /\ pipeline # <<>>
  <2>1. pipeline' = pipeline /\ queue' = queue /\ UNCHANGED <<user, enabled, stream>>
    BY <1>3 DEF OnWriteStreamMutationResult, OnWriteRejected, HardAssert, disk
  <2> QED BY <2>1 DEF FullInv, PipelineFull, StreamWanted
<1>4. CASE OnWriteStreamMutationResult /\ ~FrontIsQueued
  <2>1. pipeline' = pipeline /\ queue' = queue /\ UNCHANGED <<user, enabled, stream>>
    BY <1>4 DEF OnWriteStreamMutationResult, HardAssert, disk
  <2> QED BY <2>1 DEF FullInv, PipelineFull, StreamWanted
<1>5. CASE FrontIsQueued
  BY <1>1, <1>2, <1>5 DEF OnWriteStreamMutationResult, OnWriteRejected, HardAssert
<1> QED BY <1>2, <1>3, <1>4, <1>5

(* The stream's other tasks leave the pipeline alone; those that close the *)
(* stream start it again unless there is nothing to send.                  *)
LEMMA StreamKeepsFull ==
  ASSUME IInv, FullInv,
         \/ CredentialsArrive \/ StaleCredentialsArrive \/ StreamFails
         \/ BackoffElapses \/ HandshakeCompletes \/ IdleTimeout
         \/ WaitForPendingWrites \/ ServiceGreets \/ ServiceCommits \/ ServiceRefuses
         \/ UNCHANGED vars
  PROVE  FullInv'
<1> USE DEF FullInv, PipelineFull, StreamWanted
<1>1. pipeline' = pipeline /\ queue' = queue /\ UNCHANGED <<user, enabled>>
  BY DEF CredentialsArrive, StaleCredentialsArrive, StreamFails, CloseOnError,
         BackoffElapses, HandshakeCompletes, IdleTimeout, HardAssert,
         WaitForPendingWrites, ServiceGreets, ServiceCommits, ServiceRefuses, vars, disk
<1>2. pipeline # <<>> => IsStarted(stream')
  <2>1. CASE StreamFails
    BY <2>1 DEF StreamFails, CloseOnError, IsStarted
  <2>2. CASE IdleTimeout
    BY <2>2 DEF IdleTimeout, IInv, CallShape
  <2>3. CASE CredentialsArrive \/ BackoffElapses
    BY <2>3 DEF CredentialsArrive, BackoffElapses, IsStarted
  <2>4. CASE ~(StreamFails \/ IdleTimeout \/ CredentialsArrive \/ BackoffElapses)
    BY <2>4 DEF StaleCredentialsArrive, HandshakeCompletes, WaitForPendingWrites,
                ServiceGreets, ServiceCommits, ServiceRefuses, vars
  <2> QED BY <2>1, <2>2, <2>3, <2>4
<1> QED BY <1>1, <1>2

LEMMA StepFull == ASSUME IInv, FullInv, [Next]_vars PROVE FullInv'
<1>1. CASE DisableNetwork
  BY <1>1 DEF DisableNetwork, FullInv, PipelineFull, StreamWanted
<1>2. CASE Callers
  BY <1>1, <1>2, WriteKeepsFull, AccountKeepsFull, RefillKeepsFull, StreamKeepsFull
     DEF Callers
<1>3. CASE Client
  BY <1>3, AnswerKeepsFull, RefillKeepsFull, StreamKeepsFull DEF Client
<1>4. CASE Service \/ UNCHANGED vars
  BY <1>4, StreamKeepsFull DEF Service
<1> QED BY <1>2, <1>3, <1>4 DEF Next

(* The pipeline is never short of a write the queue holds and there is     *)
(* room for, and the stream under it never rests while it has something to *)
(* send (RemoteStore::FillWritePipeline and OnWriteStreamClose).           *)
THEOREM PipelineStaysFull == Spec => []FullInv
<1>1. Init => FullInv
  <2> SUFFICES ASSUME Init PROVE FullInv
    OBVIOUS
  <2> QED BY DEF Init, FullInv, PipelineFull, StreamWanted
<1>2. IInv /\ FullInv /\ [Next]_vars => FullInv'
  BY StepFull
<1> QED BY <1>1, <1>2, Invariant, PTL DEF Spec

(* While the network is enabled, a queue that is not empty always has      *)
(* something under way for it: after no failure, rejection, change of      *)
(* account or restart does the client sit and wait for nothing.  With      *)
(* fairness this is why QueueDrains.                                       *)
THEOREM QueueNeverStalls == Spec => []NeverStalls
<1>1. IInv /\ FullInv => NeverStalls
  <2> SUFFICES ASSUME IInv, FullInv, enabled, queue[user] # <<>>
               PROVE  \/ stream \in {"Starting", "Backoff"}
                      \/ stream = "Open" /\ shake \in {"sent", "answered"}
                      \/ stream = "Open" /\ shake = "complete" /\ (up # <<>> \/ down # <<>>)
    BY DEF NeverStalls
  <2>1. pipeline # <<>>
    <3>1. Len(queue[user]) # 0
      BY PipelineOf, EmptySeq
    <3> QED BY <3>1, EmptyBatches, PipelineAssumption DEF FullInv, PipelineFull
  <2>2. IsStarted(stream)
    BY <2>1 DEF FullInv, StreamWanted
  <2>3. CASE stream = "Open" /\ shake = "complete"
    BY <2>1, <2>3, EmptyBatches, ConcatEmptySeq DEF IInv, AnswersMatchPipeline
  <2> QED BY <2>2, <2>3 DEF IsStarted, IInv, TypeOK, Handshake, CallShape
<1> QED BY <1>1, Invariant, PipelineStaysFull, PTL

-------------------------------------------------------------------------------
(* The client implements WriteQueue                                        *)

(* The queues and the callers as WriteQueue knows them.                    *)
LEMMA WritesOf ==
  ASSUME NEW q \in Seq(Batch)
  PROVE  /\ Writes(q) \in Seq(Nat) /\ Len(Writes(q)) = Len(q)
         /\ \A i \in 1..Len(q) : Writes(q)[i] = q[i].no
<1>1. Len(q) \in Nat
  BY LenProperties
<1>2. \A i \in 1..Len(q) : q[i].no \in Nat
  BY BatchOfSeq
<1>3. Writes(q) = [i \in 1..Len(q) |-> q[i].no]
  BY DEF Writes
<1>4. Writes(q) \in [1..Len(q) -> Nat]
  BY <1>2, <1>3
<1>5. Writes(q) \in Seq(Nat)
  BY <1>1, <1>4, IsASeq
<1>6. Len(Writes(q)) = Len(q)
  BY <1>1, <1>4, <1>5, LenProperties
<1> QED BY <1>3, <1>5, <1>6

LEMMA WritesAppend ==
  ASSUME NEW q \in Seq(Batch), NEW b \in Batch
  PROVE  Writes(Append(q, b)) = Append(Writes(q), b.no)
<1>1. /\ Append(q, b) \in Seq(Batch) /\ Len(Append(q, b)) = Len(q) + 1
      /\ \A i \in 1..Len(q) : Append(q, b)[i] = q[i]
      /\ Append(q, b)[Len(q) + 1] = b
  BY AppendProperties
<1>2. Len(q) \in Nat /\ b.no \in Nat
  BY LenProperties DEF Batch
<1>3. /\ Append(Writes(q), b.no) \in Seq(Nat)
      /\ Len(Append(Writes(q), b.no)) = Len(q) + 1
      /\ \A i \in 1..Len(q) : Append(Writes(q), b.no)[i] = q[i].no
      /\ Append(Writes(q), b.no)[Len(q) + 1] = b.no
  BY <1>2, WritesOf, AppendProperties
<1>4. /\ Writes(Append(q, b)) \in Seq(Nat) /\ Len(Writes(Append(q, b))) = Len(q) + 1
      /\ \A i \in 1..Len(q) + 1 : Writes(Append(q, b))[i] = Append(q, b)[i].no
  BY <1>1, WritesOf
<1>5. \A i \in 1..Len(q) + 1 : Writes(Append(q, b))[i] = Append(Writes(q), b.no)[i]
  BY <1>1, <1>2, <1>3, <1>4
<1> QED BY <1>3, <1>4, <1>5, SeqEqual

LEMMA WritesTail ==
  ASSUME NEW q \in Seq(Batch), q # <<>>
  PROVE  /\ Writes(Tail(q)) = Tail(Writes(q)) /\ Writes(q) # <<>>
         /\ Head(Writes(q)) = q[1].no
<1>1. /\ Tail(q) \in Seq(Batch) /\ Len(Tail(q)) = Len(q) - 1
      /\ \A i \in 1..Len(Tail(q)) : Tail(q)[i] = q[i + 1]
  BY HeadTailProperties
<1>2. Len(q) \in Nat \ {0}
  BY HeadIsFirst
<1>3. /\ Writes(q) \in Seq(Nat) /\ Len(Writes(q)) = Len(q)
      /\ \A i \in 1..Len(q) : Writes(q)[i] = q[i].no
  BY WritesOf
<1>4. Writes(q) # <<>>
  BY <1>2, <1>3, EmptySeq
<1>5. /\ Tail(Writes(q)) \in Seq(Nat) /\ Len(Tail(Writes(q))) = Len(q) - 1
      /\ \A i \in 1..Len(q) - 1 : Tail(Writes(q))[i] = Writes(q)[i + 1]
  BY <1>3, <1>4, HeadTailProperties
<1>6. /\ Writes(Tail(q)) \in Seq(Nat) /\ Len(Writes(Tail(q))) = Len(q) - 1
      /\ \A i \in 1..Len(q) - 1 : Writes(Tail(q))[i] = Tail(q)[i].no
  BY <1>1, WritesOf
<1>7. \A i \in 1..Len(q) - 1 : i + 1 \in 1..Len(q)
  BY <1>2
<1>8. \A i \in 1..Len(q) - 1 : Writes(Tail(q))[i] = Tail(Writes(q))[i]
  BY <1>1, <1>3, <1>5, <1>6, <1>7
<1>9. Writes(Tail(q)) = Tail(Writes(q))
  BY <1>5, <1>6, <1>8, SeqEqual
<1>10. Head(Writes(q)) = Writes(q)[1] /\ 1 \in 1..Len(q)
  BY <1>2, <1>3, <1>4
<1> QED BY <1>3, <1>4, <1>9, <1>10

(* The caller told of the front, and only that one, leaves.                *)
LEMMA FrontTold ==
  ASSUME IInv, queue[user] # <<>>, NEW result
  PROVE  LET b == queue[user][1]
             waiting == {c.no : c \in callbacks}
         IN  /\ {<<c.no, result>> : c \in ToNotify(b.id)}
                  = IF b.no \in waiting THEN {<<b.no, result>>} ELSE {}
             /\ {c.no : c \in callbacks \ ToNotify(b.id)} = waiting \ {b.no}
<1> DEFINE b == queue[user][1]
<1>1. \A c \in ToNotify(b.id) : c \in callbacks /\ c.no = b.no
  BY NotifiedIsFront DEF ToNotify
<1>2. ASSUME NEW c \in callbacks, c.no = b.no PROVE c \in ToNotify(b.id)
  <2>1. c.user \in Users
    BY DEF IInv, TypeOK, Callback
  <2>2. PICK i \in 1..Len(queue[c.user]) :
          queue[c.user][i].id = c.id /\ queue[c.user][i].no = c.no
    BY DEF IInv, CallbacksOfQueued
  <2>3. user \in Users /\ queue[user] \in Seq(Batch) /\ Increasing(queue[user])
    BY PipelineOf
  <2>4. 1 \in 1..Len(queue[user]) /\ Len(queue[user]) \in Nat
    BY <2>3, HeadIsFirst
  <2>5. c.user = user
    BY <1>2, <2>1, <2>2, <2>3, <2>4 DEF IInv, QueuesOrdered
  <2>6. i = 1
    <3>1. queue[user][i].no \in 1..MaxWrites /\ b.no \in 1..MaxWrites
      BY <2>2, <2>3, <2>4, <2>5, BatchOfSeq
    <3>2. 1 < i => b.no < queue[user][i].no
      BY <2>2, <2>3, <2>4, <2>5 DEF Increasing
    <3> QED BY <1>2, <2>2, <2>4, <2>5, <3>1, <3>2
  <2> QED BY <2>2, <2>5, <2>6 DEF ToNotify
<1> HIDE DEF b
<1>3. {<<c.no, result>> : c \in ToNotify(b.id)}
        = IF b.no \in {c.no : c \in callbacks} THEN {<<b.no, result>>} ELSE {}
  BY <1>1, <1>2
<1>4. {c.no : c \in callbacks \ ToNotify(b.id)} = {c.no : c \in callbacks} \ {b.no}
  BY <1>1, <1>2
<1> QED BY <1>3, <1>4 DEF b

(* How an account's attempt ends: its answers are lost.                    *)
LEMMA RetryOrStutter ==
  ASSUME IInv,
         UNCHANGED <<queue, written, committed, value, told, callbacks>>, user' \in Users,
         (user' = user /\ down' = down) \/ down' = <<>>
  PROVE  [WQ!Next]_(WQ!abstractVars)
<1>0. user \in Users
  BY PipelineOf
<1>1. CASE user' = user /\ down' = down
  BY <1>1 DEF WQ!abstractVars
<1>2. CASE down' = <<>>
  <2>1. [u \in Users |-> IF u = user THEN Len(down) ELSE 0]'
          = [[u \in Users |-> IF u = user THEN Len(down) ELSE 0] EXCEPT ![user] = 0]
    <3>1. [u \in Users |-> IF u = user THEN Len(down) ELSE 0]' = [u \in Users |-> 0]
      BY <1>2, EmptyBatches
    <3>2. [[u \in Users |-> IF u = user THEN Len(down) ELSE 0] EXCEPT ![user] = 0]
            = [u \in Users |-> 0]
      BY <1>0
    <3> QED BY <3>1, <3>2
  <2>2. \E u \in Users : WQ!Retry(u)
    BY <1>0, <2>1 DEF WQ!Retry
  <2> QED BY <2>2 DEF WQ!Next
<1> QED BY <1>1, <1>2

LEMMA InitMaps == ASSUME Init PROVE WQ!Init
<1>1. /\ queue = [u \in Users |-> <<>>] /\ written = 0 /\ down = <<>> /\ callbacks = {} /\ told = {}
      /\ committed = [u \in Users |-> {}] /\ value = [u \in Users |-> 0]
  BY DEF Init
<1>2. Writes(<<>>) = <<>>
  <2>1. Writes(<<>>) \in Seq(Nat) /\ Len(Writes(<<>>)) = 0
    BY EmptyBatches, WritesOf
  <2> QED BY <2>1, EmptySeq
<1>3. [u \in Users |-> Writes(queue[u])] = [u \in Users |-> <<>>]
  BY <1>1, <1>2
<1>4. [u \in Users |-> IF u = user THEN Len(down) ELSE 0] = [u \in Users |-> 0]
  BY <1>1, EmptyBatches
<1> QED BY <1>1, <1>3, <1>4 DEF WQ!Init

LEMMA WriteMaps == ASSUME IInv, WriteMutations PROVE \E u \in Users : WQ!Enqueue(u)
<1> DEFINE new == [id |-> nextId, no |-> written + 1]
<1>1. /\ new \in Batch /\ user \in Users /\ queue[user] \in Seq(Batch)
      /\ new.no = written + 1
  <2>1. written + 1 \in 1..MaxWrites /\ nextId \in Nat \ {0}
    BY PipelineAssumption DEF WriteMutations, IInv, TypeOK
  <2> QED BY <2>1, PipelineOf DEF Batch
<1>2. ~\E c \in callbacks : c.user = user /\ c.id = nextId
  <2> SUFFICES ASSUME NEW c \in callbacks, c.user = user, c.id = nextId PROVE FALSE
    OBVIOUS
  <2>1. PICK i \in 1..Len(queue[user]) : queue[user][i].id = nextId
    BY DEF IInv, CallbacksOfQueued
  <2>2. queue[user][i].id < nextId
    BY <1>1 DEF IInv, QueuesOrdered
  <2> QED BY <2>1, <2>2 DEF IInv, TypeOK
<1>3. /\ queue' = [queue EXCEPT ![user] = Append(queue[user], new)]
      /\ written' = written + 1
      /\ callbacks' = callbacks \cup {[user |-> user, id |-> nextId, no |-> written + 1]}
      /\ UNCHANGED <<user, down, committed, value, told>>
  BY <1>2 DEF WriteMutations, service
<1> HIDE DEF new
<1>4. [u \in Users |-> Writes(queue[u])]'
        = [[u \in Users |-> Writes(queue[u])] EXCEPT ![user] = Append(@, written + 1)]
  <2>1. Writes(Append(queue[user], new)) = Append(Writes(queue[user]), written + 1)
    BY <1>1, WritesAppend
  <2>2. \A u \in Users : queue'[u] = IF u = user THEN Append(queue[user], new) ELSE queue[u]
    BY <1>1, <1>3 DEF IInv, TypeOK
  <2> QED BY <1>1, <2>1, <2>2
<1>5. {c.no : c \in callbacks}' = {c.no : c \in callbacks} \cup {written + 1}
  <2>1. callbacks' = callbacks \cup {[user |-> user, id |-> nextId, no |-> written + 1]}
    BY <1>3
  <2> DEFINE cb == [user |-> user, id |-> nextId, no |-> written + 1]
  <2>2. cb.no = written + 1 /\ callbacks' = callbacks \cup {cb}
    BY <2>1
  <2> HIDE DEF cb
  <2>3. {c.no : c \in callbacks \cup {cb}} = {c.no : c \in callbacks} \cup {cb.no}
    OBVIOUS
  <2> QED BY <2>2, <2>3
<1> QED BY <1>1, <1>3, <1>4, <1>5 DEF WQ!Enqueue

LEMMA CommitMaps == ASSUME IInv, ServiceCommits PROVE \E u \in Users : WQ!Commit(u)
<1> USE DEF ServiceCommits
<1> DEFINE k == Len(down) + 1
<1>1. /\ user \in Users /\ queue[user] \in Seq(Batch) /\ up \in Seq(Batch) /\ up # <<>>
      /\ down \in Seq(Batch) /\ Len(queue[user]) \in Nat
  BY PipelineOf, LenProperties DEF IInv, TypeOK
<1>2. /\ Len(down) \in Nat /\ Len(up) \in Nat \ {0} /\ Head(up) = up[1]
      /\ Len(down) + Len(up) <= Len(queue[user])
      /\ \A i \in 1..Len(up) : up[i] = queue[user][Len(down) + i]
  BY <1>1, AnswersInQueue, HeadIsFirst
<1>3. k \in 1..Len(queue[user]) /\ Head(up) = queue[user][k] /\ Head(up) \in Batch
  BY <1>1, <1>2, BatchOfSeq
<1>4. Writes(queue[user])[k] = Head(up).no /\ Len(Writes(queue[user])) = Len(queue[user])
  BY <1>1, <1>3, WritesOf
<1>5. Len(down') = k
  BY <1>1, <1>3, AppendProperties
<1>6. /\ committed' = [committed EXCEPT ![user] = @ \cup {Head(up).no}]
      /\ value' = [value EXCEPT ![user] = Head(up).no]
      /\ UNCHANGED <<queue, written, user, callbacks, told>>
  BY DEF disk, callers
<1> HIDE DEF k, ServiceCommits
<1>7. [u \in Users |-> IF u = user THEN Len(down) ELSE 0]'
        = [[u \in Users |-> IF u = user THEN Len(down) ELSE 0] EXCEPT ![user] = @ + 1]
  BY <1>1, <1>5, <1>6 DEF k
<1>8. [u \in Users |-> IF u = user THEN Len(down) ELSE 0][user] + 1 = k
      /\ [u \in Users |-> Writes(queue[u])][user] = Writes(queue[user])
  BY <1>1 DEF k
<1>9. [u \in Users |-> IF u = user THEN Len(down) ELSE 0][user] < Len(Writes(queue[user]))
  BY <1>1, <1>2, <1>3, <1>4 DEF k
<1> QED BY <1>1, <1>4, <1>6, <1>7, <1>8, <1>9 DEF WQ!Commit

(* The front leaves the queue and its caller is told.                      *)
LEMMA FrontMaps ==
  ASSUME IInv, pipeline # <<>>, NEW result, NEW s, CompleteFront(result, s)
  PROVE  /\ [u \in Users |-> Writes(queue[u])]'
              = [[u \in Users |-> Writes(queue[u])] EXCEPT ![user] = Tail(@)]
         /\ Writes(queue[user]) # <<>> /\ Head(Writes(queue[user])) = queue[user][1].no
         /\ told' = told \cup WQ!Tell(queue[user][1].no, result)
         /\ {c.no : c \in callbacks}' = {c.no : c \in callbacks} \ {queue[user][1].no}
         /\ UNCHANGED <<written, user, committed, value>>
<1>1. /\ queue[user] # <<>> /\ Head(pipeline) = queue[user][1]
      /\ Without(queue[user], Head(pipeline).id) = Tail(queue[user])
      /\ user \in Users /\ queue[user] \in Seq(Batch)
  BY FrontOf, PipelineOf
<1>2. /\ queue' = [queue EXCEPT ![user] = Tail(queue[user])]
      /\ told' = told \cup {<<c.no, result>> : c \in ToNotify(queue[user][1].id)}
      /\ callbacks' = callbacks \ ToNotify(queue[user][1].id)
      /\ UNCHANGED <<written, user, committed, value>>
  BY <1>1 DEF CompleteFront, Notify, service
<1>3. Writes(Tail(queue[user])) = Tail(Writes(queue[user])) /\ Writes(queue[user]) # <<>>
      /\ Head(Writes(queue[user])) = queue[user][1].no
  BY <1>1, WritesTail
<1>4. \A u \in Users : queue'[u] = IF u = user THEN Tail(queue[user]) ELSE queue[u]
  BY <1>1, <1>2 DEF IInv, TypeOK
<1>5. [u \in Users |-> Writes(queue[u])]'
        = [[u \in Users |-> Writes(queue[u])] EXCEPT ![user] = Tail(@)]
  BY <1>1, <1>3, <1>4
<1>6. told' = told \cup WQ!Tell(queue[user][1].no, result)
  BY <1>1, <1>2, FrontTold DEF WQ!Tell
<1>7. {c.no : c \in callbacks}' = {c.no : c \in callbacks} \ {queue[user][1].no}
  BY <1>1, <1>2, FrontTold
<1> QED BY <1>2, <1>3, <1>5, <1>6, <1>7

LEMMA ResultMaps == ASSUME IInv, OnWriteStreamMutationResult PROVE \E u \in Users : WQ!Acknowledge(u)
<1>1. /\ stream = "Open" /\ shake = "complete" /\ down # <<>> /\ pipeline # <<>>
      /\ Head(pipeline) = queue[user][1] /\ user \in Users
  BY FrontCommitted, PipelineOf DEF OnWriteStreamMutationResult
<1>2. FrontIsQueued
  <2>1. Head(pipeline) = queue[user][1] /\ 1 \in 1..Len(queue[user])
    BY <1>1, FrontOf
  <2> QED BY <1>1, <2>1 DEF FrontIsQueued, InQueue
<1>3. CompleteFront("ok", "Open") /\ down' = Tail(down)
  BY <1>2 DEF OnWriteStreamMutationResult, HardAssert
<1>4. /\ [u \in Users |-> Writes(queue[u])]'
           = [[u \in Users |-> Writes(queue[u])] EXCEPT ![user] = Tail(@)]
      /\ Writes(queue[user]) # <<>> /\ Head(Writes(queue[user])) = queue[user][1].no
      /\ told' = told \cup WQ!Tell(queue[user][1].no, "ok")
      /\ {c.no : c \in callbacks}' = {c.no : c \in callbacks} \ {queue[user][1].no}
      /\ UNCHANGED <<written, user, committed, value>>
  BY <1>1, <1>3, FrontMaps
<1>5. Len(down) \in Nat \ {0} /\ Len(down') = Len(down) - 1
  BY <1>1, <1>3, HeadIsFirst, HeadTailProperties DEF IInv, TypeOK
<1>6. [u \in Users |-> IF u = user THEN Len(down) ELSE 0]'
        = [[u \in Users |-> IF u = user THEN Len(down) ELSE 0] EXCEPT ![user] = @ - 1]
  BY <1>1, <1>4, <1>5
<1>7. [u \in Users |-> IF u = user THEN Len(down) ELSE 0][user] > 0
      /\ [u \in Users |-> Writes(queue[u])][user] = Writes(queue[user])
  BY <1>1, <1>5
<1> QED BY <1>1, <1>4, <1>6, <1>7 DEF WQ!Acknowledge

LEMMA RejectedMaps ==
  ASSUME IInv, OnWriteRejected PROVE [WQ!Next]_(WQ!abstractVars)
<1>1. CASE pipeline = <<>>
  <2>1. UNCHANGED <<queue, written, committed, value, told, callbacks, user>> /\ down' = <<>>
    BY <1>1 DEF OnWriteRejected, CloseOnError, CallGone, disk, callers, service
  <2> QED BY <2>1, RetryOrStutter, PipelineOf
<1>2. CASE pipeline # <<>>
  <2>1. Head(pipeline) = queue[user][1] /\ 1 \in 1..Len(queue[user]) /\ user \in Users
    BY <1>2, FrontOf, PipelineOf
  <2>2. FrontIsQueued
    BY <1>2, <2>1 DEF FrontIsQueued, InQueue
  <2>3. /\ CompleteFront("error", "Initial") /\ CallGone
        /\ stream = "Open" /\ shake = "complete" /\ down = <<>> /\ refusal
    BY <1>2, <2>2 DEF OnWriteRejected, HardAssert
  <2>4. /\ [u \in Users |-> Writes(queue[u])]'
             = [[u \in Users |-> Writes(queue[u])] EXCEPT ![user] = Tail(@)]
        /\ Writes(queue[user]) # <<>> /\ Head(Writes(queue[user])) = queue[user][1].no
        /\ told' = told \cup WQ!Tell(queue[user][1].no, "error")
        /\ {c.no : c \in callbacks}' = {c.no : c \in callbacks} \ {queue[user][1].no}
        /\ UNCHANGED <<written, user, committed, value>>
    BY <1>2, <2>3, FrontMaps
  <2>5. queue[user][1].no \notin committed[user]
    <3>1. Head(up).no \notin committed[user] /\ up \in Seq(Batch) /\ pipeline = down \o up
      BY <2>3 DEF IInv, ServiceKnown, TypeOK, AnswersMatchPipeline
    <3>2. pipeline = up
      BY <2>3, <3>1, ConcatEmptySeq
    <3> QED BY <2>1, <3>1, <3>2
  <2>6. down' = down /\ Len(down) = 0
    BY <2>3, EmptyBatches DEF CallGone
  <2>7. [u \in Users |-> IF u = user THEN Len(down) ELSE 0][user] = 0
        /\ [u \in Users |-> Writes(queue[u])][user] = Writes(queue[user])
    BY <2>1, <2>6
  <2>8. \E u \in Users : WQ!Refuse(u)
    BY <2>1, <2>4, <2>5, <2>6, <2>7 DEF WQ!Refuse
  <2> QED BY <2>8 DEF WQ!Next
<1> QED BY <1>1, <1>2

LEMMA RestartMaps == ASSUME IInv, Restart PROVE WQ!Restart
<1>1. /\ UNCHANGED <<queue, written, user, committed, value>>
      /\ callbacks' = {} /\ down' = <<>>
  BY DEF Restart, CallGone, disk, service
<1>2. [u \in Users |-> IF u = user THEN Len(down) ELSE 0]' = [u \in Users |-> 0]
  BY <1>1, EmptyBatches
<1>3. {c.no : c \in callbacks}' = {}
  BY <1>1
<1>4. \/ UNCHANGED told
      \/ \E u \in Users :
           /\ [v \in Users |-> IF v = user THEN Len(down) ELSE 0][u] > 0
           /\ [v \in Users |-> Writes(queue[v])][u] # <<>>
           /\ told' = told \cup WQ!Tell(Head([v \in Users |-> Writes(queue[v])][u]), "ok")
  <2>1. CASE UNCHANGED told
    BY <2>1
  <2>2. CASE /\ stream = "Open" /\ shake = "complete" /\ down # <<>> /\ pipeline # <<>>
             /\ told' = told \cup {<<c.no, "ok">> : c \in ToNotify(Head(pipeline).id)}
    <3>1. /\ queue[user] # <<>> /\ Head(pipeline) = queue[user][1]
          /\ user \in Users /\ queue[user] \in Seq(Batch)
      BY <2>2, FrontOf, PipelineOf
    <3>2. Writes(queue[user]) # <<>> /\ Head(Writes(queue[user])) = queue[user][1].no
      BY <3>1, WritesTail
    <3>3. Len(down) > 0
      BY <2>2, HeadIsFirst DEF IInv, TypeOK
    <3>4. told' = told \cup WQ!Tell(queue[user][1].no, "ok")
      BY <2>2, <3>1, FrontTold DEF WQ!Tell
    <3> QED BY <3>1, <3>2, <3>3, <3>4
  <2> QED BY <2>1, <2>2 DEF Restart
<1> QED BY <1>1, <1>2, <1>3, <1>4 DEF WQ!Restart

LEMMA StepMaps == ASSUME IInv, [Next]_vars PROVE [WQ!Next]_(WQ!abstractVars)
<1>1. user \in Users
  BY PipelineOf
<1>2. CASE WriteMutations
  BY <1>1, <1>2, WriteMaps DEF WQ!Next
<1>3. CASE ServiceCommits
  BY <1>1, <1>3, CommitMaps DEF WQ!Next
<1>4. CASE OnWriteStreamMutationResult
  BY <1>1, <1>4, ResultMaps DEF WQ!Next
<1>5. CASE OnWriteRejected
  BY <1>5, RejectedMaps
<1>6. CASE Restart
  BY <1>6, RestartMaps DEF WQ!Next
<1>7. CASE WaitForPendingWrites \/ EnableNetwork \/ UNCHANGED vars
  <2>1. /\ UNCHANGED <<queue, written, committed, value, told, callbacks>>
        /\ user' = user /\ down' = down
    BY <1>7 DEF WaitForPendingWrites, EnableNetwork, vars, disk, wire, callers, service
  <2> QED BY <1>1, <2>1, RetryOrStutter
<1>8. CASE ConnectivityChanges \/ DisableNetwork
  <2>1. /\ UNCHANGED <<queue, written, committed, value, told, callbacks>>
        /\ user' = user /\ down' = <<>>
    BY <1>8 DEF ConnectivityChanges, RestartNetwork, DisableNetwork, CallGone,
                disk, callers, service
  <2> QED BY <1>1, <2>1, RetryOrStutter
<1>9. ASSUME NEW u \in Users, HandleCredentialChange(u)
      PROVE  [WQ!Next]_(WQ!abstractVars)
  <2>1. UNCHANGED <<queue, written, committed, value, told, callbacks>> /\ user' = u
    BY <1>9 DEF HandleCredentialChange, disk, service
  <2>2. CASE enabled
    <3>1. down' = <<>>
      BY <1>9, <2>2 DEF HandleCredentialChange, RestartNetwork, CallGone
    <3> QED BY <2>1, <3>1, RetryOrStutter
  <2>3. CASE ~enabled
    <3>1. down' = <<>>
      BY <1>9, <2>3 DEF HandleCredentialChange, wire, IInv, CallShape, IsStarted
    <3> QED BY <2>1, <3>1, RetryOrStutter
  <2> QED BY <2>2, <2>3
<1>10. CASE \/ CredentialsArrive \/ StaleCredentialsArrive \/ BackoffElapses
            \/ HandshakeCompletes \/ ServiceGreets \/ ServiceRefuses
  <2>1. /\ UNCHANGED <<queue, written, committed, value, told, callbacks>>
        /\ user' = user /\ down' = down
    BY <1>10 DEF CredentialsArrive, StaleCredentialsArrive, BackoffElapses,
                 HandshakeCompletes, ServiceGreets, ServiceRefuses,
                 disk, wire, callers, service
  <2> QED BY <1>1, <2>1, RetryOrStutter
<1>11. CASE StreamFails \/ IdleTimeout
  <2>1. IdleTimeout => pipeline = <<>>
    BY DEF IdleTimeout, IInv, CallShape
  <2>2. /\ UNCHANGED <<queue, written, committed, value, told, callbacks>>
        /\ user' = user /\ down' = <<>>
    BY <1>11, <2>1 DEF StreamFails, CloseOnError, IdleTimeout, HardAssert, CallGone,
                disk, callers, service
  <2> QED BY <1>1, <2>2, RetryOrStutter
<1> QED BY <1>2, <1>3, <1>4, <1>5, <1>6, <1>7, <1>8, <1>9, <1>10, <1>11
        DEF Next, Callers, Client, Service

(* Whatever the connection does, the client keeps WriteQueue's promise:    *)
(* a durable queue, committed in order and at least once, and callers told *)
(* at most once and only of their own writes.                              *)
THEOREM ClientImplementsWriteQueue == Spec => ImplementsWriteQueue
<1>1. Init => WQ!Init
  BY InitMaps
<1>2. IInv /\ [Next]_vars => [WQ!Next]_(WQ!abstractVars)
  BY StepMaps
<1> QED BY <1>1, <1>2, Invariant, PTL DEF Spec, ImplementsWriteQueue, WQ!Spec

===============================================================================
