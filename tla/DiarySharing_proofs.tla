-------------------------- MODULE DiarySharing_proofs --------------------------
(***************************************************************************)
(* Proofs about DiarySharing: the inductive invariant IInv, the invariants *)
(* it implies, and the refinement of Membership.                           *)
(***************************************************************************)
EXTENDS DiarySharing, SequenceTheorems, TLAPS

-------------------------------------------------------------------------------
(* Every write the app can issue is well formed. *)
LEMMA WritesTyped ==
    /\ \A u \in Users : CreateUser(u) \in Writes
    /\ \A d \in Diaries : SetDiaryID(d) \in Writes
    /\ \A d \in Diaries, u \in Users :
          /\ CreateDiary(d, u) \in Writes
          /\ AddMember(d, u) \in Writes
          /\ ListDiary(u, d) \in Writes
  BY DEF Writes, CreateUser, SetDiaryID, CreateDiary, AddMember, ListDiary

(* Issuing a batch appends it to one queue and keeps every write in place. *)
Appended(dev, batch) ==
    /\ writes' \in [Devices -> [Owners -> Seq(Writes)]]
    /\ \A d \in Devices, o \in Owners :
         ~(d = dev /\ o = auth[dev]) => writes'[d][o] = writes[d][o]
    /\ Len(writes'[dev][auth[dev]]) = Len(writes[dev][auth[dev]]) + Len(batch)
    /\ \A d \in Devices, o \in Owners :
         /\ Len(writes'[d][o]) >= Len(writes[d][o])
         /\ \A k \in 1..Len(writes[d][o]) : writes'[d][o][k] = writes[d][o][k]
    /\ \A k \in 1..Len(batch) :
         writes'[dev][auth[dev]][Len(writes[dev][auth[dev]]) + k] = batch[k]
    /\ \A d \in Devices, o \in Owners : \A k \in 1..Len(writes'[d][o]) :
         \/ k \in 1..Len(writes[d][o])
         \/ /\ d = dev /\ o = auth[dev]
            /\ \E i \in 1..Len(batch) : /\ k = Len(writes[d][o]) + i
                                        /\ writes'[d][o][k] = batch[i]

LEMMA IssueAppends ==
  ASSUME TypeOK, NEW dev \in Devices, NEW batch \in Seq(Writes), Issue(dev, batch)
  PROVE  Appended(dev, batch)
<1> DEFINE q == writes[dev][auth[dev]]
<1>1. auth[dev] \in Owners /\ q \in Seq(Writes)
  BY DEF TypeOK
<1>2. /\ q \o batch \in Seq(Writes)
      /\ Len(q \o batch) = Len(q) + Len(batch)
      /\ \A k \in 1..Len(q) : (q \o batch)[k] = q[k]
      /\ \A k \in 1..Len(batch) : (q \o batch)[Len(q) + k] = batch[k]
  <2> HIDE DEF q
  <2> QED BY <1>1, ConcatProperties, LenProperties
<1>3. writes' = [writes EXCEPT ![dev] = [writes[dev] EXCEPT ![auth[dev]] = q \o batch]]
  BY DEF Issue
<1>4. writes'[dev][auth[dev]] = q \o batch
  BY <1>1, <1>3 DEF TypeOK
<1>5. ASSUME NEW d \in Devices, NEW o \in Owners, ~(d = dev /\ o = auth[dev])
      PROVE  writes'[d][o] = writes[d][o]
  BY <1>1, <1>3, <1>5 DEF TypeOK
<1>6. writes' \in [Devices -> [Owners -> Seq(Writes)]]
  BY <1>1, <1>2, <1>3 DEF TypeOK
<1>7. Len(q) \in Nat /\ Len(batch) \in Nat
  BY <1>1, LenProperties
<1> HIDE DEF q
<1>8. ASSUME NEW d \in Devices, NEW o \in Owners
      PROVE  /\ Len(writes'[d][o]) >= Len(writes[d][o])
             /\ \A k \in 1..Len(writes[d][o]) : writes'[d][o][k] = writes[d][o][k]
  <2>1. CASE d = dev /\ o = auth[dev]
    BY <2>1, <1>2, <1>4, <1>7 DEF q
  <2>2. CASE ~(d = dev /\ o = auth[dev])
    <3>1. writes[d][o] \in Seq(Writes)
      BY DEF TypeOK
    <3> QED BY <2>2, <1>5, <3>1, LenProperties
  <2> QED BY <2>1, <2>2
<1>9. ASSUME NEW k \in 1..Len(writes'[dev][auth[dev]]), k \notin 1..Len(q)
      PROVE  \E i \in 1..Len(batch) : /\ k = Len(q) + i
                                      /\ writes'[dev][auth[dev]][k] = batch[i]
  <2>1. k - Len(q) \in 1..Len(batch)
    BY <1>2, <1>4, <1>7, <1>9
  <2>2. k = Len(q) + (k - Len(q))
    BY <1>2, <1>4, <1>7, <1>9
  <2>3. (q \o batch)[Len(q) + (k - Len(q))] = batch[k - Len(q)]
    BY <1>2, <2>1
  <2> QED BY <1>4, <2>1, <2>2, <2>3
<1>10. ASSUME NEW d \in Devices, NEW o \in Owners, NEW k \in 1..Len(writes'[d][o])
       PROVE  \/ k \in 1..Len(writes[d][o])
              \/ /\ d = dev /\ o = auth[dev]
                 /\ \E i \in 1..Len(batch) : /\ k = Len(writes[d][o]) + i
                                             /\ writes'[d][o][k] = batch[i]
  BY <1>5, <1>9 DEF q
<1> QED BY <1>2, <1>4, <1>5, <1>6, <1>8, <1>10 DEF q, Appended
(* What a batch must satisfy for the queues to stay in order.              *)
GoodBatch(dev, batch) ==
    \A k \in 1..Len(batch) :
        /\ batch[k].op # "createDiary"
        /\ batch[k].op \in {"setDiaryID", "addMember", "listDiary"}
              => batch[k].diary \in diaryDocs
        /\ batch[k].op = "listDiary" =>
              \/ batch[k].user \in memberList[batch[k].diary]
              \/ \E j \in 1..(k - 1) :
                    /\ batch[j].op = "addMember"
                    /\ batch[j].user = batch[k].user
                    /\ batch[j].diary = batch[k].diary

QueueInv == CreationsUnique /\ UpdatesOfExisting /\ ListingsJustified

(* A good batch keeps the queues in order while the server stands still.   *)
LEMMA GoodBatchKeepsQueues ==
  ASSUME TypeOK, QueueInv, NEW dev \in Devices, NEW batch \in Seq(Writes),
         Appended(dev, batch), GoodBatch(dev, batch),
         UNCHANGED <<server, minted>>
  PROVE  QueueInv'
<1>1. \A d \in Devices, o \in Owners : writes[d][o] \in Seq(Writes) /\ Len(writes[d][o]) \in Nat
  BY LenProperties DEF TypeOK
<1>5. ASSUME NEW d \in Devices, NEW o \in Owners, NEW k \in 1..Len(writes'[d][o])
      PROVE  \/ k \in 1..Len(writes[d][o]) /\ writes'[d][o][k] = writes[d][o][k]
             \/ /\ d = dev /\ o = auth[dev]
                /\ \E i \in 1..Len(batch) : /\ k = Len(writes[d][o]) + i
                                            /\ writes'[d][o][k] = batch[i]
  BY DEF Appended
<1> USE DEF server
<1>2. CreationsUnique'
  <2>1. ASSUME NEW d \in Devices, NEW o \in Owners, NEW k \in 1..Len(writes'[d][o]),
               writes'[d][o][k].op = "createDiary"
        PROVE  k \in 1..Len(writes[d][o]) /\ writes'[d][o][k] = writes[d][o][k]
    BY <1>5, <2>1 DEF GoodBatch
  <2>2. diaryDocs' \subseteq minted'
    BY DEF QueueInv, CreationsUnique
  <2> SUFFICES ASSUME NEW d \in Devices, NEW o \in Owners, NEW k \in 1..Len(writes'[d][o]),
                      writes'[d][o][k].op = "createDiary"
               PROVE  /\ writes'[d][o][k].diary \in minted \ diaryDocs
                      /\ writes'[d][o][k].user = o /\ o \in Users
                      /\ \A d2 \in Devices, o2 \in Owners :
                           \A j \in 1..Len(writes'[d2][o2]) :
                             (/\ writes'[d2][o2][j].op = "createDiary"
                              /\ writes'[d2][o2][j].diary = writes'[d][o][k].diary)
                                => d2 = d /\ o2 = o /\ j = k
    BY <2>2 DEF CreationsUnique
  <2>3. k \in 1..Len(writes[d][o]) /\ writes'[d][o][k] = writes[d][o][k]
    BY <2>1
  <2>4. /\ writes[d][o][k].diary \in minted \ diaryDocs
        /\ writes[d][o][k].user = o /\ o \in Users
        /\ \A d2 \in Devices, o2 \in Owners : \A j \in 1..Len(writes[d2][o2]) :
             (/\ writes[d2][o2][j].op = "createDiary"
              /\ writes[d2][o2][j].diary = writes[d][o][k].diary)
                => d2 = d /\ o2 = o /\ j = k
    <3>1. k \in 1..Len(writes[d][o]) /\ writes[d][o][k].op = "createDiary"
      BY <2>3
    <3> HIDE <2>3
    <3> QED BY <3>1 DEF QueueInv, CreationsUnique
  <2>5. ASSUME NEW d2 \in Devices, NEW o2 \in Owners, NEW j \in 1..Len(writes'[d2][o2]),
               writes'[d2][o2][j].op = "createDiary",
               writes'[d2][o2][j].diary = writes'[d][o][k].diary
        PROVE  d2 = d /\ o2 = o /\ j = k
    <3>1. j \in 1..Len(writes[d2][o2]) /\ writes'[d2][o2][j] = writes[d2][o2][j]
      BY <2>1, <2>5
    <3> QED BY <2>3, <2>4, <2>5, <3>1
  <2> QED BY <2>3, <2>4, <2>5
<1>3. UpdatesOfExisting'
  <2> SUFFICES ASSUME NEW d \in Devices, NEW o \in Owners, NEW k \in 1..Len(writes'[d][o]),
                      writes'[d][o][k].op \in {"setDiaryID", "addMember", "listDiary"}
               PROVE  writes'[d][o][k].diary \in diaryDocs
    BY DEF UpdatesOfExisting
  <2>1. CASE k \in 1..Len(writes[d][o]) /\ writes'[d][o][k] = writes[d][o][k]
    BY <2>1 DEF QueueInv, UpdatesOfExisting
  <2>2. CASE \E i \in 1..Len(batch) : writes'[d][o][k] = batch[i]
    BY <2>2 DEF GoodBatch
  <2>3. \/ k \in 1..Len(writes[d][o]) /\ writes'[d][o][k] = writes[d][o][k]
        \/ \E i \in 1..Len(batch) : writes'[d][o][k] = batch[i]
    BY <1>5
  <2> QED BY <2>1, <2>2, <2>3
<1>4. ListingsJustified'
  <2> SUFFICES ASSUME NEW d \in Devices, NEW o \in Owners,
                      NEW k \in 1..Len(writes'[d][o]),
                      writes'[d][o][k].op = "listDiary", Accepted(o)
               PROVE  \/ writes'[d][o][k].user \in memberList[writes'[d][o][k].diary]
                      \/ \E j \in 1..(k - 1) :
                            /\ writes'[d][o][j].op = "addMember"
                            /\ writes'[d][o][j].user = writes'[d][o][k].user
                            /\ writes'[d][o][j].diary = writes'[d][o][k].diary
    BY DEF ListingsJustified, Accepted
  <2>1. CASE k \in 1..Len(writes[d][o]) /\ writes'[d][o][k] = writes[d][o][k]
    <3>1. \A j \in 1..(k - 1) : j \in 1..Len(writes[d][o]) /\ writes'[d][o][j] = writes[d][o][j]
      BY <2>1, <1>1 DEF Appended
    <3>2. \/ writes[d][o][k].user \in memberList[writes[d][o][k].diary]
          \/ \E j \in 1..(k - 1) : /\ writes[d][o][j].op = "addMember"
                                   /\ writes[d][o][j].user = writes[d][o][k].user
                                   /\ writes[d][o][j].diary = writes[d][o][k].diary
      BY <2>1 DEF QueueInv, ListingsJustified
    <3> QED BY <2>1, <3>1, <3>2
  <2>2. ASSUME d = dev /\ o = auth[dev], NEW i \in 1..Len(batch),
               k = Len(writes[d][o]) + i, writes'[d][o][k] = batch[i]
        PROVE  \/ writes'[d][o][k].user \in memberList[writes'[d][o][k].diary]
               \/ \E j \in 1..(k - 1) :
                     /\ writes'[d][o][j].op = "addMember"
                     /\ writes'[d][o][j].user = writes'[d][o][k].user
                     /\ writes'[d][o][j].diary = writes'[d][o][k].diary
    <3>1. CASE batch[i].user \in memberList[batch[i].diary]
      BY <3>1, <2>2
    <3>2. ASSUME NEW j \in 1..(i - 1), batch[j].op = "addMember",
                 batch[j].user = batch[i].user, batch[j].diary = batch[i].diary
          PROVE  \E n \in 1..(k - 1) :
                     /\ writes'[d][o][n].op = "addMember"
                     /\ writes'[d][o][n].user = writes'[d][o][k].user
                     /\ writes'[d][o][n].diary = writes'[d][o][k].diary
      <4>1. Len(batch) \in Nat /\ j \in 1..Len(batch)
        BY LenProperties
      <4>2. writes'[d][o][Len(writes[d][o]) + j] = batch[j]
        BY <2>2, <4>1 DEF Appended
      <4>0. Len(writes[d][o]) \in Nat
        BY <1>1
      <4>3. Len(writes[d][o]) + j \in 1..(k - 1)
        BY <4>0, <2>2, <4>1
      <4> QED BY <2>2, <3>2, <4>2, <4>3
    <3> QED BY <2>2, <3>1, <3>2 DEF GoodBatch
  <2> QED BY <2>1, <2>2, <1>5
<1> QED BY <1>2, <1>3, <1>4 DEF QueueInv
-------------------------------------------------------------------------------
(***************************************************************************)
(* The actions that touch neither the server nor a queue.                  *)
(***************************************************************************)
LEMMA QueuesUntouched ==
  ASSUME QueueInv, FreshDiariesEmpty, ListedImpliesMember,
         UNCHANGED <<server, minted, writes>>
  PROVE  QueueInv' /\ FreshDiariesEmpty' /\ ListedImpliesMember'
  BY DEF QueueInv, CreationsUnique, UpdatesOfExisting, ListingsJustified, Accepted,
         FreshDiariesEmpty, ListedImpliesMember, server

LEMMA PersistKeeps ==
  ASSUME IInv, NEW dev \in Devices, NEW o \in Owners, Persist(dev, o)
  PROVE  IInv'
<1>1. TypeOK'
  <2>1. writes[dev][o] \in Seq(Writes) /\ durable[dev][o] \in Nat
    BY DEF IInv, TypeOK
  <2>2. durable[dev][o] + 1 \in Nat /\ durable[dev][o] + 1 <= Len(writes[dev][o])
    BY <2>1, LenProperties DEF Persist
  <2>3. durable' \in [Devices -> [Owners -> Nat]]
    BY <2>2 DEF IInv, TypeOK, Persist
  <2>4. \A d \in Devices, w \in Owners : durable'[d][w] <= Len(writes'[d][w])
    BY <2>2 DEF IInv, TypeOK, Persist
  <2> QED BY <2>3, <2>4 DEF IInv, TypeOK, Persist, server, ui, calls, bounds
<1>2. SessionMatches'
  BY DEF IInv, TypeOK, SessionMatches, Persist, server, ui, calls, disk, bounds, Owners
<1>3. OpenDiaryExists'
  BY NoDiaryAssumption DEF IInv, TypeOK, OpenDiaryExists, Persist, server, ui, calls, disk, bounds
<1>4. ReadyForCreator'
  BY DEF IInv, TypeOK, ReadyForCreator, MainQueueDrained, Persist, server, ui, calls, disk, bounds
<1>5. QueueInv' /\ FreshDiariesEmpty' /\ ListedImpliesMember'
  BY QueuesUntouched DEF IInv, QueueInv, Persist, server, ui, calls, disk, bounds
<1> QED BY <1>1, <1>2, <1>3, <1>4, <1>5 DEF IInv, QueueInv

LEMMA SignInKeeps ==
  ASSUME IInv, NEW dev \in Devices, NEW u \in Users, SignIn(dev, u)
  PROVE  IInv'
<1>1. TypeOK'
  BY DEF IInv, TypeOK, SignIn, ReadsAskedAgain, Owners, server, ui, disk, bounds
<1>2. SessionMatches'
  BY DEF IInv, TypeOK, SessionMatches, SignIn, server, ui, calls, disk, bounds, Owners
<1>3. OpenDiaryExists'
  BY NoDiaryAssumption DEF IInv, TypeOK, OpenDiaryExists, SignIn, server, ui, calls, disk, bounds
<1>4. ReadyForCreator'
  BY DEF IInv, TypeOK, ReadyForCreator, MainQueueDrained, SignIn, server, ui, calls, disk, bounds
<1>5. QueueInv' /\ FreshDiariesEmpty' /\ ListedImpliesMember'
  BY QueuesUntouched DEF IInv, QueueInv, SignIn, server, ui, calls, disk, bounds
<1> QED BY <1>1, <1>2, <1>3, <1>4, <1>5 DEF IInv, QueueInv

LEMMA SwipeKeeps ==
  ASSUME IInv, NEW dev \in Devices, Swipe(dev)
  PROVE  IInv'
<1>1. TypeOK'
  BY DEF IInv, TypeOK, Swipe, Owners, server, disk, bounds
<1>2. SessionMatches'
  BY DEF IInv, TypeOK, SessionMatches, Swipe, server, ui, calls, disk, bounds, Owners
<1>3. OpenDiaryExists'
  BY NoDiaryAssumption DEF IInv, TypeOK, OpenDiaryExists, Swipe, server, ui, calls, disk, bounds
<1>4. ReadyForCreator'
  BY DEF IInv, TypeOK, ReadyForCreator, MainQueueDrained, Swipe, server, ui, calls, disk, bounds
<1>5. QueueInv' /\ FreshDiariesEmpty' /\ ListedImpliesMember'
  BY QueuesUntouched DEF IInv, QueueInv, Swipe, server, ui, calls, disk, bounds
<1> QED BY <1>1, <1>2, <1>3, <1>4, <1>5 DEF IInv, QueueInv

LEMMA AnswerCheckKeeps ==
  ASSUME IInv, NEW dev \in Devices, NEW u \in Users, AnswerCheck(dev, u)
  PROVE  IInv'
<1>1. TypeOK'
  BY DEF IInv, TypeOK, AnswerCheck, server, ui, disk, bounds
<1>2. SessionMatches'
  BY DEF IInv, TypeOK, SessionMatches, AnswerCheck, server, ui, calls, disk, bounds, Owners
<1>3. OpenDiaryExists'
  BY NoDiaryAssumption DEF IInv, TypeOK, OpenDiaryExists, AnswerCheck, server, ui, calls, disk, bounds
<1>4. ReadyForCreator'
  BY DEF IInv, TypeOK, ReadyForCreator, MainQueueDrained, AnswerCheck, server, ui, calls, disk, bounds
<1>5. QueueInv' /\ FreshDiariesEmpty' /\ ListedImpliesMember'
  BY QueuesUntouched DEF IInv, QueueInv, AnswerCheck, server, ui, calls, disk, bounds
<1> QED BY <1>1, <1>2, <1>3, <1>4, <1>5 DEF IInv, QueueInv

LEMMA LogOutKeeps ==
  ASSUME IInv, NEW dev \in Devices, LogOut(dev)
  PROVE  IInv'
<1>1. TypeOK'
  <2>1. auth' \in [Devices -> Owners]
    BY DEF IInv, TypeOK, LogOut, Owners
  <2>2. check' \in [Devices -> [Users -> {"none", "asked", "exists", "absent"}]]
    <3>1. CASE ReadsAskedAgain(dev)
      BY <3>1 DEF IInv, TypeOK, ReadsAskedAgain
    <3>2. CASE UNCHANGED check
      BY <3>2 DEF IInv, TypeOK
    <3> QED BY <3>1, <3>2 DEF LogOut
  <2>3. currentUID' \in [Devices -> Owners]
    BY DEF IInv, TypeOK, LogOut, Owners
  <2>4. logOuts' \in 0..MaxLogOuts
    BY BoundsAssumption DEF IInv, TypeOK, LogOut
  <2> QED BY <2>1, <2>2, <2>3, <2>4 DEF IInv, TypeOK, LogOut, server, disk
<1>2. SessionMatches'
  BY DEF IInv, TypeOK, SessionMatches, LogOut, server, ui, calls, disk, bounds, Owners
<1>3. OpenDiaryExists'
  BY NoDiaryAssumption DEF IInv, TypeOK, OpenDiaryExists, LogOut, server, ui, calls, disk, bounds
<1>4. ReadyForCreator'
  BY DEF IInv, TypeOK, ReadyForCreator, MainQueueDrained, LogOut, server, ui, calls, disk, bounds
<1>5. QueueInv' /\ FreshDiariesEmpty' /\ ListedImpliesMember'
  BY QueuesUntouched DEF IInv, QueueInv, LogOut, server, ui, calls, disk, bounds
<1> QED BY <1>1, <1>2, <1>3, <1>4, <1>5 DEF IInv, QueueInv

LEMMA CloseDiaryKeeps ==
  ASSUME IInv, NEW dev \in Devices, CloseDiary(dev)
  PROVE  IInv'
<1>1. TypeOK'
  BY DEF IInv, TypeOK, CloseDiary, server, calls, disk, bounds
<1>2. SessionMatches'
  BY DEF IInv, TypeOK, SessionMatches, CloseDiary, server, ui, calls, disk, bounds, Owners
<1>3. OpenDiaryExists'
  BY NoDiaryAssumption DEF IInv, TypeOK, OpenDiaryExists, CloseDiary, server, ui, calls, disk, bounds
<1>4. ReadyForCreator'
  BY DEF IInv, TypeOK, ReadyForCreator, MainQueueDrained, CloseDiary, server, ui, calls, disk, bounds
<1>5. QueueInv' /\ FreshDiariesEmpty' /\ ListedImpliesMember'
  BY QueuesUntouched DEF IInv, QueueInv, CloseDiary, server, ui, calls, disk, bounds
<1> QED BY <1>1, <1>2, <1>3, <1>4, <1>5 DEF IInv, QueueInv

LEMMA TapAddUserKeeps ==
  ASSUME IInv, NEW dev \in Devices, NEW u \in Users, TapAddUser(dev, u)
  PROVE  IInv'
<1>1. TypeOK'
  <2>1. invited' \in 0..MaxInvites
    BY BoundsAssumption DEF IInv, TypeOK, TapAddUser
  <2>2. invites' \in [Devices -> SUBSET Users]
    BY DEF IInv, TypeOK, TapAddUser
  <2> QED BY <2>1, <2>2 DEF IInv, TypeOK, TapAddUser, server, ui, disk
<1>2. SessionMatches'
  BY DEF IInv, TypeOK, SessionMatches, TapAddUser, server, ui, calls, disk, bounds, Owners
<1>3. OpenDiaryExists'
  BY NoDiaryAssumption DEF IInv, TypeOK, OpenDiaryExists, TapAddUser, server, ui, calls, disk, bounds
<1>4. ReadyForCreator'
  BY DEF IInv, TypeOK, ReadyForCreator, MainQueueDrained, TapAddUser, server, ui, calls, disk, bounds
<1>5. QueueInv' /\ FreshDiariesEmpty' /\ ListedImpliesMember'
  BY QueuesUntouched DEF IInv, QueueInv, TapAddUser, server, ui, calls, disk, bounds
<1> QED BY <1>1, <1>2, <1>3, <1>4, <1>5 DEF IInv, QueueInv

LEMMA KillKeeps ==
  ASSUME IInv, NEW dev \in Devices, Kill(dev)
  PROVE  IInv'
<1>1. TypeOK'
  BY BoundsAssumption DEF IInv, TypeOK, Kill, server, calls, disk
<1>2. SessionMatches'
  BY DEF IInv, TypeOK, SessionMatches, Kill, server, ui, calls, disk, bounds, Owners
<1>3. OpenDiaryExists'
  BY NoDiaryAssumption DEF IInv, TypeOK, OpenDiaryExists, Kill, server, ui, calls, disk, bounds
<1>4. ReadyForCreator'
  BY DEF IInv, TypeOK, ReadyForCreator, MainQueueDrained, Kill, server, ui, calls, disk, bounds
<1>5. QueueInv' /\ FreshDiariesEmpty' /\ ListedImpliesMember'
  BY QueuesUntouched DEF IInv, QueueInv, Kill, server, ui, calls, disk, bounds
<1> QED BY <1>1, <1>2, <1>3, <1>4, <1>5 DEF IInv, QueueInv

LEMMA OpenDiaryKeeps ==
  ASSUME IInv, NEW dev \in Devices, NEW d \in Diaries, OpenDiary(dev, d)
  PROVE  IInv'
<1> USE DEF OpenDiary, server, disk, calls, bounds
<1>1. TypeOK'
  BY DEF IInv, TypeOK
<1>2. SessionMatches'
  BY DEF IInv, TypeOK, SessionMatches
<1>3. d \in diaryDocs
  <2>1. currentUID[dev] = auth[dev] /\ auth[dev] \in Users
    BY DEF IInv, SessionMatches
  <2>2. CASE d \in userDiaryList[currentUID[dev]]
    BY <2>1, <2>2 DEF IInv, ListedImpliesMember, FreshDiariesEmpty
  <2>3. ASSUME NEW k \in DOMAIN Queue(dev), Pending(dev, k, ListDiary(currentUID[dev], d))
        PROVE  d \in diaryDocs
    <3>1. writes[dev][auth[dev]] \in Seq(Writes) /\ auth[dev] \in Owners
      BY DEF IInv, TypeOK
    <3>2. k \in 1..Len(writes[dev][auth[dev]])
      BY <3>1, LenProperties DEF Queue
    <3>3. /\ writes[dev][auth[dev]][k].op = "listDiary"
          /\ writes[dev][auth[dev]][k].diary = d
      BY <2>3 DEF Pending, Queue, ListDiary
    <3> QED BY <3>1, <3>2, <3>3 DEF IInv, UpdatesOfExisting
  <2> QED BY <2>2, <2>3 DEF LocalDiaryList
<1>4. OpenDiaryExists'
  BY <1>3, NoDiaryAssumption DEF IInv, TypeOK, OpenDiaryExists
<1>5. ReadyForCreator'
  BY DEF IInv, TypeOK, ReadyForCreator
<1>6. QueueInv' /\ FreshDiariesEmpty' /\ ListedImpliesMember'
  BY QueuesUntouched DEF IInv, QueueInv
<1> QED BY <1>1, <1>2, <1>4, <1>5, <1>6 DEF IInv, QueueInv

-------------------------------------------------------------------------------
(***************************************************************************)
(* The actions that issue writes.                                          *)
(***************************************************************************)
LEMMA IssueKeepsServerFacts ==
  ASSUME FreshDiariesEmpty, ListedImpliesMember, UNCHANGED server
  PROVE  FreshDiariesEmpty' /\ ListedImpliesMember'
  BY DEF FreshDiariesEmpty, ListedImpliesMember, server

(* The queues stay typed, and what was persisted stays in them.            *)
LEMMA AppendedTyped ==
  ASSUME TypeOK, NEW dev \in Devices, NEW batch \in Seq(Writes), Appended(dev, batch),
         UNCHANGED durable
  PROVE  /\ writes' \in [Devices -> [Owners -> Seq(Writes)]]
         /\ \A d \in Devices, o \in Owners : durable'[d][o] <= Len(writes'[d][o])
<1>1. ASSUME NEW d \in Devices, NEW o \in Owners
      PROVE  durable'[d][o] <= Len(writes'[d][o])
  <2>1. durable[d][o] \in Nat /\ durable[d][o] <= Len(writes[d][o])
    BY DEF TypeOK
  <2>2. Len(writes[d][o]) \in Nat /\ Len(writes'[d][o]) \in Nat
    BY LenProperties DEF TypeOK, Appended
  <2> QED BY <2>1, <2>2 DEF Appended
<1> QED BY <1>1 DEF Appended

LEMMA FinishCheckKeeps ==
  ASSUME IInv, NEW dev \in Devices, NEW u \in Users, FinishCheck(dev, u)
  PROVE  IInv'
<1> USE DEF FinishCheck, server, ui, bounds
<1>1. /\ UNCHANGED <<server, minted, durable>>
      /\ SessionMatches' /\ OpenDiaryExists' /\ ReadyForCreator'
      /\ FreshDiariesEmpty' /\ ListedImpliesMember'
  BY IssueKeepsServerFacts
     DEF IInv, SessionMatches, OpenDiaryExists, ReadyForCreator
<1>2. CASE UserFound(dev, u)
  <2>1. UNCHANGED writes
    BY <1>2
  <2>2. TypeOK'
    BY <2>1 DEF IInv, TypeOK
  <2>3. QueueInv'
    BY <1>1, <2>1, QueuesUntouched DEF IInv, QueueInv
  <2> QED BY <1>1, <2>2, <2>3 DEF IInv, QueueInv
<1>3. CASE Issue(dev, <<CreateUser(u)>>)
  <2> DEFINE batch == <<CreateUser(u)>>
  <2>1. batch \in Seq(Writes)
    BY WritesTyped
  <2>2. Appended(dev, batch)
    BY <1>3, <2>1, IssueAppends DEF IInv
  <2>3. GoodBatch(dev, batch)
    BY DEF GoodBatch, CreateUser
  <2> HIDE DEF batch
  <2>4. QueueInv'
    BY <1>1, <2>1, <2>2, <2>3, GoodBatchKeepsQueues DEF IInv, QueueInv
  <2>5. TypeOK'
    BY <1>1, <2>1, <2>2, AppendedTyped DEF IInv, TypeOK
  <2> QED BY <1>1, <2>4, <2>5 DEF IInv, QueueInv
<1> QED BY <1>2, <1>3
LEMMA AddDiaryKeeps ==
  ASSUME IInv, NEW dev \in Devices, NEW d \in Diaries, AddDiary(dev, d)
  PROVE  IInv'
<1> DEFINE w == CreateDiary(d, currentUID[dev])
<1>1. /\ UNCHANGED <<server, durable, auth>> /\ minted' = minted \cup {d} /\ d \notin minted
      /\ SessionMatches' /\ OpenDiaryExists' /\ ReadyForCreator'
      /\ FreshDiariesEmpty' /\ ListedImpliesMember'
  BY IssueKeepsServerFacts
     DEF IInv, TypeOK, SessionMatches, OpenDiaryExists, ReadyForCreator, AddDiary, server, ui
<1>2. currentUID[dev] = auth[dev] /\ auth[dev] \in Users
  BY DEF IInv, SessionMatches, AddDiary
<1>3. /\ w \in Writes /\ w.op = "createDiary" /\ w.diary = d /\ w.user = auth[dev]
      /\ <<w>> \in Seq(Writes)
  BY <1>2, WritesTyped DEF CreateDiary
<1>4. Appended(dev, <<w>>)
  BY <1>3, IssueAppends DEF IInv, AddDiary
<1> HIDE DEF w
<1>5. TypeOK'
  <2>1. completion' \in [Devices -> [Diaries -> {"none", "awaiting", "ready"}]]
    BY DEF IInv, TypeOK, AddDiary
  <2> QED BY <1>1, <1>3, <1>4, <2>1, AppendedTyped DEF IInv, TypeOK, AddDiary, server, ui, bounds
<1>6. ASSUME NEW e \in Devices, NEW o \in Owners, NEW k \in 1..Len(writes'[e][o])
      PROVE  \/ k \in 1..Len(writes[e][o]) /\ writes'[e][o][k] = writes[e][o][k]
             \/ /\ e = dev /\ o = auth[dev] /\ k = Len(writes[e][o]) + 1
                /\ writes'[e][o][k] = w
  BY <1>4 DEF Appended
<1>7. CreationsUnique'
  <2>1. ASSUME NEW e \in Devices, NEW o \in Owners, NEW k \in 1..Len(writes[e][o]),
               writes[e][o][k].op = "createDiary"
        PROVE  /\ writes[e][o][k].diary \in minted \ diaryDocs
               /\ writes[e][o][k].user = o /\ o \in Users
               /\ \A e2 \in Devices, o2 \in Owners : \A j \in 1..Len(writes[e2][o2]) :
                    (/\ writes[e2][o2][j].op = "createDiary"
                     /\ writes[e2][o2][j].diary = writes[e][o][k].diary)
                       => e2 = e /\ o2 = o /\ j = k
    BY <2>1 DEF IInv, CreationsUnique
  <2>2. diaryDocs' \subseteq minted' /\ d \notin diaryDocs
    BY <1>1 DEF IInv, CreationsUnique, server
  <2> SUFFICES ASSUME NEW e \in Devices, NEW o \in Owners, NEW k \in 1..Len(writes'[e][o]),
                      writes'[e][o][k].op = "createDiary"
               PROVE  /\ writes'[e][o][k].diary \in minted' \ diaryDocs
                      /\ writes'[e][o][k].user = o /\ o \in Users
                      /\ \A e2 \in Devices, o2 \in Owners :
                           \A j \in 1..Len(writes'[e2][o2]) :
                             (/\ writes'[e2][o2][j].op = "createDiary"
                              /\ writes'[e2][o2][j].diary = writes'[e][o][k].diary)
                                => e2 = e /\ o2 = o /\ j = k
    BY <1>1, <2>2 DEF CreationsUnique, server
  <2>3. CASE k \in 1..Len(writes[e][o]) /\ writes'[e][o][k] = writes[e][o][k]
    <3>1. /\ writes[e][o][k].diary \in minted \ diaryDocs
          /\ writes[e][o][k].user = o /\ o \in Users
      BY <2>1, <2>3
    <3>2. ASSUME NEW e2 \in Devices, NEW o2 \in Owners, NEW j \in 1..Len(writes'[e2][o2]),
                 writes'[e2][o2][j].op = "createDiary",
                 writes'[e2][o2][j].diary = writes'[e][o][k].diary
          PROVE  e2 = e /\ o2 = o /\ j = k
      <4>1. CASE j \in 1..Len(writes[e2][o2]) /\ writes'[e2][o2][j] = writes[e2][o2][j]
        BY <2>1, <2>3, <3>2, <4>1
      <4>2. CASE writes'[e2][o2][j] = w
        BY <1>1, <1>3, <2>3, <3>1, <3>2, <4>2
      <4> QED BY <1>6, <4>1, <4>2
    <3> QED BY <1>1, <2>3, <3>1, <3>2
  <2>4. CASE e = dev /\ o = auth[dev] /\ k = Len(writes[e][o]) + 1 /\ writes'[e][o][k] = w
    <3>1. ASSUME NEW e2 \in Devices, NEW o2 \in Owners, NEW j \in 1..Len(writes'[e2][o2]),
                 writes'[e2][o2][j].op = "createDiary",
                 writes'[e2][o2][j].diary = writes'[e][o][k].diary
          PROVE  e2 = e /\ o2 = o /\ j = k
      <4>1. CASE j \in 1..Len(writes[e2][o2]) /\ writes'[e2][o2][j] = writes[e2][o2][j]
        <5>1. writes[e2][o2][j].diary \in minted
          BY <2>1, <3>1, <4>1
        <5> QED BY <1>1, <1>3, <2>4, <3>1, <4>1, <5>1
      <4>2. CASE e2 = dev /\ o2 = auth[dev] /\ j = Len(writes[e2][o2]) + 1
        BY <2>4, <4>2
      <4> QED BY <1>6, <4>1, <4>2
    <3> QED BY <1>1, <1>2, <1>3, <2>2, <2>4, <3>1
  <2> QED BY <1>6, <2>3, <2>4
<1>8. UpdatesOfExisting'
  BY <1>1, <1>3, <1>6 DEF IInv, UpdatesOfExisting, server
<1>9. ListingsJustified'
  <2> SUFFICES ASSUME NEW e \in Devices, NEW o \in Owners, NEW k \in 1..Len(writes'[e][o]),
                      writes'[e][o][k].op = "listDiary", Accepted(o)
               PROVE  \/ writes'[e][o][k].user \in memberList[writes'[e][o][k].diary]
                      \/ \E j \in 1..(k - 1) :
                            /\ writes'[e][o][j].op = "addMember"
                            /\ writes'[e][o][j].user = writes'[e][o][k].user
                            /\ writes'[e][o][j].diary = writes'[e][o][k].diary
    BY <1>1 DEF ListingsJustified, Accepted, server
  <2>1. k \in 1..Len(writes[e][o]) /\ writes'[e][o][k] = writes[e][o][k]
    BY <1>3, <1>6
  <2>2. \A j \in 1..(k - 1) : writes'[e][o][j] = writes[e][o][j]
    <3>1. Len(writes[e][o]) \in Nat
      BY LenProperties DEF IInv, TypeOK
    <3> QED BY <1>4, <2>1, <3>1 DEF Appended
  <2>3. \/ writes[e][o][k].user \in memberList[writes[e][o][k].diary]
        \/ \E j \in 1..(k - 1) : /\ writes[e][o][j].op = "addMember"
                                 /\ writes[e][o][j].user = writes[e][o][k].user
                                 /\ writes[e][o][j].diary = writes[e][o][k].diary
    BY <2>1 DEF IInv, ListingsJustified
  <2> QED BY <2>1, <2>2, <2>3
<1> QED BY <1>1, <1>5, <1>7, <1>8, <1>9 DEF IInv

LEMMA CompleteAddDiaryKeeps ==
  ASSUME IInv, NEW dev \in Devices, NEW d \in Diaries, CompleteAddDiary(dev, d)
  PROVE  IInv'
<1>1. /\ UNCHANGED <<server, minted, durable>>
      /\ SessionMatches' /\ OpenDiaryExists' /\ ReadyForCreator'
      /\ FreshDiariesEmpty' /\ ListedImpliesMember'
  BY IssueKeepsServerFacts
     DEF IInv, TypeOK, SessionMatches, OpenDiaryExists, ReadyForCreator,
         CompleteAddDiary, server
<1>2. d \in diaryDocs /\ auth[dev] \in memberList[d] \cup {NoUser}
  BY DEF IInv, ReadyForCreator, CompleteAddDiary
<1>3. ASSUME NEW batch \in Seq(Writes), Issue(dev, batch), GoodBatch(dev, batch)
      PROVE  IInv'
  <2>1. Appended(dev, batch)
    BY <1>3, IssueAppends DEF IInv
  <2>2. QueueInv'
    BY <1>1, <1>3, <2>1, GoodBatchKeepsQueues DEF IInv, QueueInv
  <2>3. TypeOK'
    BY <1>1, <2>1, AppendedTyped DEF IInv, TypeOK, CompleteAddDiary, server, bounds
  <2> QED BY <1>1, <2>2, <2>3 DEF IInv, QueueInv
<1>4. CASE currentUID[dev] # NoUser /\ Issue(dev, CreatorWrites(dev, d))
  <2>1. currentUID[dev] = auth[dev] /\ auth[dev] \in Users
    BY <1>4 DEF IInv, SessionMatches
  <2>2. auth[dev] \in memberList[d]
    BY <1>2, <2>1, NoUserAssumption
  <2>3. CreatorWrites(dev, d) \in Seq(Writes)
    BY <2>1, WritesTyped DEF CreatorWrites
  <2>4. GoodBatch(dev, CreatorWrites(dev, d))
    BY <1>2, <2>1, <2>2 DEF GoodBatch, CreatorWrites, SetDiaryID, ListDiary
  <2> QED BY <1>3, <1>4, <2>3, <2>4
<1>5. CASE Issue(dev, <<SetDiaryID(d)>>)
  <2>1. <<SetDiaryID(d)>> \in Seq(Writes)
    BY WritesTyped
  <2>2. GoodBatch(dev, <<SetDiaryID(d)>>)
    BY <1>2 DEF GoodBatch, SetDiaryID
  <2> QED BY <1>3, <1>5, <2>1, <2>2
<1> QED BY <1>4, <1>5 DEF CompleteAddDiary

LEMMA AnswerInviteKeeps ==
  ASSUME IInv, NEW dev \in Devices, NEW friend \in invites[dev], AnswerInvite(dev, friend)
  PROVE  IInv'
<1>1. /\ UNCHANGED <<server, minted, durable>>
      /\ SessionMatches' /\ OpenDiaryExists' /\ ReadyForCreator'
      /\ FreshDiariesEmpty' /\ ListedImpliesMember'
  BY IssueKeepsServerFacts
     DEF IInv, TypeOK, SessionMatches, OpenDiaryExists, ReadyForCreator,
         AnswerInvite, server, ui
<1>2. /\ friend \in Users
      /\ openDiary[dev] \in diaryDocs /\ openDiary[dev] \in Diaries
  BY DEF IInv, TypeOK, OpenDiaryExists
<1>3. /\ invites' \in [Devices -> SUBSET Users]
      /\ known' \in [Devices -> SUBSET Users]
  <2>1. invites' \in [Devices -> SUBSET Users]
    BY DEF IInv, TypeOK, AnswerInvite
  <2>2. [known EXCEPT ![dev] = @ \cup {friend}] \in [Devices -> SUBSET Users]
    BY <1>2 DEF IInv, TypeOK
  <2>3. known' \in {known, [known EXCEPT ![dev] = @ \cup {friend}]}
    BY DEF AnswerInvite
  <2> QED BY <2>1, <2>2, <2>3 DEF IInv, TypeOK
<1>4. CASE AddUser(dev, friend)
  <2> DEFINE batch == <<AddMember(openDiary[dev], friend),
                        ListDiary(friend, openDiary[dev])>>
  <2>1. batch \in Seq(Writes)
    BY <1>2, WritesTyped
  <2>2. GoodBatch(dev, batch)
    BY <1>2 DEF GoodBatch, AddMember, ListDiary
  <2>3. Issue(dev, batch)
    BY <1>4 DEF AddUser
  <2> HIDE DEF batch
  <2>4. Appended(dev, batch)
    BY <2>1, <2>3, IssueAppends DEF IInv
  <2>5. QueueInv'
    BY <1>1, <2>1, <2>2, <2>4, GoodBatchKeepsQueues DEF IInv, QueueInv
  <2>6. TypeOK'
    BY <1>1, <1>3, <2>1, <2>4, AppendedTyped DEF IInv, TypeOK, AnswerInvite, server, ui, bounds
  <2> QED BY <1>1, <2>5, <2>6 DEF IInv, QueueInv
<1>5. CASE UNCHANGED writes
  <2>1. QueueInv'
    BY <1>1, <1>5, QueuesUntouched DEF IInv, QueueInv
  <2>2. TypeOK'
    BY <1>1, <1>3, <1>5 DEF IInv, TypeOK, AnswerInvite, server, ui, bounds
  <2> QED BY <1>1, <2>1, <2>2 DEF IInv, QueueInv
<1> QED BY <1>4, <1>5 DEF AnswerInvite
-------------------------------------------------------------------------------
(***************************************************************************)
(* A write reaches the server.                                             *)
(***************************************************************************)
(* What one accepted write may change, whatever its kind.                  *)
ServerTyped ==
    /\ userDocs \in SUBSET Users
    /\ userDiaryList \in [Users -> SUBSET Diaries]
    /\ diaryDocs \in SUBSET Diaries
    /\ memberList \in [Diaries -> SUBSET Users]
    /\ hasDiaryID \in SUBSET Diaries

ServerEffect(w) ==
    /\ diaryDocs \subseteq diaryDocs'
    /\ \A d \in Diaries : memberList[d] \subseteq memberList'[d]
    /\ \A d \in diaryDocs' \ diaryDocs : w.op = "createDiary" /\ w.diary = d
    /\ \A d \in Diaries \ diaryDocs' : memberList'[d] = {}
    /\ \A u \in Users : \A d \in userDiaryList'[u] :
          \/ d \in userDiaryList[u]
          \/ w.op = "listDiary" /\ w.user = u /\ w.diary = d
    /\ w.op \in {"addMember", "createDiary"} => w.user \in memberList'[w.diary]
    /\ w.op = "createDiary" => w.diary \in diaryDocs'

LEMMA ServerStep ==
  ASSUME IInv, NEW w \in Writes, OnServer(w),
         w.op = "createDiary" => w.diary \notin diaryDocs,
         w.op = "addMember" => w.diary \in diaryDocs
  PROVE  ServerTyped' /\ ServerEffect(w)
<1> USE DEF IInv, TypeOK, FreshDiariesEmpty, Writes, ServerTyped, ServerEffect
<1>1. CASE w.op = "createUser" /\ CreateUserOnServer(w)
  BY <1>1 DEF CreateUserOnServer
<1>2. CASE w.op = "createDiary" /\ CreateDiaryOnServer(w)
  BY <1>2 DEF CreateDiaryOnServer
<1>3. CASE w.op = "setDiaryID" /\ SetDiaryIDOnServer(w)
  BY <1>3 DEF SetDiaryIDOnServer
<1>4. CASE w.op = "addMember" /\ AddMemberOnServer(w)
  BY <1>4 DEF AddMemberOnServer
<1>5. CASE w.op = "listDiary" /\ ListDiaryOnServer(w)
  BY <1>5 DEF ListDiaryOnServer
<1> QED BY <1>1, <1>2, <1>3, <1>4, <1>5 DEF OnServer

(* The write at the front of a queue leaves it, the others move up.        *)
LEMMA HeadLeaves ==
  ASSUME IInv, NEW dev \in Devices, Commit(dev)
  PROVE  /\ auth[dev] \in Owners
         /\ Len(writes[dev][auth[dev]]) \in Nat \ {0}
         /\ Head(Queue(dev)) = writes[dev][auth[dev]][1]
         /\ Head(Queue(dev)) \in Writes
         /\ writes' \in [Devices -> [Owners -> Seq(Writes)]]
         /\ durable' \in [Devices -> [Owners -> Nat]]
         /\ \A e \in Devices, o \in Owners : durable'[e][o] <= Len(writes'[e][o])
         /\ \A e \in Devices, o \in Owners :
              ~(e = dev /\ o = auth[dev]) => writes'[e][o] = writes[e][o]
         /\ Len(writes'[dev][auth[dev]]) = Len(writes[dev][auth[dev]]) - 1
         /\ \A k \in 1..Len(writes'[dev][auth[dev]]) :
              writes'[dev][auth[dev]][k] = writes[dev][auth[dev]][k + 1]
<1> DEFINE q == writes[dev][auth[dev]]
<1>1. auth[dev] \in Owners /\ q \in Seq(Writes) /\ Len(q) \in Nat
  BY LenProperties DEF IInv, TypeOK
<1>2. durable[dev][auth[dev]] \in Nat /\ durable[dev][auth[dev]] > 0
  BY <1>1 DEF IInv, TypeOK, Commit, Deliverable
<1>3. Len(q) \in Nat \ {0} /\ q # <<>> /\ durable[dev][auth[dev]] <= Len(q)
  BY <1>1, <1>2 DEF IInv, TypeOK
<1>4. /\ Head(q) = q[1] /\ Head(q) \in Writes
      /\ Tail(q) \in Seq(Writes) /\ Len(Tail(q)) = Len(q) - 1
      /\ \A k \in 1..(Len(q) - 1) : Tail(q)[k] = q[k + 1]
  <2> HIDE DEF q
  <2> QED BY <1>1, <1>3, HeadTailProperties, ElementOfSeq
<1>5. writes' = [writes EXCEPT ![dev] = [writes[dev] EXCEPT ![auth[dev]] = Tail(q)]]
  BY DEF Commit
<1>6. durable' = [durable EXCEPT ![dev] =
                    [durable[dev] EXCEPT ![auth[dev]] = durable[dev][auth[dev]] - 1]]
  BY DEF Commit
<1>7. /\ writes'[dev][auth[dev]] = Tail(q)
      /\ writes' \in [Devices -> [Owners -> Seq(Writes)]]
      /\ \A e \in Devices, o \in Owners :
            ~(e = dev /\ o = auth[dev]) => writes'[e][o] = writes[e][o]
  BY <1>1, <1>4, <1>5 DEF IInv, TypeOK
<1>8. /\ durable'[dev][auth[dev]] = durable[dev][auth[dev]] - 1
      /\ durable' \in [Devices -> [Owners -> Nat]]
      /\ \A e \in Devices, o \in Owners :
            ~(e = dev /\ o = auth[dev]) => durable'[e][o] = durable[e][o]
  BY <1>1, <1>2, <1>6 DEF IInv, TypeOK
<1>9. ASSUME NEW e \in Devices, NEW o \in Owners
      PROVE  durable'[e][o] <= Len(writes'[e][o])
  <2>1. CASE e = dev /\ o = auth[dev]
    BY <2>1, <1>2, <1>3, <1>4, <1>7, <1>8
  <2>2. CASE ~(e = dev /\ o = auth[dev])
    BY <2>2, <1>7, <1>8 DEF IInv, TypeOK
  <2> QED BY <2>1, <2>2
<1>10. Head(Queue(dev)) = Head(q)
  BY DEF Queue
<1>11. /\ Len(writes'[dev][auth[dev]]) = Len(q) - 1
       /\ \A k \in 1..Len(writes'[dev][auth[dev]]) :
             writes'[dev][auth[dev]][k] = q[k + 1]
  BY <1>4, <1>7
<1> QED BY <1>1, <1>3, <1>4, <1>7, <1>8, <1>9, <1>10, <1>11
(* What a commit does to the server, whether or not the write is accepted. *)
CommitEffect(w, o) ==
    /\ ServerTyped'
    /\ diaryDocs \subseteq diaryDocs'
    /\ \A d \in Diaries : memberList[d] \subseteq memberList'[d]
    /\ \A d \in diaryDocs' \ diaryDocs : w.op = "createDiary" /\ w.diary = d
    /\ \A d \in Diaries \ diaryDocs' : memberList'[d] = {}
    /\ \A u \in Users : \A d \in userDiaryList'[u] :
          \/ d \in userDiaryList[u]
          \/ w.op = "listDiary" /\ w.user = u /\ w.diary = d /\ Accepted(o)
    /\ w.op = "addMember" /\ Accepted(o) => w.user \in memberList'[w.diary]
    /\ w.op = "createDiary" =>
          /\ w.diary \in diaryDocs' /\ w.user = o
          /\ o \in memberList'[w.diary] /\ w.diary \in minted

LEMMA CommitHasEffect ==
  ASSUME IInv, NEW dev \in Devices, Commit(dev)
  PROVE  CommitEffect(Head(Queue(dev)), auth[dev])
<1> DEFINE w == Head(Queue(dev))
           o == auth[dev]
<1>1. o \in Owners /\ Len(writes[dev][o]) \in Nat \ {0} /\ w = writes[dev][o][1] /\ w \in Writes
  BY HeadLeaves
<1>2. 1 \in 1..Len(writes[dev][o])
  BY <1>1
<1>3. w.op = "createDiary" =>
         w.diary \notin diaryDocs /\ w.diary \in minted /\ w.user = o /\ o \in Users
  BY <1>1, <1>2 DEF IInv, CreationsUnique
<1>4. w.op = "addMember" => w.diary \in diaryDocs
  BY <1>1, <1>2 DEF IInv, UpdatesOfExisting
<1>5. IF Accepted(o) THEN OnServer(w) ELSE UNCHANGED server
  BY DEF Commit, Accepted
<1> HIDE DEF w, o
<1>6. CASE Accepted(o) /\ OnServer(w)
  <2>1. ServerTyped' /\ ServerEffect(w)
    BY <1>1, <1>3, <1>4, <1>6, ServerStep
  <2>2. /\ w.op = "addMember" => w.user \in memberList'[w.diary]
        /\ w.op = "createDiary" =>
              /\ w.diary \in diaryDocs' /\ w.user = o
              /\ o \in memberList'[w.diary] /\ w.diary \in minted
    BY <1>3, <2>1 DEF ServerEffect
  <2>3. /\ diaryDocs \subseteq diaryDocs'
        /\ \A d \in Diaries : memberList[d] \subseteq memberList'[d]
        /\ \A d \in diaryDocs' \ diaryDocs : w.op = "createDiary" /\ w.diary = d
        /\ \A d \in Diaries \ diaryDocs' : memberList'[d] = {}
    BY <2>1 DEF ServerEffect
  <2>4. \A u \in Users : \A d \in userDiaryList'[u] :
          \/ d \in userDiaryList[u]
          \/ w.op = "listDiary" /\ w.user = u /\ w.diary = d /\ Accepted(o)
    BY <1>6, <2>1 DEF ServerEffect
  <2>5. CommitEffect(w, o)
    BY <2>1, <2>2, <2>3, <2>4 DEF CommitEffect
  <2> QED BY <2>5 DEF w, o
<1>7. CASE ~Accepted(o) /\ UNCHANGED server
  <2>1. w.op # "createDiary"
    BY <1>3, <1>7 DEF Accepted
  <2>2. \A d \in Diaries \ diaryDocs : memberList[d] = {}
    BY DEF IInv, FreshDiariesEmpty
  <2>3. ServerTyped'
    BY <1>7 DEF server, IInv, TypeOK, ServerTyped
  <2>4. /\ diaryDocs' = diaryDocs /\ memberList' = memberList
        /\ userDiaryList' = userDiaryList
    BY <1>7 DEF server
  <2>5. CommitEffect(w, o)
    BY <1>7, <2>1, <2>2, <2>3, <2>4 DEF CommitEffect
  <2> QED BY <2>5 DEF w, o
<1> QED BY <1>5, <1>6, <1>7 DEF w, o

LEMMA CommitKeeps ==
  ASSUME IInv, NEW dev \in Devices, Commit(dev)
  PROVE  IInv'
<1> DEFINE w == Head(Queue(dev))
           o0 == auth[dev]
<1>1. /\ o0 \in Owners /\ w \in Writes /\ w = writes[dev][o0][1]
      /\ 1 \in 1..Len(writes[dev][o0])
  BY HeadLeaves
<1>2. CommitEffect(w, o0)
  BY CommitHasEffect
<1>3. UNCHANGED <<minted, auth, proc, screen, currentUID, openDiary, check, invites, bounds>>
  BY DEF Commit, ui
<1>4. completion' =
        IF w.op = "createDiary" /\ completion[dev][w.diary] = "awaiting"
        THEN [completion EXCEPT ![dev][w.diary] = "ready"]
        ELSE completion
  BY DEF Commit
<1>5. known' \in {known, [known EXCEPT ![dev] = @ \cup {w.user}]}
      /\ (known' # known => w.op = "createUser")
  BY DEF Commit
<1>6. ASSUME NEW e \in Devices, NEW o \in Owners, NEW k \in 1..Len(writes'[e][o])
      PROVE  \/ /\ e = dev /\ o = o0 /\ k + 1 \in 1..Len(writes[e][o])
                /\ writes'[e][o][k] = writes[e][o][k + 1]
             \/ /\ ~(e = dev /\ o = o0) /\ writes'[e][o] = writes[e][o]
                /\ k \in 1..Len(writes[e][o])
                /\ writes'[e][o][k] = writes[e][o][k]
  <2>1. CASE e = dev /\ o = o0
    BY <2>1, HeadLeaves
  <2>2. CASE ~(e = dev /\ o = o0)
    BY <2>2, HeadLeaves
  <2> QED BY <2>1, <2>2
<1>7. /\ writes' \in [Devices -> [Owners -> Seq(Writes)]]
      /\ durable' \in [Devices -> [Owners -> Nat]]
      /\ \A e \in Devices, o \in Owners : durable'[e][o] <= Len(writes'[e][o])
  BY HeadLeaves
<1> HIDE DEF w, o0
<1>8. TypeOK'
  <2>1. completion' \in [Devices -> [Diaries -> {"none", "awaiting", "ready"}]]
    BY <1>4 DEF IInv, TypeOK
  <2>2. known' \in [Devices -> SUBSET Users]
    <3>1. CASE w.op = "createUser"
      <4>1. w.user \in Users
        BY <1>1, <3>1 DEF Writes
      <4>2. [known EXCEPT ![dev] = @ \cup {w.user}] \in [Devices -> SUBSET Users]
        BY <4>1 DEF IInv, TypeOK
      <4> QED BY <1>5, <4>2 DEF IInv, TypeOK
    <3> QED BY <1>5, <3>1 DEF IInv, TypeOK
  <2> QED BY <1>2, <1>3, <1>7, <2>1, <2>2 DEF CommitEffect, ServerTyped, IInv, TypeOK, bounds
<1>9. FreshDiariesEmpty'
  BY <1>2 DEF CommitEffect, FreshDiariesEmpty
<1>10. SessionMatches'
  BY <1>3 DEF IInv, SessionMatches
<1>11. OpenDiaryExists'
  BY <1>2, <1>3 DEF IInv, OpenDiaryExists, CommitEffect
<1>12. UpdatesOfExisting'
  <2> SUFFICES ASSUME NEW e \in Devices, NEW o \in Owners, NEW k \in 1..Len(writes'[e][o]),
                      writes'[e][o][k].op \in {"setDiaryID", "addMember", "listDiary"}
               PROVE  writes'[e][o][k].diary \in diaryDocs'
    BY DEF UpdatesOfExisting
  <2>1. \E n \in 1..Len(writes[e][o]) : writes'[e][o][k] = writes[e][o][n]
    BY <1>6
  <2>2. writes'[e][o][k].diary \in diaryDocs
    BY <2>1 DEF IInv, UpdatesOfExisting
  <2> QED BY <1>2, <2>2 DEF CommitEffect
<1>13. CreationsUnique'
  <2>1. ASSUME NEW e \in Devices, NEW o \in Owners, NEW k \in 1..Len(writes[e][o]),
               writes[e][o][k].op = "createDiary"
        PROVE  /\ writes[e][o][k].diary \in minted \ diaryDocs
               /\ writes[e][o][k].user = o /\ o \in Users
               /\ \A e2 \in Devices, o2 \in Owners : \A j \in 1..Len(writes[e2][o2]) :
                    (/\ writes[e2][o2][j].op = "createDiary"
                     /\ writes[e2][o2][j].diary = writes[e][o][k].diary)
                       => e2 = e /\ o2 = o /\ j = k
    BY <2>1 DEF IInv, CreationsUnique
  <2>2. diaryDocs' \subseteq minted'
    BY <1>2, <1>3 DEF IInv, CreationsUnique, CommitEffect
  <2>3. ASSUME NEW e \in Devices, NEW o \in Owners, NEW k \in 1..Len(writes[e][o]),
               writes[e][o][k].op = "createDiary",
               ~(e = dev /\ o = o0 /\ k = 1)
        PROVE  writes[e][o][k].diary \in minted' \ diaryDocs'
    <3>1. writes[e][o][k].diary \in minted \ diaryDocs
      BY <2>1, <2>3
    <3>2. w.op = "createDiary" => w.diary # writes[e][o][k].diary
      BY <1>1, <2>1, <2>3
    <3> QED BY <1>2, <1>3, <3>1, <3>2 DEF CommitEffect
  <2> SUFFICES ASSUME NEW e \in Devices, NEW o \in Owners, NEW k \in 1..Len(writes'[e][o]),
                      writes'[e][o][k].op = "createDiary"
               PROVE  /\ writes'[e][o][k].diary \in minted' \ diaryDocs'
                      /\ writes'[e][o][k].user = o /\ o \in Users
                      /\ \A e2 \in Devices, o2 \in Owners :
                           \A j \in 1..Len(writes'[e2][o2]) :
                             (/\ writes'[e2][o2][j].op = "createDiary"
                              /\ writes'[e2][o2][j].diary = writes'[e][o][k].diary)
                                => e2 = e /\ o2 = o /\ j = k
    BY <2>2 DEF CreationsUnique
  <2> DEFINE Old(e_, o_, k_) == IF e_ = dev /\ o_ = o0 THEN k_ + 1 ELSE k_
  <2>4. ASSUME NEW e2 \in Devices, NEW o2 \in Owners, NEW j \in 1..Len(writes'[e2][o2])
        PROVE  /\ Old(e2, o2, j) \in 1..Len(writes[e2][o2])
               /\ writes'[e2][o2][j] = writes[e2][o2][Old(e2, o2, j)]
               /\ ~(e2 = dev /\ o2 = o0 /\ Old(e2, o2, j) = 1)
    BY <1>6
  <2>5. /\ writes'[e][o][k].diary \in minted' \ diaryDocs'
        /\ writes'[e][o][k].user = o /\ o \in Users
    <3> HIDE DEF Old
    <3>1. writes[e][o][Old(e, o, k)].op = "createDiary"
      BY <2>4
    <3> QED BY <2>1, <2>3, <2>4, <3>1
  <2>6. ASSUME NEW e2 \in Devices, NEW o2 \in Owners, NEW j \in 1..Len(writes'[e2][o2]),
               writes'[e2][o2][j].op = "createDiary",
               writes'[e2][o2][j].diary = writes'[e][o][k].diary
        PROVE  e2 = e /\ o2 = o /\ j = k
    <3>1. e2 = e /\ o2 = o /\ Old(e2, o2, j) = Old(e, o, k)
      <4> HIDE DEF Old
      <4>1. /\ writes[e][o][Old(e, o, k)].op = "createDiary"
            /\ writes[e2][o2][Old(e2, o2, j)].op = "createDiary"
            /\ writes[e2][o2][Old(e2, o2, j)].diary = writes[e][o][Old(e, o, k)].diary
        BY <2>4, <2>6
      <4>2. /\ Old(e, o, k) \in 1..Len(writes[e][o])
            /\ Old(e2, o2, j) \in 1..Len(writes[e2][o2])
        BY <2>4
      <4> QED BY <2>1, <4>1, <4>2
    <3> QED BY <3>1
  <2> QED BY <2>5, <2>6
<1>14. ListingsJustified'
  <2> SUFFICES ASSUME NEW e \in Devices, NEW o \in Owners, NEW k \in 1..Len(writes'[e][o]),
                      writes'[e][o][k].op = "listDiary", Accepted(o)
               PROVE  \/ writes'[e][o][k].user \in memberList'[writes'[e][o][k].diary]
                      \/ \E j \in 1..(k - 1) :
                            /\ writes'[e][o][j].op = "addMember"
                            /\ writes'[e][o][j].user = writes'[e][o][k].user
                            /\ writes'[e][o][j].diary = writes'[e][o][k].diary
    BY DEF ListingsJustified, Accepted
  <2>1. ASSUME NEW n \in 1..Len(writes[e][o]), writes[e][o][n].op = "listDiary"
        PROVE  /\ \/ writes[e][o][n].user \in memberList[writes[e][o][n].diary]
                  \/ \E j \in 1..(n - 1) : /\ writes[e][o][j].op = "addMember"
                                           /\ writes[e][o][j].user = writes[e][o][n].user
                                           /\ writes[e][o][j].diary = writes[e][o][n].diary
               /\ writes[e][o][n].diary \in Diaries
    <3>1. writes[e][o] \in Seq(Writes)
      BY DEF IInv, TypeOK
    <3>2. writes[e][o][n] \in Writes
      BY <3>1, ElementOfSeq
    <3> QED BY <2>1, <3>2 DEF IInv, ListingsJustified, Writes
  <2>2. CASE ~(e = dev /\ o = o0)
    <3>1. writes'[e][o] = writes[e][o] /\ k \in 1..Len(writes[e][o])
      BY <1>6, <2>2
    <3> QED BY <1>2, <2>1, <3>1 DEF CommitEffect
  <2>3. CASE e = dev /\ o = o0
    <3>1. k + 1 \in 1..Len(writes[e][o]) /\ writes'[e][o][k] = writes[e][o][k + 1]
      BY <1>6, <2>3
    <3>2. CASE writes[e][o][k + 1].user \in memberList[writes[e][o][k + 1].diary]
      BY <1>2, <2>1, <3>1, <3>2 DEF CommitEffect
    <3>3. ASSUME NEW j \in 1..((k + 1) - 1), writes[e][o][j].op = "addMember",
                 writes[e][o][j].user = writes[e][o][k + 1].user,
                 writes[e][o][j].diary = writes[e][o][k + 1].diary
          PROVE  \/ writes'[e][o][k].user \in memberList'[writes'[e][o][k].diary]
                 \/ \E n \in 1..(k - 1) :
                       /\ writes'[e][o][n].op = "addMember"
                       /\ writes'[e][o][n].user = writes'[e][o][k].user
                       /\ writes'[e][o][n].diary = writes'[e][o][k].diary
      <4>1. CASE j = 1
        <5>1. w.op = "addMember" /\ w.user = writes'[e][o][k].user
              /\ w.diary = writes'[e][o][k].diary
          BY <1>1, <2>3, <3>1, <3>3, <4>1
        <5> QED BY <1>2, <2>3, <5>1 DEF CommitEffect
      <4>2. CASE j # 1
        <5>1. j - 1 \in 1..(k - 1) /\ j - 1 \in 1..Len(writes'[e][o]) /\ (j - 1) + 1 = j
          BY <4>2
        <5>2. writes'[e][o][j - 1] = writes[e][o][j]
          BY <1>6, <2>3, <5>1
        <5> QED BY <3>1, <3>3, <5>1, <5>2
      <4> QED BY <4>1, <4>2
    <3> QED BY <2>1, <3>1, <3>2, <3>3
  <2> QED BY <2>2, <2>3
<1>15. ReadyForCreator'
  <2> SUFFICES ASSUME NEW e \in Devices, NEW d \in Diaries, completion'[e][d] = "ready"
               PROVE  d \in diaryDocs' /\ auth[e] \in memberList'[d] \cup {NoUser}
    BY <1>3 DEF ReadyForCreator
  <2>1. CASE completion[e][d] = "ready"
    BY <1>2, <2>1 DEF IInv, ReadyForCreator, CommitEffect
  <2>2. CASE completion[e][d] # "ready"
    <3>1. w.op = "createDiary" /\ e = dev /\ d = w.diary
      BY <1>4, <2>2 DEF IInv, TypeOK
    <3> QED BY <1>2, <3>1 DEF CommitEffect, o0
  <2> QED BY <2>1, <2>2
<1>16. ListedImpliesMember'
  <2> SUFFICES ASSUME NEW u \in Users, NEW d \in userDiaryList'[u]
               PROVE  u \in memberList'[d]
    BY DEF ListedImpliesMember
  <2>1. d \in Diaries
    BY <1>2 DEF CommitEffect, ServerTyped
  <2>2. CASE d \in userDiaryList[u]
    BY <1>2, <2>1, <2>2 DEF IInv, ListedImpliesMember, CommitEffect
  <2>3. CASE w.op = "listDiary" /\ w.user = u /\ w.diary = d /\ Accepted(o0)
    <3>1. w.user \in memberList[w.diary]
      BY <1>1, <2>3 DEF IInv, ListingsJustified
    <3> QED BY <1>2, <2>1, <2>3, <3>1 DEF CommitEffect
  <2> QED BY <1>2, <2>2, <2>3 DEF CommitEffect
<1> QED BY <1>8, <1>9, <1>10, <1>11, <1>12, <1>13, <1>14, <1>15, <1>16 DEF IInv
-------------------------------------------------------------------------------
(***************************************************************************)
(* A process starts again: every queue is cut to its persisted prefix.     *)
(***************************************************************************)
LEMMA RestartCuts ==
  ASSUME IInv, NEW dev \in Devices, Restart(dev),
         NEW e \in Devices, NEW o \in Owners
  PROVE  /\ writes'[e][o] \in Seq(Writes)
         /\ Len(writes'[e][o]) <= Len(writes[e][o])
         /\ durable[e][o] <= Len(writes'[e][o])
         /\ \A k \in 1..Len(writes'[e][o]) :
              k \in 1..Len(writes[e][o]) /\ writes'[e][o][k] = writes[e][o][k]
         /\ e # dev => writes'[e][o] = writes[e][o]
<1> DEFINE q == writes[e][o]
           n == durable[e][o]
<1>1. q \in Seq(Writes) /\ Len(q) \in Nat /\ n \in Nat /\ n <= Len(q)
  BY LenProperties DEF IInv, TypeOK
<1>2. CASE e # dev
  <2>1. writes'[e][o] = q
    BY <1>2 DEF Restart, IInv, TypeOK
  <2> QED BY <1>1, <2>1
<1>3. CASE e = dev
  <2>1. writes'[e][o] = SubSeq(q, 1, n)
    BY <1>3 DEF Restart, IInv, TypeOK
  <2> HIDE DEF q, n
  <2>2. /\ SubSeq(q, 1, n) \in Seq(Writes)
        /\ Len(SubSeq(q, 1, n)) = n
        /\ \A k \in 1..n : SubSeq(q, 1, n)[k] = q[k]
    BY <1>1
  <2> QED BY <1>1, <1>3, <2>1, <2>2 DEF q, n
<1> QED BY <1>2, <1>3

LEMMA RestartKeeps ==
  ASSUME IInv, NEW dev \in Devices, Restart(dev)
  PROVE  IInv'
<1>1. ASSUME NEW e \in Devices, NEW o \in Owners
      PROVE  /\ writes'[e][o] \in Seq(Writes)
             /\ Len(writes'[e][o]) <= Len(writes[e][o])
             /\ durable[e][o] <= Len(writes'[e][o])
             /\ \A k \in 1..Len(writes'[e][o]) :
                  k \in 1..Len(writes[e][o]) /\ writes'[e][o][k] = writes[e][o][k]
  BY RestartCuts
<1>2. /\ UNCHANGED <<server, minted, auth, durable, known, bounds>>
      /\ proc' = [proc EXCEPT ![dev] = "running"]
      /\ screen' = [screen EXCEPT ![dev] = "intro"]
      /\ currentUID' = [currentUID EXCEPT ![dev] = NoUser]
      /\ openDiary' = [openDiary EXCEPT ![dev] = NoDiary]
      /\ check' = [check EXCEPT ![dev] = [u \in Users |-> "none"]]
      /\ completion' = [completion EXCEPT ![dev] = [d \in Diaries |-> "none"]]
      /\ invites' = [invites EXCEPT ![dev] = {}]
  BY DEF Restart, HandlersLost
<1>3. TypeOK'
  <2>1. writes' \in [Devices -> [Owners -> Seq(Writes)]]
    <3>1. /\ writes' = [writes EXCEPT ![dev] =
                          [o \in Owners |-> SubSeq(writes[dev][o], 1, durable[dev][o])]]
          /\ \A o \in Owners : writes'[dev][o] = SubSeq(writes[dev][o], 1, durable[dev][o])
      BY DEF Restart, IInv, TypeOK
    <3>2. [o \in Owners |-> SubSeq(writes[dev][o], 1, durable[dev][o])]
             \in [Owners -> Seq(Writes)]
      BY <1>1, <3>1
    <3> QED BY <3>1, <3>2 DEF IInv, TypeOK
  <2>2. \A e \in Devices, o \in Owners : durable'[e][o] <= Len(writes'[e][o])
    BY <1>1, <1>2
  <2> QED BY <1>2, <2>1, <2>2 DEF IInv, TypeOK, server, bounds, Owners
<1>4. FreshDiariesEmpty' /\ ListedImpliesMember'
  BY <1>2, IssueKeepsServerFacts DEF IInv
<1>5. SessionMatches'
  BY <1>2 DEF IInv, TypeOK, SessionMatches
<1>6. OpenDiaryExists'
  BY <1>2 DEF IInv, TypeOK, OpenDiaryExists, server
<1>7. ReadyForCreator'
  BY <1>2 DEF IInv, TypeOK, ReadyForCreator, server
<1>8. UpdatesOfExisting'
  <2> SUFFICES ASSUME NEW e \in Devices, NEW o \in Owners, NEW k \in 1..Len(writes'[e][o]),
                      writes'[e][o][k].op \in {"setDiaryID", "addMember", "listDiary"}
               PROVE  writes'[e][o][k].diary \in diaryDocs
    BY <1>2 DEF UpdatesOfExisting, server
  <2>1. k \in 1..Len(writes[e][o]) /\ writes'[e][o][k] = writes[e][o][k]
    BY <1>1
  <2> QED BY <2>1 DEF IInv, UpdatesOfExisting
<1>9. CreationsUnique'
  <2>1. ASSUME NEW e \in Devices, NEW o \in Owners, NEW k \in 1..Len(writes[e][o]),
               writes[e][o][k].op = "createDiary"
        PROVE  /\ writes[e][o][k].diary \in minted \ diaryDocs
               /\ writes[e][o][k].user = o /\ o \in Users
               /\ \A e2 \in Devices, o2 \in Owners : \A j \in 1..Len(writes[e2][o2]) :
                    (/\ writes[e2][o2][j].op = "createDiary"
                     /\ writes[e2][o2][j].diary = writes[e][o][k].diary)
                       => e2 = e /\ o2 = o /\ j = k
    BY <2>1 DEF IInv, CreationsUnique
  <2>2. diaryDocs' \subseteq minted'
    BY <1>2 DEF IInv, CreationsUnique, server
  <2> SUFFICES ASSUME NEW e \in Devices, NEW o \in Owners, NEW k \in 1..Len(writes'[e][o]),
                      writes'[e][o][k].op = "createDiary"
               PROVE  /\ writes'[e][o][k].diary \in minted \ diaryDocs
                      /\ writes'[e][o][k].user = o /\ o \in Users
                      /\ \A e2 \in Devices, o2 \in Owners :
                           \A j \in 1..Len(writes'[e2][o2]) :
                             (/\ writes'[e2][o2][j].op = "createDiary"
                              /\ writes'[e2][o2][j].diary = writes'[e][o][k].diary)
                                => e2 = e /\ o2 = o /\ j = k
    BY <1>2, <2>2 DEF CreationsUnique, server
  <2>3. k \in 1..Len(writes[e][o]) /\ writes'[e][o][k] = writes[e][o][k]
    BY <1>1
  <2>4. ASSUME NEW e2 \in Devices, NEW o2 \in Owners, NEW j \in 1..Len(writes'[e2][o2]),
               writes'[e2][o2][j].op = "createDiary",
               writes'[e2][o2][j].diary = writes'[e][o][k].diary
        PROVE  e2 = e /\ o2 = o /\ j = k
    <3>1. j \in 1..Len(writes[e2][o2]) /\ writes'[e2][o2][j] = writes[e2][o2][j]
      BY <1>1
    <3> QED BY <2>1, <2>3, <2>4, <3>1
  <2>5. writes[e][o][k].diary \in minted \ diaryDocs /\ writes[e][o][k].user = o /\ o \in Users
    BY <2>1, <2>3
  <2> QED BY <2>3, <2>4, <2>5
<1>10. ListingsJustified'
  <2> SUFFICES ASSUME NEW e \in Devices, NEW o \in Owners, NEW k \in 1..Len(writes'[e][o]),
                      writes'[e][o][k].op = "listDiary", Accepted(o)
               PROVE  \/ writes'[e][o][k].user \in memberList[writes'[e][o][k].diary]
                      \/ \E j \in 1..(k - 1) :
                            /\ writes'[e][o][j].op = "addMember"
                            /\ writes'[e][o][j].user = writes'[e][o][k].user
                            /\ writes'[e][o][j].diary = writes'[e][o][k].diary
    BY <1>2 DEF ListingsJustified, Accepted, server
  <2>1. k \in 1..Len(writes[e][o]) /\ writes'[e][o][k] = writes[e][o][k]
    BY <1>1
  <2>2. \A j \in 1..(k - 1) : writes'[e][o][j] = writes[e][o][j]
    BY <1>1
  <2>3. \/ writes[e][o][k].user \in memberList[writes[e][o][k].diary]
        \/ \E j \in 1..(k - 1) : /\ writes[e][o][j].op = "addMember"
                                 /\ writes[e][o][j].user = writes[e][o][k].user
                                 /\ writes[e][o][j].diary = writes[e][o][k].diary
    BY <2>1 DEF IInv, ListingsJustified
  <2> QED BY <2>1, <2>2, <2>3
<1> QED BY <1>3, <1>4, <1>5, <1>6, <1>7, <1>8, <1>9, <1>10 DEF IInv

-------------------------------------------------------------------------------
(***************************************************************************)
(* The theorems.                                                           *)
(***************************************************************************)
LEMMA InitIInv == Init => IInv
<1> SUFFICES ASSUME Init PROVE IInv
  OBVIOUS
<1> USE DEF Init
<1>1. TypeOK
  <2>1. <<>> \in Seq(Writes) /\ Len(<<>>) = 0
    OBVIOUS
  <2>2. writes \in [Devices -> [Owners -> Seq(Writes)]]
    BY <2>1
  <2>3. \A dev \in Devices, o \in Owners : durable[dev][o] <= Len(writes[dev][o])
    BY <2>1
  <2> QED BY <2>2, <2>3, InitialUsersAssumption, BoundsAssumption DEF TypeOK, Owners
<1>2. \A dev \in Devices, o \in Owners : 1..Len(writes[dev][o]) = {}
  OBVIOUS
<1>3. CreationsUnique /\ UpdatesOfExisting /\ ListingsJustified
  BY <1>2 DEF CreationsUnique, UpdatesOfExisting, ListingsJustified
<1>4. FreshDiariesEmpty /\ SessionMatches /\ OpenDiaryExists
  BY DEF FreshDiariesEmpty, SessionMatches, OpenDiaryExists
<1>5. ReadyForCreator /\ ListedImpliesMember
  BY DEF ReadyForCreator, ListedImpliesMember
<1> QED BY <1>1, <1>3, <1>4, <1>5 DEF IInv

LEMMA NextIInv == IInv /\ [Next]_vars => IInv'
<1> SUFFICES ASSUME IInv, [Next]_vars PROVE IInv'
  OBVIOUS
<1>1. CASE UNCHANGED vars
  BY <1>1 DEF vars, server, disk, ui, calls, bounds, IInv, TypeOK, FreshDiariesEmpty,
              SessionMatches, CreationsUnique, UpdatesOfExisting, OpenDiaryExists,
              ListingsJustified, Accepted, ReadyForCreator, ListedImpliesMember
<1>2. ASSUME NEW dev \in Devices, Library(dev)
      PROVE  IInv'
  BY <1>2, PersistKeeps, CommitKeeps DEF Library
<1>3. ASSUME NEW dev \in Devices, Handlers(dev)
      PROVE  IInv'
  BY <1>3, AnswerCheckKeeps, FinishCheckKeeps, CompleteAddDiaryKeeps, AnswerInviteKeeps
     DEF Handlers
<1>4. ASSUME NEW dev \in Devices, Person(dev)
      PROVE  IInv'
  BY <1>4, SignInKeeps, TapAddUserKeeps, SwipeKeeps, LogOutKeeps, CloseDiaryKeeps,
     AddDiaryKeeps, OpenDiaryKeeps
     DEF Person
<1>5. ASSUME NEW dev \in Devices, Kill(dev) \/ Restart(dev)
      PROVE  IInv'
  BY <1>5, KillKeeps, RestartKeeps
<1> QED BY <1>1, <1>2, <1>3, <1>4, <1>5 DEF Next

(* The inductive invariant holds in every reachable state.                 *)
THEOREM SpecImpliesIInv == Spec => []IInv
<1> QED BY InitIInv, NextIInv, PTL DEF Spec

(* Every variable keeps its type: in particular the server never stores a  *)
(* "" among the members of a diary, although currentUID may be "" when a   *)
(* handler runs.                                                           *)
THEOREM SpecImpliesTypeOK == Spec => []TypeOK
<1>1. IInv => TypeOK
  BY DEF IInv
<1> QED BY <1>1, SpecImpliesIInv, PTL

(* Nobody is shown a diary that does not count them as a member, whatever  *)
(* is killed, delayed or logged out between the two writes of addUser and  *)
(* between addDiary and its completion handler.                            *)
THEOREM SpecImpliesListedImpliesMember == Spec => []ListedImpliesMember
<1>1. IInv => ListedImpliesMember
  BY DEF IInv
<1> QED BY <1>1, SpecImpliesIInv, PTL
-------------------------------------------------------------------------------
(***************************************************************************)
(* The writes implement Membership.                                        *)
(***************************************************************************)
Granted == {m \in Diaries \X Users : m[2] \in memberList[m[1]]}
Listed  == {m \in Diaries \X Users : m[1] \in userDiaryList[m[2]]}

(* A step that leaves the two lists alone is a stutter of Membership.      *)
LEMMA ListsUntouched ==
  ASSUME UNCHANGED <<userDiaryList, memberList>>
  PROVE  Granted' = Granted /\ Listed' = Listed
  BY DEF Granted, Listed

(* Every accepted write is one step of Membership, or none.                *)
LEMMA CommitRefines ==
  ASSUME IInv, NEW dev \in Devices, Commit(dev)
  PROVE  \/ Granted' = Granted /\ Listed' = Listed
         \/ \E d \in Diaries, u \in Users :
              \/ Granted' = Granted \cup {<<d, u>>} /\ Listed' = Listed
              \/ /\ <<d, u>> \in Granted
                 /\ Listed' = Listed \cup {<<d, u>>} /\ Granted' = Granted
         \/ \E u \in Users :
              Listed' = {m \in Listed : m[2] # u} /\ Granted' = Granted
<1> DEFINE w == Head(Queue(dev))
           o == auth[dev]
<1>1. o \in Owners /\ w = writes[dev][o][1] /\ w \in Writes /\ 1 \in 1..Len(writes[dev][o])
  BY HeadLeaves
<1>2. \/ Accepted(o) /\ OnServer(w)
      \/ UNCHANGED server
  BY DEF Commit, Accepted
<1>3. w.op = "createDiary" => w.diary \notin diaryDocs
  BY <1>1 DEF IInv, CreationsUnique
<1>4. w.op = "listDiary" /\ Accepted(o) => w.user \in memberList[w.diary]
  BY <1>1 DEF IInv, ListingsJustified
<1>5. /\ memberList \in [Diaries -> SUBSET Users]
      /\ userDiaryList \in [Users -> SUBSET Diaries]
  BY DEF IInv, TypeOK
<1> HIDE DEF w, o
<1>6. CASE w.op = "createUser" /\ CreateUserOnServer(w)
  <2>1. w.user \in Users
    BY <1>1, <1>6 DEF Writes
  <2>2. Granted' = Granted /\ Listed' = {m \in Listed : m[2] # w.user}
    BY <1>5, <1>6, <2>1 DEF CreateUserOnServer, Granted, Listed
  <2> QED BY <2>1, <2>2
<1>7. CASE w.op = "createDiary" /\ CreateDiaryOnServer(w)
  <2>1. w.user \in Users /\ w.diary \in Diaries /\ memberList[w.diary] = {}
    BY <1>1, <1>3, <1>7 DEF Writes, IInv, FreshDiariesEmpty
  <2>2. Listed' = Listed /\ Granted' = Granted \cup {<<w.diary, w.user>>}
    BY <1>5, <1>7, <2>1 DEF CreateDiaryOnServer, Granted, Listed
  <2> QED BY <2>1, <2>2
<1>8. CASE w.op = "setDiaryID" /\ SetDiaryIDOnServer(w)
  BY <1>8, ListsUntouched DEF SetDiaryIDOnServer
<1>9. CASE w.op = "addMember" /\ AddMemberOnServer(w)
  <2>1. w.user \in Users /\ w.diary \in Diaries
    BY <1>1, <1>9 DEF Writes
  <2>2. CASE w.diary \in diaryDocs
    <3>1. Listed' = Listed /\ Granted' = Granted \cup {<<w.diary, w.user>>}
      BY <1>5, <1>9, <2>1, <2>2 DEF AddMemberOnServer, Granted, Listed
    <3> QED BY <2>1, <3>1
  <2>3. CASE w.diary \notin diaryDocs
    BY <1>9, <2>3, ListsUntouched DEF AddMemberOnServer
  <2> QED BY <2>2, <2>3
<1>10. CASE w.op = "listDiary" /\ ListDiaryOnServer(w) /\ Accepted(o)
  <2>1. w.user \in Users /\ w.diary \in Diaries
    BY <1>1, <1>10 DEF Writes
  <2>2. CASE w.user \in userDocs
    <3>1. <<w.diary, w.user>> \in Granted
      BY <1>4, <1>10, <2>1 DEF Granted
    <3>2. Granted' = Granted /\ Listed' = Listed \cup {<<w.diary, w.user>>}
      BY <1>5, <1>10, <2>1, <2>2 DEF ListDiaryOnServer, Granted, Listed
    <3> QED BY <2>1, <3>1, <3>2
  <2>3. CASE w.user \notin userDocs
    BY <1>10, <2>3, ListsUntouched DEF ListDiaryOnServer
  <2> QED BY <2>2, <2>3
<1>11. CASE UNCHANGED server
  BY <1>11, ListsUntouched DEF server
<1> QED BY <1>2, <1>6, <1>7, <1>8, <1>9, <1>10, <1>11 DEF OnServer

(* The devices' writes never do to the two lists what Membership forbids:  *)
(* a membership is for good, a listing needs one, a list is lost only as a *)
(* whole.                                                                  *)
THEOREM SpecImplementsMembership == Spec => ImplementsMembership
<1>1. Init => Membership!Init
  BY DEF Init, Membership!Init
<1>2. IInv /\ [Next]_vars => [Membership!Next]_(Membership!mvars)
  <2> SUFFICES ASSUME IInv, [Next]_vars
               PROVE  [Membership!Next]_(Membership!mvars)
    OBVIOUS
  <2>1. ASSUME NEW dev \in Devices, Commit(dev)
        PROVE  [Membership!Next]_(Membership!mvars)
    BY <2>1, CommitRefines
       DEF Granted, Listed, Membership!Next, Membership!Grant, Membership!List,
           Membership!Forget, Membership!mvars
  <2>2. CASE UNCHANGED server
    BY <2>2, ListsUntouched DEF server, Granted, Listed, Membership!mvars
  <2>3. (\E dev \in Devices : Commit(dev)) \/ UNCHANGED server
    BY DEF Next, Library, Handlers, Person, Persist, AnswerCheck, FinishCheck,
           CompleteAddDiary, AnswerInvite, SignIn, TapAddUser, Swipe, LogOut, CloseDiary,
           AddDiary, OpenDiary, Kill, Restart, vars
  <2> QED BY <2>1, <2>2, <2>3
<1> QED BY <1>1, <1>2, SpecImpliesIInv, PTL DEF Spec, ImplementsMembership, Membership!Spec

-------------------------------------------------------------------------------
(***************************************************************************)
(* While nobody logs out, nothing raises and a listed diary has its id.    *)
(***************************************************************************)
(* What is before a place of a queue is before every later place.          *)
LEMMA IdBeforeLater ==
  ASSUME NEW dev, NEW o, NEW d, NEW k \in Nat, NEW n \in Nat, k <= n,
         IdBefore(dev, o, k, d)
  PROVE  IdBefore(dev, o, n, d)
  BY DEF IdBefore

(* A batch may join when its listings have their id before them.           *)
ListsWithID(dev, batch) ==
    \A i \in 1..Len(batch) :
        batch[i].op = "listDiary" /\ Accepted(auth[dev]) =>
            \/ IdBefore(dev, auth[dev], Len(writes[dev][auth[dev]]) + 1, batch[i].diary)
            \/ \E j \in 1..(i - 1) :
                  batch[j].op = "setDiaryID" /\ batch[j].diary = batch[i].diary

LEMMA BatchKeepsIDs ==
  ASSUME IInv, ListingsHaveID, OpenDiaryHasID,
         NEW dev \in Devices, NEW batch \in Seq(Writes), Appended(dev, batch),
         ListsWithID(dev, batch), UNCHANGED <<hasDiaryID, auth, openDiary>>
  PROVE  ListingsHaveID' /\ OpenDiaryHasID'
<1>1. \A e \in Devices, o \in Owners :
         Len(writes[e][o]) \in Nat /\ Len(writes'[e][o]) \in Nat
  BY LenProperties DEF IInv, TypeOK, Appended
<1>2. auth \in [Devices -> Owners]
  BY DEF IInv, TypeOK
<1>3. ListingsHaveID'
  <2> SUFFICES ASSUME NEW e \in Devices, NEW o \in Owners, NEW k \in 1..Len(writes'[e][o]),
                      writes'[e][o][k].op = "listDiary", Accepted(o)
               PROVE  IdBefore(e, o, k, writes[e][o][k].diary)'
    BY DEF ListingsHaveID, Accepted
  <2> DEFINE d == writes'[e][o][k].diary
  <2>1. CASE k \in 1..Len(writes[e][o])
    <3>1. writes'[e][o][k] = writes[e][o][k]
      BY <2>1 DEF Appended
    <3>2. IdBefore(e, o, k, d)
      BY <2>1, <3>1 DEF ListingsHaveID
    <3>3. k \in 1..(Len(writes[e][o]) + 1)
      BY <1>1, <2>1
    <3> HIDE DEF d
    <3>4. IdBefore(e, o, k, d) => \/ d \in hasDiaryID'
                                  \/ \E j \in 1..(k - 1) : /\ writes'[e][o][j].op = "setDiaryID"
                                                           /\ writes'[e][o][j].diary = d
      <4>1. \A j \in 1..(k - 1) : writes'[e][o][j] = writes[e][o][j]
        BY <1>1, <2>1 DEF Appended
      <4> QED BY <4>1 DEF IdBefore
    <3> QED BY <3>2, <3>4 DEF IdBefore, d
  <2>2. CASE k \notin 1..Len(writes[e][o])
    <3>1. PICK i \in 1..Len(batch) : k = Len(writes[e][o]) + i /\ writes'[e][o][k] = batch[i]
      BY <2>2 DEF Appended
    <3>2. e = dev /\ o = auth[dev]
      BY <2>2 DEF Appended
    <3>3. Len(batch) \in Nat
      BY LenProperties
    <3>4. CASE IdBefore(e, o, Len(writes[e][o]) + 1, batch[i].diary)
      <4>1. \A j \in 1..Len(writes[e][o]) : writes'[e][o][j] = writes[e][o][j]
        BY DEF Appended
      <4>2. \/ d \in hasDiaryID'
            \/ \E j \in 1..Len(writes[e][o]) : /\ writes'[e][o][j].op = "setDiaryID"
                                               /\ writes'[e][o][j].diary = d
        <5>1. (Len(writes[e][o]) + 1) - 1 = Len(writes[e][o])
          BY <1>1
        <5>2. d = batch[i].diary
          BY <3>1
        <5> HIDE DEF d
        <5> QED BY <3>4, <4>1, <5>1, <5>2 DEF IdBefore
      <4>3. 1..Len(writes[e][o]) \subseteq 1..(k - 1)
        BY <1>1, <3>1, <3>3
      <4> QED BY <4>2, <4>3 DEF IdBefore
    <3>5. ASSUME NEW j \in 1..(i - 1), batch[j].op = "setDiaryID",
                 batch[j].diary = batch[i].diary
          PROVE  IdBefore(e, o, k, writes[e][o][k].diary)'
      <4> DEFINE n == Len(writes[e][o])
      <4>0. n \in Nat /\ k = n + i /\ i \in 1..Len(batch) /\ j \in 1..(i - 1)
        BY <1>1, <3>1
      <4> HIDE DEF n
      <4>3. j \in 1..Len(batch) /\ n + j \in 1..(k - 1)
        BY <3>3, <4>0
      <4>1. j \in 1..Len(batch) /\ Len(writes[e][o]) + j \in 1..(k - 1)
        BY <4>3 DEF n
      <4>2. writes'[e][o][Len(writes[e][o]) + j] = batch[j]
        BY <3>2, <4>1 DEF Appended
      <4> QED BY <3>1, <3>5, <4>1, <4>2 DEF IdBefore
    <3> QED BY <3>1, <3>2, <3>4, <3>5 DEF ListsWithID
  <2> QED BY <2>1, <2>2
<1>4. OpenDiaryHasID'
  <2> SUFFICES ASSUME NEW e \in Devices, openDiary[e] # NoDiary
               PROVE  /\ auth[e] \in Users
                      /\ \/ openDiary[e] \in hasDiaryID
                         \/ \E j \in 1..Len(writes'[e][auth[e]]) :
                               /\ writes'[e][auth[e]][j].op = "setDiaryID"
                               /\ writes'[e][auth[e]][j].diary = openDiary[e]
    <3>1. \A e \in Devices : Len(writes'[e][auth[e]]) \in Nat
      BY <1>1, <1>2
    <3> QED BY <3>1 DEF OpenDiaryHasID, IdBefore
  <2>1. auth[e] \in Users /\ auth[e] \in Owners
    BY <1>2 DEF OpenDiaryHasID
  <2>2. \/ openDiary[e] \in hasDiaryID
        \/ \E j \in 1..Len(writes[e][auth[e]]) :
              /\ writes[e][auth[e]][j].op = "setDiaryID"
              /\ writes[e][auth[e]][j].diary = openDiary[e]
    BY <1>1, <2>1 DEF OpenDiaryHasID, IdBefore
  <2>3. \A j \in 1..Len(writes[e][auth[e]]) :
           /\ writes'[e][auth[e]][j] = writes[e][auth[e]][j]
           /\ j \in 1..Len(writes'[e][auth[e]])
    BY <1>1, <2>1 DEF Appended
  <2> QED BY <2>1, <2>2, <2>3
<1> QED BY <1>3, <1>4

(* A commit moves a queue up by one place, and nothing that was before a   *)
(* place, other than the id of a diary being created, is lost by it.       *)
LEMMA CommitKeepsIDs ==
  ASSUME IInv, NEW dev \in Devices, Commit(dev),
         NEW e \in Devices, NEW o \in Owners, Accepted(o),
         NEW k \in 1..(Len(writes'[e][o]) + 1), NEW d \in diaryDocs,
         IdBefore(e, o, IF e = dev /\ o = auth[dev] THEN k + 1 ELSE k, d)
  PROVE  IdBefore(e, o, k, d)'
<1> DEFINE w == Head(Queue(dev))
<1>1. /\ auth[dev] \in Owners /\ w \in Writes /\ w = writes[dev][auth[dev]][1]
      /\ 1 \in 1..Len(writes[dev][auth[dev]])
  BY HeadLeaves
<1>2. w.op = "createDiary" => w.diary \notin diaryDocs
  BY <1>1 DEF IInv, CreationsUnique
<1>3. w.op = "setDiaryID" => w.diary \in diaryDocs
  BY <1>1 DEF IInv, UpdatesOfExisting
<1>4. IF Accepted(auth[dev]) THEN OnServer(w) ELSE UNCHANGED server
  BY DEF Commit, Accepted
<1>5. Len(writes'[e][o]) \in Nat
  BY HeadLeaves, LenProperties
<1> HIDE DEF w
<1>6. d \in hasDiaryID => d \in hasDiaryID'
  BY <1>2, <1>4 DEF OnServer, server, CreateUserOnServer, CreateDiaryOnServer,
                    SetDiaryIDOnServer, AddMemberOnServer, ListDiaryOnServer
<1>7. (/\ w.op = "setDiaryID" /\ w.diary = d
       /\ Accepted(auth[dev])) => d \in hasDiaryID'
  BY <1>3, <1>4 DEF OnServer, CreateUserOnServer, CreateDiaryOnServer,
                    SetDiaryIDOnServer, AddMemberOnServer, ListDiaryOnServer
<1>8. CASE e = dev /\ o = auth[dev]
  <2>1. \A j \in 1..Len(writes'[e][o]) : writes'[e][o][j] = writes[e][o][j + 1]
    BY <1>8, HeadLeaves
  <2>2. \/ d \in hasDiaryID
        \/ \E j \in 1..((k + 1) - 1) : /\ writes[e][o][j].op = "setDiaryID"
                                       /\ writes[e][o][j].diary = d
    BY <1>8 DEF IdBefore
  <2>3. ASSUME NEW j \in 1..((k + 1) - 1), writes[e][o][j].op = "setDiaryID",
               writes[e][o][j].diary = d
        PROVE  IdBefore(e, o, k, d)'
    <3>1. CASE j = 1
      <4>1. w.op = "setDiaryID" /\ w.diary = d
        BY <1>1, <1>8, <2>3, <3>1
      <4> QED BY <1>7, <1>8, <4>1 DEF IdBefore
    <3>2. CASE j # 1
      <4>1. /\ j - 1 \in 1..(k - 1) /\ j - 1 \in 1..Len(writes'[e][o])
            /\ (j - 1) + 1 = j
        BY <1>5, <3>2
      <4>2. writes'[e][o][j - 1] = writes[e][o][j]
        BY <2>1, <4>1
      <4> QED BY <2>3, <4>1, <4>2 DEF IdBefore
    <3> QED BY <3>1, <3>2
  <2> QED BY <1>6, <2>2, <2>3 DEF IdBefore
<1>9. CASE ~(e = dev /\ o = auth[dev])
  <2>1. writes'[e][o] = writes[e][o]
    BY <1>9, HeadLeaves
  <2> QED BY <1>6, <1>9, <2>1 DEF IdBefore
<1> QED BY <1>8, <1>9

LEMMA CommitListsWithID ==
  ASSUME IInv, ListedHasDiaryID, ListingsHaveID, OpenDiaryHasID, logOuts = 0,
         NEW dev \in Devices, Commit(dev)
  PROVE  ListedHasDiaryID' /\ ListingsHaveID' /\ OpenDiaryHasID'
<1> DEFINE w == Head(Queue(dev))
           o0 == auth[dev]
<1>1. /\ o0 \in Owners /\ w \in Writes /\ w = writes[dev][o0][1]
      /\ 1 \in 1..Len(writes[dev][o0])
  BY HeadLeaves
<1>2. CommitEffect(w, o0)
  BY CommitHasEffect
<1>3. UNCHANGED <<auth, openDiary, logOuts>>
  BY DEF Commit, ui, bounds
<1>4. \A e \in Devices, o \in Owners : Len(writes'[e][o]) \in Nat
  BY HeadLeaves, LenProperties
<1>5. w.op = "createDiary" => w.diary \notin diaryDocs
  BY <1>1 DEF IInv, CreationsUnique
<1>6. IF Accepted(o0) THEN OnServer(w) ELSE UNCHANGED server
  BY DEF Commit, Accepted
<1> HIDE DEF w, o0
<1>7. hasDiaryID \cap diaryDocs \subseteq hasDiaryID'
  BY <1>5, <1>6 DEF OnServer, server, CreateUserOnServer, CreateDiaryOnServer,
                    SetDiaryIDOnServer, AddMemberOnServer, ListDiaryOnServer
<1>8. ListedHasDiaryID'
  <2> SUFFICES ASSUME NEW u \in Users, NEW d \in userDiaryList'[u]
               PROVE  d \in hasDiaryID'
    BY DEF ListedHasDiaryID
  <2>1. CASE d \in userDiaryList[u]
    <3>1. u \in memberList[d] /\ d \in Diaries
      BY <2>1 DEF IInv, TypeOK, ListedImpliesMember
    <3>2. d \in diaryDocs
      BY <3>1 DEF IInv, FreshDiariesEmpty
    <3>3. d \in hasDiaryID
      BY <2>1 DEF ListedHasDiaryID
    <3> QED BY <1>7, <3>2, <3>3
  <2>2. CASE w.op = "listDiary" /\ w.diary = d /\ Accepted(o0)
    <3>1. IdBefore(dev, o0, 1, d)
      BY <1>1, <2>2 DEF ListingsHaveID
    <3>2. d \in hasDiaryID
      BY <3>1 DEF IdBefore
    <3>3. d \in diaryDocs
      BY <1>1, <2>2 DEF IInv, UpdatesOfExisting
    <3> QED BY <1>7, <3>2, <3>3
  <2> QED BY <1>2, <2>1, <2>2 DEF CommitEffect
<1>9. ListingsHaveID'
  <2> SUFFICES ASSUME NEW e \in Devices, NEW o \in Owners, NEW k \in 1..Len(writes'[e][o]),
                      writes'[e][o][k].op = "listDiary", Accepted(o)
               PROVE  IdBefore(e, o, k, writes[e][o][k].diary)'
    BY DEF ListingsHaveID, Accepted
  <2> DEFINE n == IF e = dev /\ o = auth[dev] THEN k + 1 ELSE k
             d == writes'[e][o][k].diary
  <2>1. n \in 1..Len(writes[e][o]) /\ writes'[e][o][k] = writes[e][o][n]
    BY HeadLeaves
  <2>2. IdBefore(e, o, n, d) /\ d \in diaryDocs
    <3> HIDE DEF n
    <3> QED BY <2>1 DEF ListingsHaveID, IInv, UpdatesOfExisting
  <2>3. k \in 1..(Len(writes'[e][o]) + 1)
    BY <1>4
  <2>4. ASSUME NEW c \in diaryDocs, IdBefore(e, o, n, c)
        PROVE  IdBefore(e, o, k, c)'
    BY <2>3, <2>4, CommitKeepsIDs
  <2>5. \/ d \in hasDiaryID'
        \/ \E j \in 1..(k - 1) : /\ writes'[e][o][j].op = "setDiaryID"
                                 /\ writes'[e][o][j].diary = d
    <3> HIDE DEF d, n
    <3> QED BY <2>2, <2>4 DEF IdBefore
  <2> QED BY <2>5 DEF IdBefore
<1>10. OpenDiaryHasID'
  <2> SUFFICES ASSUME NEW e \in Devices, openDiary[e] # NoDiary
               PROVE  /\ auth[e] \in Users
                      /\ IdBefore(e, auth[e], Len(writes[e][auth[e]]) + 1, openDiary[e])'
    BY <1>3 DEF OpenDiaryHasID
  <2>1. PICK o \in Users : o = auth[e]
    BY DEF OpenDiaryHasID
  <2>2. PICK d \in diaryDocs : d = openDiary[e]
    BY DEF IInv, OpenDiaryExists
  <2>3. o \in Owners /\ Accepted(o)
    BY DEF Owners, Accepted
  <2>4. PICK n \in Nat : n = Len(writes'[e][o]) + 1
    BY <1>4, <2>3
  <2>5. Len(writes[e][o]) + 1 = IF e = dev /\ o = auth[dev] THEN n + 1 ELSE n
    <3>1. CASE e = dev /\ o = auth[dev]
      <4>1. /\ Len(writes'[e][o]) = Len(writes[e][o]) - 1
            /\ Len(writes[e][o]) \in Nat
        BY <3>1, HeadLeaves
      <4> QED BY <2>4, <3>1, <4>1
    <3>2. CASE ~(e = dev /\ o = auth[dev])
      <4>1. writes'[e][o] = writes[e][o]
        BY <2>3, <3>2, HeadLeaves
      <4> QED BY <2>4, <3>2, <4>1
    <3> QED BY <3>1, <3>2
  <2>6. IdBefore(e, o, IF e = dev /\ o = auth[dev] THEN n + 1 ELSE n, d)
    BY <2>1, <2>2, <2>5 DEF OpenDiaryHasID
  <2>7. n \in 1..(Len(writes'[e][o]) + 1)
    BY <2>4
  <2>8. IdBefore(e, o, n, d)'
    BY <2>3, <2>6, <2>7, CommitKeepsIDs
  <2> QED BY <1>3, <2>1, <2>2, <2>4, <2>8
<1> QED BY <1>8, <1>9, <1>10

(* A restart cuts queues at their ends, and forgets the diary opened.      *)
LEMMA RestartListsWithID ==
  ASSUME IInv, ListedHasDiaryID, ListingsHaveID, OpenDiaryHasID,
         NEW dev \in Devices, Restart(dev)
  PROVE  ListedHasDiaryID' /\ ListingsHaveID' /\ OpenDiaryHasID'
<1>1. UNCHANGED <<hasDiaryID, userDiaryList, auth, logOuts>>
  BY DEF Restart, server, bounds
<1>2. ListedHasDiaryID'
  BY <1>1 DEF ListedHasDiaryID
<1>3. ListingsHaveID'
  <2> SUFFICES ASSUME NEW e \in Devices, NEW o \in Owners, NEW k \in 1..Len(writes'[e][o]),
                      writes'[e][o][k].op = "listDiary", Accepted(o)
               PROVE  IdBefore(e, o, k, writes[e][o][k].diary)'
    BY DEF ListingsHaveID, Accepted
  <2>1. k \in 1..Len(writes[e][o]) /\ writes'[e][o][k] = writes[e][o][k]
    BY RestartCuts
  <2>2. \A j \in 1..(k - 1) : writes'[e][o][j] = writes[e][o][j]
    <3>1. writes'[e][o] \in Seq(Writes)
      BY RestartCuts
    <3>2. \A j \in 1..(k - 1) : j \in 1..Len(writes'[e][o])
      BY <3>1, LenProperties
    <3> QED BY <3>2, RestartCuts
  <2>3. IdBefore(e, o, k, writes[e][o][k].diary)
    BY <2>1 DEF ListingsHaveID
  <2> QED BY <1>1, <2>1, <2>2, <2>3 DEF IdBefore
<1>4. OpenDiaryHasID'
  <2> SUFFICES ASSUME NEW e \in Devices, openDiary'[e] # NoDiary
               PROVE  /\ auth[e] \in Users
                      /\ IdBefore(e, auth[e], Len(writes[e][auth[e]]) + 1, openDiary[e])'
    BY <1>1 DEF OpenDiaryHasID
  <2>1. e # dev /\ openDiary'[e] = openDiary[e]
    BY DEF Restart, IInv, TypeOK
  <2>2. auth[e] \in Users /\ auth[e] \in Owners
    BY <2>1 DEF OpenDiaryHasID, Owners
  <2>3. writes'[e][auth[e]] = writes[e][auth[e]]
    BY <2>1, <2>2, RestartCuts
  <2>4. IdBefore(e, auth[e], Len(writes[e][auth[e]]) + 1, openDiary[e])
    BY <2>1 DEF OpenDiaryHasID
  <2> QED BY <1>1, <2>1, <2>2, <2>3, <2>4 DEF IdBefore
<1> QED BY <1>2, <1>3, <1>4

(* An action that leaves the lists, the ids and the queues alone.          *)
LEMMA ListsWithIDUntouched ==
  ASSUME IInv, ListedHasDiaryID, ListingsHaveID, OpenDiaryHasID, logOuts = 0,
         UNCHANGED <<server, writes, auth, openDiary>>
  PROVE  ListedHasDiaryID' /\ ListingsHaveID' /\ OpenDiaryHasID'
  BY DEF ListedHasDiaryID, ListingsHaveID, OpenDiaryHasID, IdBefore, Accepted, server

(* An action that issues a batch.                                          *)
LEMMA IssueListsWithID ==
  ASSUME IInv, ListedHasDiaryID, ListingsHaveID, OpenDiaryHasID, logOuts = 0,
         NEW dev \in Devices, NEW batch \in Seq(Writes), Issue(dev, batch),
         ListsWithID(dev, batch), UNCHANGED <<server, auth, openDiary>>
  PROVE  ListedHasDiaryID' /\ ListingsHaveID' /\ OpenDiaryHasID'
<1>1. Appended(dev, batch)
  BY IssueAppends DEF IInv
<1>2. ListedHasDiaryID' /\ UNCHANGED hasDiaryID
  BY DEF ListedHasDiaryID, server
<1> QED BY <1>1, <1>2, BatchKeepsIDs

(* Every other action, unless it is a log-out.                             *)
LEMMA StepListsWithID ==
  ASSUME IInv, HandlersOffIntro, ListedHasDiaryID, ListingsHaveID, OpenDiaryHasID,
         logOuts = 0, logOuts' = 0, NEW dev \in Devices,
         Library(dev) \/ Handlers(dev) \/ Person(dev) \/ Kill(dev) \/ Restart(dev)
  PROVE  ListedHasDiaryID' /\ ListingsHaveID' /\ OpenDiaryHasID'
<1> DEFINE Goal == ListedHasDiaryID' /\ ListingsHaveID' /\ OpenDiaryHasID'
<1>1. CASE UNCHANGED <<server, writes, auth, openDiary>>
  BY <1>1, ListsWithIDUntouched
<1>2. ASSUME NEW o \in Owners, Persist(dev, o) PROVE Goal
  BY <1>1, <1>2 DEF Persist, ui
<1>3. ASSUME NEW u \in Users, AnswerCheck(dev, u) \/ TapAddUser(dev, u) PROVE Goal
  BY <1>1, <1>3 DEF AnswerCheck, TapAddUser, ui, disk
<1>4. CASE Swipe(dev) \/ CloseDiary(dev) \/ Kill(dev)
  BY <1>1, <1>4 DEF Swipe, CloseDiary, Kill, ui, disk
<1>5. ~LogOut(dev)
  BY DEF LogOut
<1>6. ASSUME NEW u \in Users, SignIn(dev, u) PROVE Goal
  <2>1. UNCHANGED <<server, writes, openDiary, logOuts>> /\ auth' = [auth EXCEPT ![dev] = u]
    BY <1>6 DEF SignIn, ui, disk, bounds
  <2>2. openDiary[dev] = NoDiary
    BY <1>6, NoUserAssumption DEF SignIn, OpenDiaryHasID
  <2>3. ListedHasDiaryID' /\ ListingsHaveID'
    BY <2>1 DEF ListedHasDiaryID, ListingsHaveID, IdBefore, Accepted, server
  <2>4. OpenDiaryHasID'
    <3>1. \A e \in Devices : openDiary[e] # NoDiary => auth'[e] = auth[e]
      BY <2>1, <2>2 DEF IInv, TypeOK
    <3> QED BY <2>1, <3>1 DEF OpenDiaryHasID, IdBefore, server
  <2> QED BY <2>3, <2>4
<1>7. ASSUME NEW d \in Diaries, OpenDiary(dev, d) PROVE Goal
  <2>1. /\ UNCHANGED <<server, writes, auth, logOuts>>
        /\ openDiary' = [openDiary EXCEPT ![dev] = d]
        /\ d \in LocalDiaryList(dev, currentUID[dev])
    BY <1>7 DEF OpenDiary, disk, bounds
  <2>2. currentUID[dev] = auth[dev] /\ auth[dev] \in Users
    BY <1>7 DEF OpenDiary, IInv, SessionMatches
  <2> DEFINE o == auth[dev]
  <2>3. o \in Owners /\ Accepted(o) /\ writes[dev][o] \in Seq(Writes)
    BY <2>2 DEF Owners, Accepted, IInv, TypeOK
  <2>4. IdBefore(dev, o, Len(writes[dev][o]) + 1, d)
    <3>1. CASE d \in userDiaryList[o]
      BY <2>2, <3>1 DEF ListedHasDiaryID, IdBefore
    <3>2. ASSUME NEW k \in DOMAIN Queue(dev), Pending(dev, k, ListDiary(o, d))
          PROVE  IdBefore(dev, o, Len(writes[dev][o]) + 1, d)
      <4>1. /\ k \in 1..Len(writes[dev][o]) /\ Len(writes[dev][o]) \in Nat
            /\ writes[dev][o][k].op = "listDiary" /\ writes[dev][o][k].diary = d
        BY <2>3, <3>2, LenProperties DEF Queue, Pending, ListDiary
      <4>2. IdBefore(dev, o, k, d)
        BY <2>3, <4>1 DEF ListingsHaveID
      <4>3. k \in Nat /\ Len(writes[dev][o]) + 1 \in Nat /\ k <= Len(writes[dev][o]) + 1
        BY <4>1
      <4> HIDE DEF o
      <4> QED BY <4>2, <4>3, IdBeforeLater
    <3> QED BY <2>1, <2>2, <3>1, <3>2 DEF LocalDiaryList
  <2>5. ListedHasDiaryID' /\ ListingsHaveID'
    BY <2>1 DEF ListedHasDiaryID, ListingsHaveID, IdBefore, Accepted, server
  <2>6. OpenDiaryHasID'
    <3> SUFFICES ASSUME NEW e \in Devices, openDiary'[e] # NoDiary
                 PROVE  /\ auth[e] \in Users
                        /\ IdBefore(e, auth[e], Len(writes[e][auth[e]]) + 1, openDiary[e])'
      BY <2>1 DEF OpenDiaryHasID
    <3>1. openDiary'[e] = IF e = dev THEN d ELSE openDiary[e]
      BY <2>1 DEF IInv, TypeOK
    <3>2. /\ auth[e] \in Users
          /\ IdBefore(e, auth[e], Len(writes[e][auth[e]]) + 1, openDiary'[e])
      BY <2>2, <2>4, <3>1 DEF OpenDiaryHasID
    <3> QED BY <2>1, <3>2 DEF IdBefore, server
  <2> QED BY <2>5, <2>6
<1>8. ASSUME NEW u \in Users, FinishCheck(dev, u) PROVE Goal
  <2>1. UNCHANGED <<server, auth, openDiary>>
    BY <1>8 DEF FinishCheck, ui
  <2>2. CASE UNCHANGED writes
    BY <1>1, <2>1, <2>2
  <2>3. CASE Issue(dev, <<CreateUser(u)>>)
    <3>1. <<CreateUser(u)>> \in Seq(Writes) /\ ListsWithID(dev, <<CreateUser(u)>>)
      BY WritesTyped DEF ListsWithID, CreateUser
    <3> QED BY <2>1, <2>3, <3>1, IssueListsWithID
  <2> QED BY <1>8, <2>2, <2>3 DEF FinishCheck
<1>9. ASSUME NEW d \in Diaries, AddDiary(dev, d) PROVE Goal
  <2> DEFINE w == CreateDiary(d, currentUID[dev])
  <2>1. UNCHANGED <<server, auth, openDiary>> /\ Issue(dev, <<w>>)
    BY <1>9 DEF AddDiary, ui
  <2>2. currentUID[dev] \in Users
    BY <1>9 DEF AddDiary, IInv, SessionMatches
  <2>3. <<w>> \in Seq(Writes) /\ ListsWithID(dev, <<w>>)
    BY <2>2, WritesTyped DEF ListsWithID, CreateDiary
  <2> QED BY <2>1, <2>3, IssueListsWithID
<1>10. ASSUME NEW d \in Diaries, CompleteAddDiary(dev, d) PROVE Goal
  <2>1. UNCHANGED <<server, auth, openDiary>>
    BY <1>10 DEF CompleteAddDiary
  <2>2. screen[dev] # "intro"
    BY <1>10 DEF HandlersOffIntro, CompleteAddDiary
  <2>3. currentUID[dev] \in Users /\ currentUID[dev] # NoUser
    BY <2>2, NoUserAssumption DEF IInv, SessionMatches
  <2>4. Issue(dev, CreatorWrites(dev, d))
    BY <1>10, <2>3 DEF CompleteAddDiary
  <2>5. CreatorWrites(dev, d) \in Seq(Writes) /\ ListsWithID(dev, CreatorWrites(dev, d))
    BY <2>3, WritesTyped DEF ListsWithID, CreatorWrites, SetDiaryID, ListDiary
  <2> QED BY <2>1, <2>4, <2>5, IssueListsWithID
<1>11. ASSUME NEW friend \in invites[dev], AnswerInvite(dev, friend) PROVE Goal
  <2>1. UNCHANGED <<server, auth, openDiary>>
    BY <1>11 DEF AnswerInvite, ui
  <2>2. CASE UNCHANGED writes
    BY <1>1, <2>1, <2>2
  <2>3. CASE AddUser(dev, friend)
    <3> DEFINE batch == <<AddMember(openDiary[dev], friend),
                          ListDiary(friend, openDiary[dev])>>
    <3>1. /\ friend \in Users
          /\ openDiary[dev] \in Diaries /\ openDiary[dev] # NoDiary
      BY <1>11 DEF IInv, TypeOK, OpenDiaryExists
    <3>2. IdBefore(dev, auth[dev], Len(writes[dev][auth[dev]]) + 1, openDiary[dev])
      BY <3>1 DEF OpenDiaryHasID
    <3>3. batch \in Seq(Writes)
      BY <3>1, WritesTyped
    <3>4. ListsWithID(dev, batch)
      BY <3>2 DEF ListsWithID, AddMember, ListDiary
    <3>5. Issue(dev, batch)
      BY <2>3 DEF AddUser
    <3> HIDE DEF batch
    <3> QED BY <2>1, <3>3, <3>4, <3>5, IssueListsWithID
  <2> QED BY <1>11, <2>2, <2>3 DEF AnswerInvite
<1>12. CASE Commit(dev)
  BY <1>12, CommitListsWithID
<1>13. CASE Restart(dev)
  BY <1>13, RestartListsWithID
<1>14. CASE Library(dev)
  BY <1>2, <1>12, <1>14 DEF Library
<1>15. CASE Handlers(dev)
  BY <1>3, <1>8, <1>10, <1>11, <1>15 DEF Handlers
<1>16. CASE Person(dev)
  BY <1>3, <1>4, <1>5, <1>6, <1>7, <1>9, <1>16 DEF Person
<1> QED BY <1>4, <1>13, <1>14, <1>15, <1>16

(* Before the first log-out no handler of addDiary finds the intro screen. *)
LEMMA StepHandlersOffIntro ==
  ASSUME IInv, HandlersOffIntro, logOuts = 0, logOuts' = 0, NEW dev \in Devices,
         Library(dev) \/ Handlers(dev) \/ Person(dev) \/ Kill(dev) \/ Restart(dev)
  PROVE  HandlersOffIntro'
<1>1. /\ proc \in [Devices -> {"running", "killed", "crashed"}]
      /\ screen \in [Devices -> {"intro", "main", "diary"}]
      /\ completion \in [Devices -> [Diaries -> {"none", "awaiting", "ready"}]]
  BY DEF IInv, TypeOK
<1>2. CASE UNCHANGED <<proc, screen, completion>>
  BY <1>2 DEF HandlersOffIntro
<1>3. CASE \E o \in Owners : Persist(dev, o)
  BY <1>2, <1>3 DEF Persist, ui, calls
<1>4. CASE Commit(dev)
  <2>1. \A e \in Devices, d \in Diaries :
           completion'[e][d] # "none" => completion[e][d] # "none"
    BY <1>1, <1>4 DEF Commit
  <2> QED BY <1>4, <2>1 DEF HandlersOffIntro, Commit, ui
<1>5. ASSUME NEW u \in Users,
             AnswerCheck(dev, u) \/ FinishCheck(dev, u) \/ SignIn(dev, u) \/ TapAddUser(dev, u)
      PROVE  HandlersOffIntro'
  BY <1>2, <1>5 DEF AnswerCheck, FinishCheck, SignIn, TapAddUser, ui
<1>6. ASSUME NEW d \in Diaries, CompleteAddDiary(dev, d)
      PROVE  HandlersOffIntro'
  <2>1. screen[dev] # "intro"
    BY <1>6 DEF CompleteAddDiary, HandlersOffIntro
  <2>2. currentUID[dev] # NoUser
    BY <2>1, NoUserAssumption DEF IInv, SessionMatches
  <2>3. UNCHANGED <<proc, screen>> /\ completion' = [completion EXCEPT ![dev][d] = "none"]
    BY <1>6, <2>2 DEF CompleteAddDiary
  <2> QED BY <1>1, <2>3 DEF HandlersOffIntro
<1>7. ASSUME NEW friend \in invites[dev], AnswerInvite(dev, friend)
      PROVE  HandlersOffIntro'
  BY <1>2, <1>7 DEF AnswerInvite, ui
<1>8. ASSUME NEW d \in Diaries, AddDiary(dev, d) \/ OpenDiary(dev, d)
      PROVE  HandlersOffIntro'
  <2>1. CASE AddDiary(dev, d)
    BY <1>1, <2>1 DEF AddDiary, HandlersOffIntro, ui
  <2>2. CASE OpenDiary(dev, d)
    BY <1>1, <2>2 DEF OpenDiary, HandlersOffIntro, calls
  <2> QED BY <1>8, <2>1, <2>2
<1>9. CASE Swipe(dev) \/ CloseDiary(dev)
  BY <1>1, <1>9 DEF Swipe, CloseDiary, HandlersOffIntro, calls
<1>10. ~LogOut(dev)
  BY DEF LogOut
<1>11. CASE Kill(dev)
  BY <1>1, <1>11 DEF Kill, HandlersOffIntro, calls
<1>12. CASE Restart(dev)
  BY <1>1, <1>12 DEF Restart, HandlersLost, HandlersOffIntro
<1> QED BY <1>3, <1>4, <1>5, <1>6, <1>7, <1>8, <1>9, <1>10, <1>11, <1>12
        DEF Library, Handlers, Person

LEMMA NextNoLogOutInv ==
  ASSUME IInv, NoLogOutInv, [Next]_vars
  PROVE  NoLogOutInv'
<1>1. CASE UNCHANGED vars
  BY <1>1 DEF vars, server, disk, ui, calls, bounds, NoLogOutInv, HandlersOffIntro,
              ListedHasDiaryID, ListingsHaveID, OpenDiaryHasID, IdBefore, Accepted
<1>2. ASSUME NEW dev \in Devices,
             Library(dev) \/ Handlers(dev) \/ Person(dev) \/ Kill(dev) \/ Restart(dev),
             logOuts' = 0
      PROVE  HandlersOffIntro' /\ ListedHasDiaryID' /\ ListingsHaveID' /\ OpenDiaryHasID'
  <2>1. logOuts = 0
    <3>1. logOuts \in Nat
      BY DEF IInv, TypeOK
    <3>2. logOuts' = logOuts \/ logOuts' = logOuts + 1
      BY <1>2 DEF Library, Handlers, Person, Persist, Commit, AnswerCheck, FinishCheck,
                  CompleteAddDiary, AnswerInvite, SignIn, TapAddUser, Swipe, LogOut,
                  CloseDiary, AddDiary, OpenDiary, Kill, Restart, bounds
    <3> QED BY <1>2, <3>1, <3>2
  <2>2. HandlersOffIntro /\ ListedHasDiaryID /\ ListingsHaveID /\ OpenDiaryHasID
    BY <2>1 DEF NoLogOutInv
  <2> QED BY <1>2, <2>1, <2>2, StepHandlersOffIntro, StepListsWithID
<1> QED BY <1>1, <1>2 DEF Next, NoLogOutInv

LEMMA InitNoLogOutInv == Init => NoLogOutInv
<1> SUFFICES ASSUME Init PROVE NoLogOutInv
  OBVIOUS
<1>1. \A dev \in Devices, o \in Owners : 1..Len(writes[dev][o]) = {}
  BY DEF Init
<1> QED BY <1>1 DEF Init, NoLogOutInv, HandlersOffIntro, ListedHasDiaryID, ListingsHaveID,
                    OpenDiaryHasID

THEOREM SpecImpliesNoLogOutInv == Spec => []NoLogOutInv
<1> QED BY InitNoLogOutInv, NextNoLogOutInv, SpecImpliesIInv, PTL DEF Spec

(* No handler raises before somebody has logged out: whatever the order of *)
(* acknowledgements, closures, kills and launches, the completion handler  *)
(* of addDiary finds a user in currentUID.                                 *)
THEOREM SpecImpliesNeverCrashes == Spec => []NeverCrashes
<1>1. IInv /\ NoLogOutInv => NeverCrashes
  <2> SUFFICES ASSUME IInv, NoLogOutInv, NEW dev \in Devices, proc[dev] = "crashed"
               PROVE  logOuts > 0
    BY DEF NeverCrashes
  <2>1. logOuts \in Nat
    BY DEF IInv, TypeOK
  <2>2. logOuts # 0
    BY DEF NoLogOutInv, HandlersOffIntro
  <2> QED BY <2>1, <2>2
<1> QED BY <1>1, SpecImpliesIInv, SpecImpliesNoLogOutInv, PTL

(* A diary in a list has its diaryID field, for any phones, kills and      *)
(* invites, while nobody logs out: the id is sent before a listing.        *)
THEOREM SpecImpliesListedHasDiaryID == Spec => []ListedHasDiaryID
<1>1. NoLogOutInv => ListedHasDiaryID
  BY DEF NoLogOutInv, ListedHasDiaryID
<1> QED BY <1>1, SpecImpliesNoLogOutInv, PTL

-------------------------------------------------------------------------------
(***************************************************************************)
(* The list of a user whose document exists, when reads reach the server.  *)
(***************************************************************************)
LEMMA BatchKeepsFound ==
  ASSUME IInv, FoundUsersKept, NEW dev \in Devices, NEW batch \in Seq(Writes),
         Appended(dev, batch), UNCHANGED <<userDocs, check>>,
         \A i \in 1..Len(batch) : batch[i].op = "createUser" => batch[i].user \notin InitialUsers
  PROVE  FoundUsersKept'
<1>0. \A e \in Devices, o \in Owners : \A k \in 1..Len(writes'[e][o]) :
         \/ k \in 1..Len(writes[e][o]) /\ writes'[e][o][k] = writes[e][o][k]
         \/ \E i \in 1..Len(batch) : k = Len(writes[e][o]) + i /\ writes'[e][o][k] = batch[i]
  <2> SUFFICES ASSUME NEW e \in Devices, NEW o \in Owners, NEW k \in 1..Len(writes'[e][o])
               PROVE  \/ k \in 1..Len(writes[e][o]) /\ writes'[e][o][k] = writes[e][o][k]
                      \/ \E i \in 1..Len(batch) : /\ k = Len(writes[e][o]) + i
                                                  /\ writes'[e][o][k] = batch[i]
    OBVIOUS
  <2> QED BY DEF Appended
<1> SUFFICES ASSUME NEW u \in InitialUsers, NEW e \in Devices, NEW o \in Owners,
                    NEW k \in 1..Len(writes'[e][o]), writes'[e][o][k].op = "createUser"
             PROVE  writes'[e][o][k].user # u
  BY DEF FoundUsersKept
<1>1. CASE k \in 1..Len(writes[e][o])
  BY <1>0, <1>1 DEF FoundUsersKept
<1>2. CASE k \notin 1..Len(writes[e][o])
  <2>1. \E i \in 1..Len(batch) : k = Len(writes[e][o]) + i /\ writes'[e][o][k] = batch[i]
    BY <1>0, <1>2
  <2>2. PICK i \in 1..Len(batch) : writes'[e][o][k] = batch[i]
    BY <2>1
  <2> QED BY <2>2
<1> QED BY <1>1, <1>2

LEMMA StepKeepsFound ==
  ASSUME ~Offline, IInv, FoundUsersKept, NEW dev \in Devices,
         Library(dev) \/ Handlers(dev) \/ Person(dev) \/ Kill(dev) \/ Restart(dev)
  PROVE  FoundUsersKept'
<1>1. CASE UNCHANGED <<userDocs, check, writes>>
  BY <1>1 DEF FoundUsersKept
<1>2. ASSUME UNCHANGED <<userDocs, writes>>,
             \A e \in Devices, u \in InitialUsers : check'[e][u] # "absent"
      PROVE  FoundUsersKept'
  BY <1>2 DEF FoundUsersKept
<1>3. check \in [Devices -> [Users -> {"none", "asked", "exists", "absent"}]]
  BY DEF IInv, TypeOK
<1>4. \A u \in InitialUsers : u \in Users /\ u \in userDocs
  BY InitialUsersAssumption DEF FoundUsersKept
<1>5. \A e \in Devices, u \in InitialUsers : check[e][u] # "absent"
  BY DEF FoundUsersKept
<1>6. ASSUME NEW o \in Owners, Persist(dev, o) PROVE FoundUsersKept'
  BY <1>1, <1>6 DEF Persist, server, calls
<1>7. CASE Commit(dev)
  <2>1. UNCHANGED check
    BY <1>7 DEF Commit
  <2>2. userDocs \subseteq userDocs'
    BY <1>7 DEF Commit, OnServer, server, CreateUserOnServer, CreateDiaryOnServer,
                SetDiaryIDOnServer, AddMemberOnServer, ListDiaryOnServer
  <2>3. ASSUME NEW e \in Devices, NEW o \in Owners, NEW k \in 1..Len(writes'[e][o])
        PROVE  \E n \in 1..Len(writes[e][o]) : writes'[e][o][k] = writes[e][o][n]
    <3>1. CASE e = dev /\ o = auth[dev]
      <4>1. k + 1 \in 1..Len(writes[e][o]) /\ writes'[e][o][k] = writes[e][o][k + 1]
        <5>1. /\ Len(writes'[e][o]) = Len(writes[e][o]) - 1
              /\ Len(writes[e][o]) \in Nat
              /\ writes'[e][o][k] = writes[e][o][k + 1]
          BY <1>7, <3>1, HeadLeaves
        <5> QED BY <5>1
      <4> QED BY <4>1
    <3>2. CASE ~(e = dev /\ o = auth[dev])
      BY <1>7, <3>2, HeadLeaves
    <3> QED BY <3>1, <3>2
  <2> QED BY <2>1, <2>2, <2>3 DEF FoundUsersKept
<1>8. ASSUME NEW u \in Users, AnswerCheck(dev, u) PROVE FoundUsersKept'
  <2>1. UNCHANGED <<userDocs, writes>>
        /\ check' = [check EXCEPT ![dev][u] = IF u \in userDocs THEN "exists" ELSE "absent"]
    BY <1>8 DEF AnswerCheck, server, disk
  <2>2. \A e \in Devices, v \in InitialUsers : check'[e][v] # "absent"
    BY <1>3, <1>4, <1>5, <2>1
  <2> QED BY <1>2, <2>1, <2>2
<1>9. ASSUME NEW u \in Users, FinishCheck(dev, u) PROVE FoundUsersKept'
  <2>1. UNCHANGED <<userDocs, minted>> /\ check' = [check EXCEPT ![dev][u] = "none"]
    BY <1>9 DEF FinishCheck, server
  <2>2. \A e \in Devices, v \in InitialUsers : check'[e][v] # "absent"
    BY <1>3, <1>4, <1>5, <2>1
  <2>3. CASE UNCHANGED writes
    BY <1>2, <2>1, <2>2, <2>3
  <2>4. CASE Issue(dev, <<CreateUser(u)>>) /\ ~UserFound(dev, u)
    <3>1. u \notin InitialUsers
      <4>1. check[dev][u] \notin {"none", "asked", "exists"}
        BY <1>9, <2>4 DEF FinishCheck, UserFound
      <4> QED BY <1>3, <1>4, <1>5, <4>1
    <3>2. <<CreateUser(u)>> \in Seq(Writes)
      BY WritesTyped
    <3>3. Appended(dev, <<CreateUser(u)>>)
      BY <2>4, <3>2, IssueAppends DEF IInv
    <3>4. ASSUME NEW e \in Devices, NEW o \in Owners, NEW v \in InitialUsers,
                 NEW k \in 1..Len(writes'[e][o]), writes'[e][o][k].op = "createUser"
          PROVE  writes'[e][o][k].user # v
      <4>1. CASE k \in 1..Len(writes[e][o])
        BY <3>3, <3>4, <4>1 DEF FoundUsersKept, Appended
      <4>2. CASE k \notin 1..Len(writes[e][o])
        <5>1. writes'[e][o][k] = CreateUser(u)
          BY <3>3, <4>2 DEF Appended
        <5> QED BY <3>1, <5>1 DEF CreateUser
      <4> QED BY <4>1, <4>2
    <3> QED BY <1>4, <2>1, <2>2, <3>4 DEF FoundUsersKept
  <2> QED BY <1>9, <2>3, <2>4 DEF FinishCheck
<1>10. ASSUME NEW d \in Diaries, CompleteAddDiary(dev, d) PROVE FoundUsersKept'
  <2>1. UNCHANGED <<userDocs, check>>
    BY <1>10 DEF CompleteAddDiary, server
  <2>2. ASSUME NEW batch \in Seq(Writes), Issue(dev, batch),
               \A i \in 1..Len(batch) : batch[i].op # "createUser"
        PROVE  FoundUsersKept'
    BY <2>1, <2>2, IssueAppends, BatchKeepsFound DEF IInv
  <2>3. CASE currentUID[dev] # NoUser /\ Issue(dev, CreatorWrites(dev, d))
    <3>1. currentUID[dev] \in Users
      BY <2>3 DEF IInv, TypeOK, Owners
    <3>2. CreatorWrites(dev, d) \in Seq(Writes)
      BY <3>1, WritesTyped DEF CreatorWrites
    <3>3. \A i \in 1..Len(CreatorWrites(dev, d)) : CreatorWrites(dev, d)[i].op # "createUser"
      BY DEF CreatorWrites, SetDiaryID, ListDiary
    <3> QED BY <2>2, <2>3, <3>2, <3>3
  <2>4. CASE Issue(dev, <<SetDiaryID(d)>>)
    <3>1. <<SetDiaryID(d)>> \in Seq(Writes)
      BY WritesTyped
    <3>2. \A i \in 1..Len(<<SetDiaryID(d)>>) : <<SetDiaryID(d)>>[i].op # "createUser"
      BY DEF SetDiaryID
    <3> QED BY <2>2, <2>4, <3>1, <3>2
  <2> QED BY <1>10, <2>3, <2>4 DEF CompleteAddDiary
<1>11. ASSUME NEW friend \in invites[dev], AnswerInvite(dev, friend) PROVE FoundUsersKept'
  <2>1. UNCHANGED <<userDocs, check>>
    BY <1>11 DEF AnswerInvite, server
  <2>2. CASE UNCHANGED writes
    BY <1>1, <2>1, <2>2
  <2>3. CASE AddUser(dev, friend)
    <3> DEFINE batch == <<AddMember(openDiary[dev], friend),
                          ListDiary(friend, openDiary[dev])>>
    <3>1. friend \in Users /\ openDiary[dev] \in Diaries
      BY <1>11 DEF IInv, TypeOK, OpenDiaryExists
    <3>2. batch \in Seq(Writes)
      BY <3>1, WritesTyped
    <3>3. \A i \in 1..Len(batch) : batch[i].op # "createUser"
      BY DEF AddMember, ListDiary
    <3>4. Issue(dev, batch)
      BY <2>3 DEF AddUser
    <3> HIDE DEF batch
    <3> QED BY <2>1, <3>2, <3>3, <3>4, IssueAppends, BatchKeepsFound DEF IInv
  <2> QED BY <1>11, <2>2, <2>3 DEF AnswerInvite
<1>12. ASSUME NEW u \in Users, SignIn(dev, u) PROVE FoundUsersKept'
  <2>1. UNCHANGED <<userDocs, writes>> /\ ReadsAskedAgain(dev)
    BY <1>12 DEF SignIn, server, disk
  <2>2. \A e \in Devices, v \in InitialUsers : check'[e][v] # "absent"
    BY <1>3, <1>4, <1>5, <2>1 DEF ReadsAskedAgain
  <2> QED BY <1>2, <2>1, <2>2
<1>13. CASE LogOut(dev)
  <2>1. UNCHANGED <<userDocs, writes>> /\ (ReadsAskedAgain(dev) \/ UNCHANGED check)
    BY <1>13 DEF LogOut, server, disk
  <2>2. \A e \in Devices, v \in InitialUsers : check'[e][v] # "absent"
    <3>1. CASE ReadsAskedAgain(dev)
      BY <1>3, <1>4, <1>5, <3>1 DEF ReadsAskedAgain
    <3> QED BY <1>5, <2>1, <3>1
  <2> QED BY <1>2, <2>1, <2>2
<1>14. CASE Swipe(dev)
  <2>1. /\ UNCHANGED <<userDocs, writes>> /\ auth[dev] \in Users
        /\ check' = [check EXCEPT ![dev][auth[dev]] = "asked"]
    BY <1>14 DEF Swipe, server, disk
  <2>2. \A e \in Devices, v \in InitialUsers : check'[e][v] # "absent"
    BY <1>3, <1>4, <1>5, <2>1
  <2> QED BY <1>2, <2>1, <2>2
<1>15. ASSUME NEW u \in Users, TapAddUser(dev, u) PROVE FoundUsersKept'
  BY <1>1, <1>15 DEF TapAddUser, server, disk
<1>16. CASE CloseDiary(dev) \/ Kill(dev)
  BY <1>1, <1>16 DEF CloseDiary, Kill, server, disk, calls
<1>17. ASSUME NEW d \in Diaries, OpenDiary(dev, d) PROVE FoundUsersKept'
  BY <1>1, <1>17 DEF OpenDiary, server, disk, calls
<1>18. ASSUME NEW d \in Diaries, AddDiary(dev, d) PROVE FoundUsersKept'
  <2> DEFINE w == CreateDiary(d, currentUID[dev])
  <2>1. UNCHANGED <<userDocs, check>> /\ Issue(dev, <<w>>)
    BY <1>18 DEF AddDiary, server
  <2>2. currentUID[dev] \in Users
    BY <1>18 DEF AddDiary, IInv, SessionMatches
  <2>3. <<w>> \in Seq(Writes)
    BY <2>2, WritesTyped
  <2>4. \A i \in 1..Len(<<w>>) : <<w>>[i].op # "createUser"
    BY DEF CreateDiary
  <2> HIDE DEF w
  <2> QED BY <2>1, <2>3, <2>4, IssueAppends, BatchKeepsFound DEF IInv
<1>19. CASE Restart(dev)
  <2>1. UNCHANGED userDocs /\ check' = [check EXCEPT ![dev] = [u \in Users |-> "none"]]
    BY <1>19 DEF Restart, server
  <2>2. \A e \in Devices, v \in InitialUsers : check'[e][v] # "absent"
    BY <1>3, <1>4, <1>5, <2>1
  <2>3. \A e \in Devices, o \in Owners : \A k \in 1..Len(writes'[e][o]) :
           k \in 1..Len(writes[e][o]) /\ writes'[e][o][k] = writes[e][o][k]
    BY <1>19, RestartCuts
  <2> QED BY <2>1, <2>2, <2>3 DEF FoundUsersKept
<1> QED BY <1>6, <1>7, <1>8, <1>9, <1>10, <1>11, <1>12, <1>13, <1>14, <1>15, <1>16, <1>17,
           <1>18, <1>19 DEF Library, Handlers, Person

LEMMA FoundUsersAreKept ==
  ASSUME ~Offline
  PROVE  Spec => []FoundUsersKept
<1>1. Init => FoundUsersKept
  <2> SUFFICES ASSUME Init PROVE FoundUsersKept
    OBVIOUS
  <2>1. \A dev \in Devices, o \in Owners : 1..Len(writes[dev][o]) = {}
    BY DEF Init
  <2> QED BY <2>1, InitialUsersAssumption DEF Init, FoundUsersKept
<1>2. IInv /\ FoundUsersKept /\ [Next]_vars => FoundUsersKept'
  <2>1. ASSUME FoundUsersKept, UNCHANGED vars PROVE FoundUsersKept'
    BY <2>1 DEF vars, server, disk, calls, FoundUsersKept
  <2> QED BY <2>1, StepKeepsFound DEF Next
<1> QED BY <1>1, <1>2, SpecImpliesIInv, PTL DEF Spec

(* A commit takes a diary from a list only by a set of the user document.  *)
LEMMA OnlySetsEmptyLists ==
  ASSUME IInv, FoundUsersKept, [Next]_vars, NEW u \in InitialUsers
  PROVE  userDiaryList[u] \subseteq userDiaryList'[u]
<1>1. u \in Users /\ userDiaryList \in [Users -> SUBSET Diaries]
  BY InitialUsersAssumption DEF IInv, TypeOK
<1>2. ASSUME NEW dev \in Devices, Commit(dev)
      PROVE  userDiaryList[u] \subseteq userDiaryList'[u]
  <2> DEFINE w == Head(Queue(dev))
  <2>1. /\ auth[dev] \in Owners /\ w \in Writes /\ w = writes[dev][auth[dev]][1]
        /\ 1 \in 1..Len(writes[dev][auth[dev]])
    BY <1>2, HeadLeaves
  <2>2. w.op = "createUser" => w.user # u
    BY <2>1 DEF FoundUsersKept
  <2>3. OnServer(w) \/ UNCHANGED server
    BY <1>2 DEF Commit
  <2> HIDE DEF w
  <2>4. w.op \in {"createUser", "listDiary"} => w.user \in Users
    BY <2>1 DEF Writes
  <2> QED BY <1>1, <2>2, <2>3, <2>4
          DEF OnServer, server, CreateUserOnServer, CreateDiaryOnServer,
              SetDiaryIDOnServer, AddMemberOnServer, ListDiaryOnServer
<1>3. (\E dev \in Devices : Commit(dev)) \/ UNCHANGED server
  BY DEF Next, Library, Handlers, Person, Persist, AnswerCheck, FinishCheck,
         CompleteAddDiary, AnswerInvite, SignIn, TapAddUser, Swipe, LogOut, CloseDiary,
         AddDiary, OpenDiary, Kill, Restart, vars
<1> QED BY <1>2, <1>3 DEF server

(* When reads reach the server, no order of writes, kills or log-outs      *)
(* empties the list of a user whose document existed at the start.         *)
THEOREM FoundListsNeverShrink ==
  ASSUME ~Offline
  PROVE  Spec => [][\A u \in InitialUsers : userDiaryList[u] \subseteq userDiaryList'[u]]_vars
<1>1. IInv /\ FoundUsersKept /\ [Next]_vars
        => [\A u \in InitialUsers : userDiaryList[u] \subseteq userDiaryList'[u]]_vars
  BY OnlySetsEmptyLists
<1> QED BY <1>1, FoundUsersAreKept, SpecImpliesIInv, PTL DEF Spec

(* So when every user has a document no list ever shrinks: only the        *)
(* first-login check, and a read that misses the server, can empty one.    *)
THEOREM SpecImpliesListsNeverShrink ==
  ASSUME ~Offline, InitialUsers = Users
  PROVE  Spec => ListsNeverShrink
<1>1. (\A u \in InitialUsers : userDiaryList[u] \subseteq userDiaryList'[u])
        => (\A u \in Users : userDiaryList[u] \subseteq userDiaryList'[u])
  OBVIOUS
<1> QED BY <1>1, FoundListsNeverShrink, PTL DEF ListsNeverShrink
===============================================================================
