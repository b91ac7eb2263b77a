-------------------------- MODULE DiaryListing_proofs --------------------------
(***************************************************************************)
(* Nobody is forgotten: while no process is killed and nobody logs out, a  *)
(* member whose list lacks the diary has it coming, in the queue of the    *)
(* account signed in on some phone or from a handler that has yet to run.  *)
(* It is what makes MembersSeeDiary more than a hope: fairness empties the *)
(* queues, and the theorems here say that the two halves of a membership   *)
(* agree once they are empty.                                              *)
(***************************************************************************)
EXTENDS DiarySharing_proofs

Uninterrupted == kills = 0 /\ logOuts = 0

NoneStopped == \A dev \in Devices : proc[dev] # "killed"

\* The handler of a creation under way will run, for the account it is for.
CreationsAwaited ==
    \A dev \in Devices, o \in Owners : \A k \in 1..Len(writes[dev][o]) :
        writes[dev][o][k].op = "createDiary" =>
            o = auth[dev] /\ completion[dev][writes[dev][o][k].diary] = "awaiting"

\* A membership under way is followed by its listing in the same queue.
Followed(q, k) ==
    \E j \in (k + 1)..Len(q) : q[j] = ListDiary(q[k].user, q[k].diary)
MembershipsFollowed ==
    \A dev \in Devices, o \in Owners : \A k \in 1..Len(writes[dev][o]) :
        writes[dev][o][k].op = "addMember" =>
            o = auth[dev] /\ o \in Users /\ Followed(writes[dev][o], k)

\* A listing is in the queue that Commit empties, or will be put there by the
\* handler of addDiary.
ListingToCome(u, d) ==
    \E dev \in Devices :
        /\ auth[dev] \in Users
        /\ \/ \E k \in 1..Len(writes[dev][auth[dev]]) :
                 writes[dev][auth[dev]][k] = ListDiary(u, d)
           \/ completion[dev][d] # "none" /\ auth[dev] = u

NobodyForgotten ==
    \A u \in InitialUsers : \A d \in Diaries :
        u \in memberList[d] => d \in userDiaryList[u] \/ ListingToCome(u, d)

ListingInv == CreationsAwaited /\ MembershipsFollowed /\ NobodyForgotten
UninterruptedInv == Uninterrupted => NoneStopped /\ ListingInv

-------------------------------------------------------------------------------
(***************************************************************************)
(* A batch joins a queue.                                                  *)
(***************************************************************************)
(* What a handler does beside issuing the batch: it may start to wait, and *)
(* stops waiting for a diary only when the batch lists it.                 *)
KeepsPromises(dev, batch) ==
    /\ \A e \in Devices, d \in Diaries :
          /\ completion[e][d] = "awaiting" => completion'[e][d] = "awaiting"
          /\ completion[e][d] # "none" =>
                \/ completion'[e][d] # "none"
                \/ e = dev /\ \E i \in 1..Len(batch) : batch[i] = ListDiary(auth[dev], d)
    /\ \A i \in 1..Len(batch) :
          /\ batch[i].op = "createDiary" => completion'[dev][batch[i].diary] = "awaiting"
          /\ batch[i].op = "addMember" => auth[dev] \in Users /\ Followed(batch, i)

LEMMA BatchKeepsListing ==
  ASSUME IInv, ListingInv, NEW dev \in Devices, NEW batch \in Seq(Writes),
         Issue(dev, batch), KeepsPromises(dev, batch), UNCHANGED <<server, auth>>
  PROVE  ListingInv'
<1>1. Appended(dev, batch)
  BY IssueAppends DEF IInv
<1>2. /\ UNCHANGED <<userDiaryList, memberList, auth>>
      /\ auth[dev] \in Owners /\ Len(batch) \in Nat
      /\ \A e \in Devices, o \in Owners : Len(writes[e][o]) \in Nat
  BY LenProperties DEF server, IInv, TypeOK
<1>3. ASSUME NEW e \in Devices, NEW o \in Owners, NEW k \in 1..Len(writes'[e][o])
      PROVE  \/ k \in 1..Len(writes[e][o]) /\ writes'[e][o][k] = writes[e][o][k]
             \/ /\ e = dev /\ o = auth[dev]
                /\ \E i \in 1..Len(batch) : /\ k = Len(writes[e][o]) + i
                                            /\ writes'[e][o][k] = batch[i]
  BY <1>1 DEF Appended
<1>4. CreationsAwaited'
  <2> SUFFICES ASSUME NEW e \in Devices, NEW o \in Owners, NEW k \in 1..Len(writes'[e][o]),
                      writes'[e][o][k].op = "createDiary"
               PROVE  o = auth[e] /\ completion'[e][writes'[e][o][k].diary] = "awaiting"
    BY <1>2 DEF CreationsAwaited
  <2>1. CASE k \in 1..Len(writes[e][o]) /\ writes'[e][o][k] = writes[e][o][k]
    <3>1. writes[e][o] \in Seq(Writes)
      BY DEF IInv, TypeOK
    <3>2. writes[e][o][k] \in Writes
      BY <2>1, <3>1, ElementOfSeq
    <3>3. writes[e][o][k].diary \in Diaries
      BY <2>1, <3>2 DEF Writes
    <3> QED BY <2>1, <3>3 DEF ListingInv, CreationsAwaited, KeepsPromises
  <2>2. CASE e = dev /\ o = auth[dev] /\ \E i \in 1..Len(batch) : writes'[e][o][k] = batch[i]
    BY <2>2 DEF KeepsPromises
  <2> QED BY <1>3, <2>1, <2>2
<1>5. MembershipsFollowed'
  <2> SUFFICES ASSUME NEW e \in Devices, NEW o \in Owners, NEW k \in 1..Len(writes'[e][o]),
                      writes'[e][o][k].op = "addMember"
               PROVE  o = auth[e] /\ o \in Users /\ Followed(writes'[e][o], k)
    BY <1>2 DEF MembershipsFollowed
  <2>1. CASE k \in 1..Len(writes[e][o]) /\ writes'[e][o][k] = writes[e][o][k]
    <3>1. o = auth[e] /\ o \in Users /\ Followed(writes[e][o], k)
      BY <2>1 DEF ListingInv, MembershipsFollowed
    <3>2. PICK j \in (k + 1)..Len(writes[e][o]) : writes[e][o][j] =
                ListDiary(writes[e][o][k].user, writes[e][o][k].diary)
      BY <3>1 DEF Followed
    <3>3. j \in 1..Len(writes[e][o]) /\ Len(writes'[e][o]) >= Len(writes[e][o])
      BY <1>1, <1>2, <2>1 DEF Appended
    <3>4. Len(writes'[e][o]) \in Nat
      <4>1. writes'[e][o] \in Seq(Writes)
        BY <1>1 DEF Appended
      <4> QED BY <4>1, LenProperties
    <3>5. j \in (k + 1)..Len(writes'[e][o]) /\ writes'[e][o][j] = writes[e][o][j]
      BY <1>1, <1>2, <2>1, <3>3, <3>4 DEF Appended
    <3> QED BY <2>1, <3>1, <3>2, <3>5 DEF Followed
  <2>2. ASSUME e = dev, o = auth[dev],
               NEW i \in 1..Len(batch), k = Len(writes[e][o]) + i, writes'[e][o][k] = batch[i]
        PROVE  o = auth[e] /\ o \in Users /\ Followed(writes'[e][o], k)
    <3>1. auth[dev] \in Users /\ Followed(batch, i)
      BY <2>2 DEF KeepsPromises
    <3>2. PICK j \in (i + 1)..Len(batch) : batch[j] = ListDiary(batch[i].user, batch[i].diary)
      BY <3>1 DEF Followed
    <3>3. j \in 1..Len(batch)
      BY <1>2
    <3>4. /\ writes'[dev][auth[dev]][Len(writes[dev][auth[dev]]) + j] = batch[j]
          /\ Len(writes'[dev][auth[dev]]) = Len(writes[dev][auth[dev]]) + Len(batch)
      BY <1>1, <3>3 DEF Appended
    <3>5. Len(writes[e][o]) + j \in (k + 1)..Len(writes'[e][o])
      BY <1>2, <2>2, <3>4
    <3> QED BY <2>2, <3>1, <3>2, <3>4, <3>5 DEF Followed
  <2>3. CASE e = dev /\ o = auth[dev] /\ ~(k \in 1..Len(writes[e][o]) /\ writes'[e][o][k] = writes[e][o][k])
    <3>1. PICK i \in 1..Len(batch) : k = Len(writes[e][o]) + i /\ writes'[e][o][k] = batch[i]
      BY <1>3, <2>3
    <3> QED BY <2>2, <2>3, <3>1
  <2> QED BY <1>3, <2>1, <2>3
<1>6. NobodyForgotten'
  <2> SUFFICES ASSUME NEW u \in InitialUsers, NEW d \in Diaries, ListingToCome(u, d)
               PROVE  ListingToCome(u, d)'
    BY <1>2 DEF ListingInv, NobodyForgotten
  <2>1. PICK e \in Devices :
          /\ auth[e] \in Users
          /\ \/ \E k \in 1..Len(writes[e][auth[e]]) : writes[e][auth[e]][k] = ListDiary(u, d)
             \/ completion[e][d] # "none" /\ auth[e] = u
    BY DEF ListingToCome
  <2>2. auth[e] \in Owners
    BY <2>1 DEF Owners
  <2>3. ASSUME NEW k \in 1..Len(writes'[e][auth[e]]), writes'[e][auth[e]][k] = ListDiary(u, d)
        PROVE  ListingToCome(u, d)'
    BY <1>2, <2>1, <2>3 DEF ListingToCome, ListDiary
  <2>4. CASE \E k \in 1..Len(writes[e][auth[e]]) : writes[e][auth[e]][k] = ListDiary(u, d)
    <3>1. PICK k \in 1..Len(writes[e][auth[e]]) : writes[e][auth[e]][k] = ListDiary(u, d)
      BY <2>4
    <3>2. Len(writes'[e][auth[e]]) >= Len(writes[e][auth[e]])
          /\ writes'[e][auth[e]][k] = writes[e][auth[e]][k]
      BY <1>1, <2>2, <3>1 DEF Appended
    <3>3. writes'[e][auth[e]] \in Seq(Writes)
      BY <1>1, <2>2 DEF Appended
    <3>4. k \in 1..Len(writes'[e][auth[e]])
      BY <1>2, <2>2, <3>2, <3>3, LenProperties
    <3> QED BY <2>3, <3>1, <3>2, <3>4
  <2>5. CASE completion[e][d] # "none" /\ auth[e] = u
    <3>1. CASE completion'[e][d] # "none"
      BY <1>2, <2>1, <2>5, <3>1 DEF ListingToCome, ListDiary
    <3>2. ASSUME e = dev, NEW i \in 1..Len(batch), batch[i] = ListDiary(auth[dev], d)
          PROVE  ListingToCome(u, d)'
      <4>1. /\ writes'[dev][auth[dev]][Len(writes[dev][auth[dev]]) + i] = batch[i]
            /\ Len(writes'[dev][auth[dev]]) = Len(writes[dev][auth[dev]]) + Len(batch)
        BY <1>1 DEF Appended
      <4>2. Len(writes[dev][auth[dev]]) + i \in 1..Len(writes'[dev][auth[dev]])
        <5>1. Len(writes[dev][auth[dev]]) \in Nat /\ Len(batch) \in Nat
          BY <1>2
        <5> QED BY <4>1, <5>1
      <4> QED BY <2>3, <2>5, <3>2, <4>1, <4>2
    <3> QED BY <2>5, <3>1, <3>2 DEF KeepsPromises
  <2> QED BY <2>1, <2>4, <2>5
<1> QED BY <1>4, <1>5, <1>6 DEF ListingInv

-------------------------------------------------------------------------------
(***************************************************************************)
(* A write reaches the server.                                             *)
(***************************************************************************)
(* The members a commit adds are those of the write it commits.            *)
LEMMA CommitAddsMembers ==
  ASSUME IInv, NEW dev \in Devices, Commit(dev),
         NEW d \in Diaries, NEW u \in memberList'[d], u \notin memberList[d]
  PROVE  /\ Head(Queue(dev)).op \in {"addMember", "createDiary"}
         /\ Head(Queue(dev)).user = u /\ Head(Queue(dev)).diary = d
<1> DEFINE w == Head(Queue(dev))
<1>1. w \in Writes /\ (OnServer(w) \/ UNCHANGED server)
  BY HeadLeaves DEF Commit
<1>2. memberList \in [Diaries -> SUBSET Users]
  BY DEF IInv, TypeOK
<1> HIDE DEF w
<1>3. w.op \in {"addMember", "createDiary"} /\ w.user = u /\ w.diary = d
  BY <1>1, <1>2 DEF OnServer, server, Writes, CreateUserOnServer, CreateDiaryOnServer,
                    SetDiaryIDOnServer, AddMemberOnServer, ListDiaryOnServer
<1> QED BY <1>3 DEF w

(* A listing that an account commits for a user with a document is there.  *)
LEMMA CommitLists ==
  ASSUME IInv, FoundUsersKept, NEW dev \in Devices, Commit(dev), auth[dev] \in Users,
         NEW u \in InitialUsers, NEW d \in Diaries, Head(Queue(dev)) = ListDiary(u, d)
  PROVE  d \in userDiaryList'[u]
<1>1. OnServer(ListDiary(u, d))
  BY DEF Commit
<1>2. ListDiaryOnServer(ListDiary(u, d))
  BY <1>1 DEF OnServer, ListDiary
<1>3. u \in Users /\ u \in userDocs
  BY InitialUsersAssumption DEF FoundUsersKept
<1> QED BY <1>2, <1>3 DEF IInv, TypeOK, ListDiaryOnServer, ListDiary

LEMMA CommitKeepsListing ==
  ASSUME IInv, FoundUsersKept, ListingInv, NEW dev \in Devices, Commit(dev)
  PROVE  ListingInv'
<1> DEFINE w == Head(Queue(dev))
           o0 == auth[dev]
<1>1. /\ o0 \in Owners /\ w \in Writes /\ w = writes[dev][o0][1]
      /\ Len(writes[dev][o0]) \in Nat /\ 1 \in 1..Len(writes[dev][o0])
  BY HeadLeaves
<1>2. UNCHANGED auth
  BY DEF Commit
<1>3. completion' =
        IF w.op = "createDiary" /\ completion[dev][w.diary] = "awaiting"
        THEN [completion EXCEPT ![dev][w.diary] = "ready"]
        ELSE completion
  BY DEF Commit
<1>4. completion \in [Devices -> [Diaries -> {"none", "awaiting", "ready"}]]
  BY DEF IInv, TypeOK
<1>5. \A e \in Devices, o \in Owners : ~(e = dev /\ o = o0) => writes'[e][o] = writes[e][o]
  BY HeadLeaves
<1>6. Len(writes'[dev][o0]) = Len(writes[dev][o0]) - 1
  BY HeadLeaves
<1>7. \A k \in 1..Len(writes'[dev][o0]) : writes'[dev][o0][k] = writes[dev][o0][k + 1]
  BY HeadLeaves
<1>8. \A e \in Devices, d \in Diaries :
        /\ completion[e][d] # "none" => completion'[e][d] # "none"
        /\ completion[e][d] = "awaiting" =>
              \/ completion'[e][d] = "awaiting"
              \/ w.op = "createDiary" /\ w.diary = d
  BY <1>3, <1>4
<1>9. ASSUME NEW k \in 1..Len(writes'[dev][o0])
      PROVE  k + 1 \in 1..Len(writes[dev][o0]) /\ k + 1 # 1
  BY <1>1, <1>6, <1>9
<1>10. CreationsAwaited'
  <2> SUFFICES ASSUME NEW e \in Devices, NEW o \in Owners, NEW k \in 1..Len(writes'[e][o]),
                      writes'[e][o][k].op = "createDiary"
               PROVE  o = auth[e] /\ completion'[e][writes'[e][o][k].diary] = "awaiting"
    BY <1>2 DEF CreationsAwaited
  <2>1. PICK n \in 1..Len(writes[e][o]) :
           writes'[e][o][k] = writes[e][o][n] /\ ~(e = dev /\ o = o0 /\ n = 1)
    BY <1>5, <1>7, <1>9
  <2>2. o = auth[e] /\ completion[e][writes[e][o][n].diary] = "awaiting"
    BY <2>1 DEF ListingInv, CreationsAwaited
  <2>3. w.op = "createDiary" => w.diary # writes[e][o][n].diary
    <3>1. writes[e][o][n].op = "createDiary"
      BY <2>1
    <3>2. \A k2 \in 1..Len(writes[dev][o0]) :
            (/\ writes[dev][o0][k2].op = "createDiary"
             /\ writes[dev][o0][k2].diary = writes[e][o][n].diary)
               => dev = e /\ o0 = o /\ k2 = n
      BY <3>1, <1>1 DEF IInv, CreationsUnique
    <3> QED BY <3>2, <1>1, <2>1
  <2>4. writes[e][o][n].diary \in Diaries
    <3>1. writes[e][o] \in Seq(Writes)
      BY DEF IInv, TypeOK
    <3>2. writes[e][o][n] \in Writes
      BY <3>1, ElementOfSeq
    <3> QED BY <3>2, <2>1 DEF Writes
  <2> QED BY <1>8, <2>1, <2>2, <2>3, <2>4
<1>11. MembershipsFollowed'
  <2> SUFFICES ASSUME NEW e \in Devices, NEW o \in Owners, NEW k \in 1..Len(writes'[e][o]),
                      writes'[e][o][k].op = "addMember"
               PROVE  o = auth[e] /\ o \in Users /\ Followed(writes'[e][o], k)
    BY <1>2 DEF MembershipsFollowed
  <2>1. CASE e = dev /\ o = o0
    <3>1. /\ k + 1 \in 1..Len(writes[dev][o0])
          /\ writes'[dev][o0][k] = writes[dev][o0][k + 1]
      BY <1>7, <1>9, <2>1
    <3>2. o0 = auth[dev] /\ o0 \in Users /\ Followed(writes[dev][o0], k + 1)
      BY <1>1, <2>1, <3>1 DEF ListingInv, MembershipsFollowed
    <3>3. PICK j \in (k + 1 + 1)..Len(writes[dev][o0]) : writes[dev][o0][j] =
             ListDiary(writes[dev][o0][k + 1].user, writes[dev][o0][k + 1].diary)
      BY <3>2 DEF Followed
    <3>4. /\ j - 1 \in (k + 1)..Len(writes'[dev][o0]) /\ j - 1 \in 1..Len(writes'[dev][o0])
          /\ (j - 1) + 1 = j
      BY <1>1, <1>6, <2>1, <3>3
    <3>5. writes'[dev][o0][j - 1] = writes[dev][o0][j]
      BY <1>7, <3>4
    <3> QED BY <2>1, <3>1, <3>2, <3>3, <3>4, <3>5 DEF Followed
  <2>2. CASE ~(e = dev /\ o = o0)
    BY <1>5, <2>2 DEF ListingInv, MembershipsFollowed
  <2> QED BY <2>1, <2>2
<1>12. NobodyForgotten'
  <2> SUFFICES ASSUME NEW u \in InitialUsers, NEW d \in Diaries,
                      u \in memberList'[d], d \notin userDiaryList'[u]
               PROVE  ListingToCome(u, d)'
    BY DEF NobodyForgotten
  <2>1. d \notin userDiaryList[u]
    <3>1. [Next]_vars
      BY DEF Next, Library
    <3> QED BY <3>1, OnlySetsEmptyLists
  <2>2. u \in Users
    BY InitialUsersAssumption
  <2>3. ASSUME NEW e \in Devices, auth[e] \in Users,
               NEW k \in 1..Len(writes[e][auth[e]]), writes[e][auth[e]][k] = ListDiary(u, d)
        PROVE  \E n \in 1..Len(writes'[e][auth[e]]) : writes'[e][auth[e]][n] = ListDiary(u, d)
    <3>1. auth[e] \in Owners
      BY <2>3 DEF Owners
    <3>2. CASE e = dev
      <4>1. k # 1
        <5>1. ASSUME k = 1 PROVE FALSE
          <6>1. Head(Queue(dev)) = ListDiary(u, d) /\ auth[dev] \in Users
            BY <1>1, <2>3, <3>2, <5>1
          <6> QED BY <6>1, CommitLists
        <5> QED BY <5>1
      <4>2. k - 1 \in 1..Len(writes'[dev][o0]) /\ (k - 1) + 1 = k
        BY <1>1, <1>6, <3>2, <4>1
      <4>3. writes'[dev][o0][k - 1] = writes[dev][o0][k]
        BY <1>7, <4>2
      <4> QED BY <2>3, <3>2, <4>2, <4>3
    <3>3. CASE e # dev
      BY <1>5, <2>3, <3>1, <3>3
    <3> QED BY <3>2, <3>3
  <2>4. ASSUME NEW e \in Devices, auth[e] \in Users,
               \/ \E n \in 1..Len(writes'[e][auth[e]]) : writes'[e][auth[e]][n] = ListDiary(u, d)
               \/ completion'[e][d] # "none" /\ auth[e] = u
        PROVE  ListingToCome(u, d)'
    BY <1>2, <2>4 DEF ListingToCome, ListDiary
  <2>5. CASE u \in memberList[d]
    <3>1. PICK e \in Devices :
            /\ auth[e] \in Users
            /\ \/ \E k \in 1..Len(writes[e][auth[e]]) : writes[e][auth[e]][k] = ListDiary(u, d)
               \/ completion[e][d] # "none" /\ auth[e] = u
      BY <2>1, <2>5 DEF ListingInv, NobodyForgotten, ListingToCome
    <3>2. CASE completion[e][d] # "none" /\ auth[e] = u
      BY <1>8, <2>4, <3>1, <3>2
    <3>3. CASE \E k \in 1..Len(writes[e][auth[e]]) : writes[e][auth[e]][k] = ListDiary(u, d)
      <4>1. PICK k \in 1..Len(writes[e][auth[e]]) : writes[e][auth[e]][k] = ListDiary(u, d)
        BY <3>3
      <4>2. \E n \in 1..Len(writes'[e][auth[e]]) : writes'[e][auth[e]][n] = ListDiary(u, d)
        BY <2>3, <3>1, <4>1
      <4> QED BY <2>4, <3>1, <4>2
    <3> QED BY <3>1, <3>2, <3>3
  <2>6. CASE u \notin memberList[d]
    <3>1. w.op \in {"addMember", "createDiary"} /\ w.user = u /\ w.diary = d
      BY <2>6, CommitAddsMembers
    <3>2. CASE w.op = "addMember"
      <4>1. o0 \in Users /\ Followed(writes[dev][o0], 1)
        BY <1>1, <3>2 DEF ListingInv, MembershipsFollowed
      <4>2. PICK j \in (1 + 1)..Len(writes[dev][o0]) : writes[dev][o0][j] = ListDiary(u, d)
        BY <1>1, <3>1, <4>1 DEF Followed
      <4>3. j \in 1..Len(writes[dev][o0])
        BY <1>1
      <4>4. \E n \in 1..Len(writes'[dev][auth[dev]]) :
               writes'[dev][auth[dev]][n] = ListDiary(u, d)
        BY <2>3, <4>1, <4>2, <4>3
      <4> QED BY <2>4, <4>1, <4>4
    <3>3. CASE w.op = "createDiary"
      <4>1. completion[dev][d] = "awaiting"
        BY <1>1, <3>1, <3>3 DEF ListingInv, CreationsAwaited
      <4>2. auth[dev] = u
        BY <1>1, <3>1, <3>3 DEF IInv, CreationsUnique
      <4>3. completion'[dev][d] # "none"
        BY <1>8, <4>1
      <4> QED BY <2>2, <2>4, <4>2, <4>3
    <3> QED BY <3>1, <3>2, <3>3
  <2> QED BY <2>5, <2>6
<1> QED BY <1>10, <1>11, <1>12 DEF ListingInv

-------------------------------------------------------------------------------
(***************************************************************************)
(* Every other action, unless it is a kill or a log-out.                   *)
(***************************************************************************)
LEMMA ListingUntouched ==
  ASSUME ListingInv, UNCHANGED <<server, writes, auth, completion>>
  PROVE  ListingInv'
<1>1. CreationsAwaited'
  BY DEF ListingInv, CreationsAwaited
<1>2. MembershipsFollowed'
  BY DEF ListingInv, MembershipsFollowed
<1>3. NobodyForgotten'
  BY DEF ListingInv, NobodyForgotten, ListingToCome, ListDiary, server
<1> QED BY <1>1, <1>2, <1>3 DEF ListingInv

(* Nothing waits for an account on a phone where none is signed in.        *)
LEMMA SignInKeepsListing ==
  ASSUME IInv, ListingInv, NEW dev \in Devices, NEW u \in Users, SignIn(dev, u)
  PROVE  ListingInv'
<1>1. /\ UNCHANGED <<memberList, userDiaryList, writes, completion>>
      /\ auth[dev] = NoUser /\ auth' = [auth EXCEPT ![dev] = u]
  BY DEF SignIn, server, disk
<1>2. \A e \in Devices : auth[e] \in Users => auth'[e] = auth[e]
  BY <1>1, NoUserAssumption DEF IInv, TypeOK
<1>3. CreationsAwaited'
  <2> SUFFICES ASSUME NEW e \in Devices, NEW o \in Owners, NEW k \in 1..Len(writes[e][o]),
                      writes[e][o][k].op = "createDiary"
               PROVE  o = auth'[e] /\ completion[e][writes[e][o][k].diary] = "awaiting"
    BY <1>1 DEF CreationsAwaited
  <2>1. o \in Users
    BY DEF IInv, CreationsUnique
  <2> QED BY <1>2, <2>1 DEF ListingInv, CreationsAwaited
<1>4. MembershipsFollowed'
  BY <1>1, <1>2 DEF ListingInv, MembershipsFollowed
<1>5. NobodyForgotten'
  <2> SUFFICES ASSUME NEW v \in InitialUsers, NEW d \in Diaries, ListingToCome(v, d)
               PROVE  ListingToCome(v, d)'
    BY <1>1 DEF ListingInv, NobodyForgotten
  <2>1. PICK e \in Devices :
          /\ auth[e] \in Users
          /\ \/ \E k \in 1..Len(writes[e][auth[e]]) : writes[e][auth[e]][k] = ListDiary(v, d)
             \/ completion[e][d] # "none" /\ auth[e] = v
    BY DEF ListingToCome
  <2> QED BY <1>1, <1>2, <2>1 DEF ListingToCome, ListDiary
<1> QED BY <1>3, <1>4, <1>5 DEF ListingInv

LEMMA StepKeepsListing ==
  ASSUME IInv, FoundUsersKept, HandlersOffIntro, OpenDiaryHasID, NoneStopped, ListingInv,
         kills' = 0, logOuts' = 0, kills \in Nat, logOuts \in Nat, NEW dev \in Devices,
         Library(dev) \/ Handlers(dev) \/ Person(dev) \/ Kill(dev) \/ Restart(dev)
  PROVE  NoneStopped' /\ ListingInv'
<1>0. /\ completion \in [Devices -> [Diaries -> {"none", "awaiting", "ready"}]]
      /\ proc \in [Devices -> {"running", "killed", "crashed"}]
  BY DEF IInv, TypeOK
<1>1. ~Kill(dev) /\ ~LogOut(dev)
  BY DEF Kill, LogOut
<1>2. ~Restart(dev)
  BY <1>0 DEF Restart, Running, NoneStopped, HandlersOffIntro
<1>3. NoneStopped'
  <2>1. UNCHANGED proc \/ \E d \in Diaries : CompleteAddDiary(dev, d)
    BY <1>1, <1>2 DEF Library, Handlers, Person, Persist, Commit, AnswerCheck, FinishCheck,
                AnswerInvite, SignIn, TapAddUser, Swipe, CloseDiary, AddDiary, OpenDiary, ui
  <2>2. UNCHANGED proc \/ proc' = [proc EXCEPT ![dev] = "crashed"]
    BY <2>1 DEF CompleteAddDiary
  <2> QED BY <1>0, <2>2 DEF NoneStopped
<1>4. ASSUME NEW o \in Owners, Persist(dev, o) PROVE ListingInv'
  BY <1>4, ListingUntouched DEF Persist, calls
<1>5. ASSUME Commit(dev) PROVE ListingInv'
  BY <1>5, CommitKeepsListing
<1>6. ASSUME NEW u \in Users, AnswerCheck(dev, u) \/ TapAddUser(dev, u) PROVE ListingInv'
  BY <1>6, ListingUntouched DEF AnswerCheck, TapAddUser, disk
<1>7. ASSUME Swipe(dev) \/ CloseDiary(dev) PROVE ListingInv'
  <2>1. UNCHANGED <<server, writes, auth, completion>>
    BY <1>7 DEF Swipe, CloseDiary, disk, calls
  <2> QED BY <2>1, ListingUntouched
<1>8. ASSUME NEW d \in Diaries, OpenDiary(dev, d) PROVE ListingInv'
  BY <1>8, ListingUntouched DEF OpenDiary, disk, calls
<1>9. ASSUME NEW u \in Users, SignIn(dev, u) PROVE ListingInv'
  BY <1>9, SignInKeepsListing
<1>10. ASSUME NEW u \in Users, FinishCheck(dev, u) PROVE ListingInv'
  <2>1. UNCHANGED <<server, auth, completion>>
    BY <1>10 DEF FinishCheck
  <2>2. CASE UNCHANGED writes
    BY <2>1, <2>2, ListingUntouched
  <2>3. CASE Issue(dev, <<CreateUser(u)>>)
    <3>1. <<CreateUser(u)>> \in Seq(Writes)
      BY WritesTyped
    <3>2. KeepsPromises(dev, <<CreateUser(u)>>)
      BY <2>1 DEF KeepsPromises, CreateUser
    <3> QED BY <2>1, <2>3, <3>1, <3>2, BatchKeepsListing
  <2> QED BY <1>10, <2>2, <2>3 DEF FinishCheck
<1>11. ASSUME NEW d \in Diaries, AddDiary(dev, d) PROVE ListingInv'
  <2> DEFINE w == CreateDiary(d, currentUID[dev])
  <2>1. /\ UNCHANGED <<server, auth>> /\ Issue(dev, <<w>>)
        /\ completion' = [completion EXCEPT ![dev][d] = "awaiting"]
    BY <1>11 DEF AddDiary
  <2>2. currentUID[dev] \in Users
    BY <1>11 DEF AddDiary, IInv, SessionMatches
  <2>3. <<w>> \in Seq(Writes)
    BY <2>2, WritesTyped
  <2>4. w.op = "createDiary" /\ w.diary = d
    BY DEF CreateDiary
  <2> HIDE DEF w
  <2>5. KeepsPromises(dev, <<w>>)
    BY <1>0, <2>1, <2>4 DEF KeepsPromises
  <2> QED BY <2>1, <2>3, <2>5, BatchKeepsListing
<1>12. ASSUME NEW d \in Diaries, CompleteAddDiary(dev, d) PROVE ListingInv'
  <2>1. /\ UNCHANGED <<server, auth>> /\ completion[dev][d] = "ready"
        /\ completion' = [completion EXCEPT ![dev][d] = "none"]
    BY <1>12 DEF CompleteAddDiary
  <2>2. screen[dev] # "intro"
    BY <2>1 DEF HandlersOffIntro
  <2>3. currentUID[dev] = auth[dev] /\ auth[dev] \in Users /\ auth[dev] # NoUser
    BY <2>2, NoUserAssumption DEF IInv, SessionMatches
  <2> DEFINE batch == <<SetDiaryID(d), ListDiary(auth[dev], d)>>
  <2>4. Issue(dev, batch)
    BY <1>12, <2>3 DEF CompleteAddDiary, CreatorWrites
  <2>5. batch \in Seq(Writes)
    BY <2>3, WritesTyped
  <2>6. /\ Len(batch) = 2 /\ batch[2] = ListDiary(auth[dev], d)
        /\ \A i \in 1..Len(batch) : batch[i].op \notin {"createDiary", "addMember"}
    BY DEF SetDiaryID, ListDiary
  <2> HIDE DEF batch
  <2>7. KeepsPromises(dev, batch)
    <3>1. 2 \in 1..Len(batch)
      BY <2>6
    <3> QED BY <1>0, <2>1, <2>6, <3>1 DEF KeepsPromises
  <2> QED BY <2>1, <2>4, <2>5, <2>7, BatchKeepsListing
<1>13. ASSUME NEW friend \in invites[dev], AnswerInvite(dev, friend) PROVE ListingInv'
  <2>1. UNCHANGED <<server, auth, completion>>
    BY <1>13 DEF AnswerInvite
  <2>2. CASE UNCHANGED writes
    BY <2>1, <2>2, ListingUntouched
  <2>3. CASE AddUser(dev, friend)
    <3> DEFINE d == openDiary[dev]
               batch == <<AddMember(d, friend), ListDiary(friend, d)>>
    <3>1. friend \in Users /\ d \in Diaries /\ d # NoDiary
      BY <1>13 DEF IInv, TypeOK, OpenDiaryExists
    <3>2. auth[dev] \in Users
      BY <3>1 DEF OpenDiaryHasID
    <3>3. batch \in Seq(Writes)
      BY <3>1, WritesTyped
    <3>4. Issue(dev, batch)
      BY <2>3 DEF AddUser
    <3> HIDE DEF d
    <3>5. /\ Len(batch) = 2 /\ batch[1].op = "addMember" /\ batch[2].op = "listDiary"
          /\ batch[2] = ListDiary(batch[1].user, batch[1].diary)
      BY DEF AddMember, ListDiary
    <3> HIDE DEF batch
    <3>6. Followed(batch, 1)
      <4>1. 2 \in (1 + 1)..Len(batch)
        BY <3>5
      <4> QED BY <3>5, <4>1 DEF Followed
    <3>7. KeepsPromises(dev, batch)
      <4>1. \A i \in 1..Len(batch) : i = 1 \/ i = 2
        BY <3>5
      <4> QED BY <2>1, <3>2, <3>5, <3>6, <4>1 DEF KeepsPromises
    <3> QED BY <2>1, <3>3, <3>4, <3>7, BatchKeepsListing
  <2> QED BY <1>13, <2>2, <2>3 DEF AnswerInvite
<1>14. ListingInv'
  <2>1. CASE Library(dev)
    BY <1>4, <1>5, <2>1 DEF Library
  <2>2. CASE Handlers(dev)
    BY <1>6, <1>10, <1>12, <1>13, <2>2 DEF Handlers
  <2>3. CASE Person(dev)
    BY <1>1, <1>6, <1>7, <1>8, <1>9, <1>11, <2>3 DEF Person
  <2> QED BY <1>1, <1>2, <2>1, <2>2, <2>3
<1> QED BY <1>3, <1>14

LEMMA NextUninterruptedInv ==
  ASSUME IInv, FoundUsersKept, NoLogOutInv, UninterruptedInv, [Next]_vars
  PROVE  UninterruptedInv'
<1>1. CASE UNCHANGED vars
  <2>1. UNCHANGED <<server, writes, auth, completion, proc, kills, logOuts>>
    BY <1>1 DEF vars, disk, ui, calls, bounds
  <2> QED BY <2>1, ListingUntouched DEF UninterruptedInv, Uninterrupted, NoneStopped
<1>2. ASSUME NEW dev \in Devices,
             Library(dev) \/ Handlers(dev) \/ Person(dev) \/ Kill(dev) \/ Restart(dev),
             kills' = 0, logOuts' = 0
      PROVE  NoneStopped' /\ ListingInv'
  <2>1. kills \in Nat /\ logOuts \in Nat
    BY DEF IInv, TypeOK
  <2>2. kills' \in {kills, kills + 1} /\ logOuts' \in {logOuts, logOuts + 1}
    BY <1>2 DEF Library, Handlers, Person, Persist, Commit, AnswerCheck, FinishCheck,
                CompleteAddDiary, AnswerInvite, SignIn, TapAddUser, Swipe, LogOut,
                CloseDiary, AddDiary, OpenDiary, Kill, Restart, bounds
  <2>3. kills = 0 /\ logOuts = 0
    BY <1>2, <2>1, <2>2
  <2>4. HandlersOffIntro /\ OpenDiaryHasID /\ NoneStopped /\ ListingInv
    BY <2>3 DEF NoLogOutInv, UninterruptedInv, Uninterrupted
  <2> QED BY <1>2, <2>1, <2>4, StepKeepsListing
<1> QED BY <1>1, <1>2 DEF Next, UninterruptedInv, Uninterrupted

LEMMA InitUninterruptedInv == Init => UninterruptedInv
<1> SUFFICES ASSUME Init PROVE UninterruptedInv
  OBVIOUS
<1>1. \A dev \in Devices, o \in Owners : 1..Len(writes[dev][o]) = {}
  BY DEF Init
<1>2. \A u \in InitialUsers, d \in Diaries : u \notin memberList[d]
  BY DEF Init
<1> QED BY <1>1, <1>2 DEF Init, UninterruptedInv, NoneStopped, ListingInv,
                          CreationsAwaited, MembershipsFollowed, NobodyForgotten

(* No member is forgotten, for any phones, users and diaries: whoever had  *)
(* a document at the start, and is in a memberList, has the diary listed,  *)
(* or the listing is to come.                                              *)
THEOREM SpecImpliesNobodyForgotten ==
  ASSUME ~Offline
  PROVE  Spec => [](Uninterrupted => NobodyForgotten)
<1>1. UninterruptedInv => (Uninterrupted => NobodyForgotten)
  BY DEF UninterruptedInv, ListingInv
<1> QED BY <1>1, InitUninterruptedInv, NextUninterruptedInv, FoundUsersAreKept,
           SpecImpliesNoLogOutInv, SpecImpliesIInv, PTL DEF Spec

(* Nothing is on its way to the server, nor waits to be sent there.        *)
Quiet ==
    \A dev \in Devices :
        /\ auth[dev] \in Users => Queue(dev) = <<>>
        /\ \A d \in Diaries : completion[dev][d] = "none"

(* So the two halves of a membership agree whenever the phones are quiet:  *)
(* a diary is in a user's list exactly when the user is in its memberList. *)
THEOREM ListsAgreeWhenQuiet ==
  ASSUME ~Offline, InitialUsers = Users
  PROVE  Spec => [](Uninterrupted /\ Quiet =>
                      \A u \in Users, d \in Diaries :
                          d \in userDiaryList[u] <=> u \in memberList[d])
<1>1. IInv /\ (Uninterrupted => NobodyForgotten)
        => (Uninterrupted /\ Quiet =>
              \A u \in Users, d \in Diaries : d \in userDiaryList[u] <=> u \in memberList[d])
  <2> SUFFICES ASSUME IInv, NobodyForgotten, Quiet, NEW u \in Users, NEW d \in Diaries
               PROVE  d \in userDiaryList[u] <=> u \in memberList[d]
    OBVIOUS
  <2>1. ~ListingToCome(u, d)
    <3>1. \A dev \in Devices : auth[dev] \in Users => 1..Len(writes[dev][auth[dev]]) = {}
      BY DEF Quiet, Queue
    <3> QED BY <3>1 DEF Quiet, ListingToCome
  <2>2. d \in userDiaryList[u] => u \in memberList[d]
    BY DEF IInv, ListedImpliesMember
  <2> QED BY <2>1, <2>2 DEF NobodyForgotten
<1> QED BY <1>1, SpecImpliesNobodyForgotten, SpecImpliesIInv, PTL
===============================================================================
