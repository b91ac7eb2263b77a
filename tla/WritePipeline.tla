---------------------------- MODULE WritePipeline ----------------------------
(***************************************************************************)
(* How the Firestore client sends a device's writes: the mutation queue    *)
(* kept on disk for each account, RemoteStore's write pipeline, the write  *)
(* stream under it and SyncEngine's callbacks.  All of it runs on one      *)
(* worker queue, so a task is one action; timers, credentials and the      *)
(* service's answers are tasks of their own.                               *)
(***************************************************************************)
EXTENDS Naturals, Sequences, FiniteSets

CONSTANTS
  Users,              \* the accounts that may be signed in on the device
  MaxPendingWrites,   \* kMaxPendingWrites
  MaxWrites           \* bound: the writes callers make

ASSUME PipelineAssumption ==
  /\ MaxPendingWrites \in Nat \ {0}
  /\ MaxWrites \in Nat

VARIABLES
  queue,      \* disk: user -> the batches still queued, by batch id
  written,    \* the writes made so far; write n is the n-th
  user,       \* current_user_
  nextId,     \* next_batch_id_ of the user's mutation queue
  enabled,    \* is_network_enabled_
  pipeline,   \* write_pipeline_
  stream,     \* the write stream's state_; Open stands for Healthy as well
  shake,      \* its handshake; "complete" is handshake_complete_
  idle,       \* its idleness_timer_ is running
  stale,      \* credentials asked for by an attempt closed since are under way
  up,         \* the batches sent that the service has not handled
  down,       \* its answers not yet read, one per committed batch
  refusal,    \* after them, the end of the call with a permanent error
  callbacks,  \* mutation_callbacks_
  waits,      \* pending_writes_callbacks_: batch ids waited for
  told,       \* what callers heard: <<write, "ok" or "error">>
  committed,  \* service: user -> the writes committed
  value,      \* service: user -> the write committed last, 0 for none
  failed      \* a HARD_ASSERT failed

disk == <<queue, written>>
wire == <<shake, up, down, refusal>>
service == <<committed, value>>
callers == <<callbacks, waits, told>>
vars == <<disk, user, nextId, enabled, pipeline, stream, idle, stale, wire,
          callers, service, failed>>

Batch == [id : Nat \ {0}, no : 1..MaxWrites]
Callback == [user : Users, id : Nat \ {0}, no : 1..MaxWrites]
StreamState == {"Initial", "Starting", "Open", "Error", "Backoff"}
Handshake == {"none", "sent", "answered", "complete"}

(* The types of the variables. *)
TypeOK ==
  /\ queue \in [Users -> Seq(Batch)]
  /\ written \in 0..MaxWrites
  /\ user \in Users
  /\ nextId \in Nat \ {0}
  /\ enabled \in BOOLEAN
  /\ pipeline \in Seq(Batch)
  /\ stream \in StreamState
  /\ shake \in Handshake
  /\ idle \in BOOLEAN
  /\ stale \in BOOLEAN
  /\ up \in Seq(Batch)
  /\ down \in Seq(Batch)
  /\ refusal \in BOOLEAN
  /\ callbacks \subseteq Callback
  /\ waits \subseteq Nat
  /\ told \subseteq (1..MaxWrites) \X {"ok", "error"}
  /\ committed \in [Users -> SUBSET (1..MaxWrites)]
  /\ value \in [Users -> 0..MaxWrites]
  /\ failed \in BOOLEAN

Init ==
  /\ queue = [u \in Users |-> <<>>] /\ written = 0
  /\ user \in Users /\ nextId = 1 /\ enabled = TRUE
  /\ pipeline = <<>> /\ stream = "Initial" /\ idle = FALSE /\ stale = FALSE
  /\ shake = "none" /\ up = <<>> /\ down = <<>> /\ refusal = FALSE
  /\ callbacks = {} /\ waits = {} /\ told = {}
  /\ committed = [u \in Users |-> {}] /\ value = [u \in Users |-> 0]
  /\ failed = FALSE

(* A task runs only if its HARD_ASSERTs hold; one that fails ends it all. *)
HardAssert(cond, Task) ==
  \/ cond /\ Task /\ UNCHANGED failed
  \/ /\ ~cond /\ failed' = TRUE
     /\ UNCHANGED <<disk, user, nextId, enabled, pipeline, stream, idle, stale,
                    wire, callers, service>>
-----------------------------------------------------------------------------
(* The mutation queue on disk *)

(* LoadNextBatchIdFromDb: one more than the highest id of any account. *)
IsNextBatchId(n, q) ==
  LET LastId(u) == IF q[u] = <<>> THEN 0 ELSE q[u][Len(q[u])].id
  IN  /\ \A u \in Users : LastId(u) < n
      /\ n = 1 \/ \E u \in Users : n = LastId(u) + 1

InQueue(q, id) == \E i \in 1..Len(q) : q[i].id = id

(* RemoveMutationBatch: the row of that id. *)
Without(q, id) ==
  LET at == CHOOSE i \in 1..Len(q) : q[i].id = id
  IN  SubSeq(q, 1, at - 1) \o SubSeq(q, at + 1, Len(q))

(* How many of q's batches come no later than the last of the pipeline. *)
Retrieved(q, pipe) ==
  IF pipe = <<>> THEN 0
  ELSE CHOOSE i \in 0..Len(q) :
         \A j \in 1..Len(q) : (j <= i) <=> (q[j].id <= pipe[Len(pipe)].id)
-----------------------------------------------------------------------------
(* The pipeline and the stream under it *)

IsStarted(s) == s \in {"Starting", "Backoff", "Open"}

(* Start: at once after a graceful stop, after a delay after an error. *)
Started(s) == IF s = "Error" THEN "Backoff" ELSE "Starting"

(* The batches of the queue q that FillWritePipeline adds to pipe. *)
ToAdd(q, pipe) ==
  LET from == Retrieved(q, pipe)
      until == from + MaxPendingWrites - Len(pipe)
  IN  IF Len(pipe) < MaxPendingWrites
      THEN SubSeq(q, from + 1, IF until < Len(q) THEN until ELSE Len(q))
      ELSE <<>>

FillUnshaken(q, pipe, s) ==   \* mutant: handshake_complete is not looked at
  LET full == pipe \o ToAdd(q, pipe)
  IN  /\ pipeline' = full
      /\ up' = IF s = "Open" THEN up \o ToAdd(q, pipe) ELSE <<>>
      /\ idle' = (s = "Open" /\ (full = <<>> \/ (idle /\ ToAdd(q, pipe) = <<>>)))
      /\ stream' = IF ~IsStarted(s) /\ full # <<>> THEN Started(s) ELSE s

(* FillWritePipeline of the queue q onto pipe, the stream being in state s *)
(* and the network usable.  It writes what it adds if the handshake is     *)
(* done, marks the stream idle if there is nothing to send, and starts it  *)
(* if there is.                                                            *)
FillWritePipeline(q, pipe, s) ==
  LET more == ToAdd(q, pipe)
      full == pipe \o more
      ready == s = "Open" /\ shake = "complete"
  IN  /\ pipeline' = full
      /\ up' = IF s # "Open" THEN <<>> ELSE IF ready THEN up \o more ELSE up
      /\ idle' = (s = "Open" /\ (full = <<>> \/ (idle /\ ~(ready /\ more # <<>>))))
      /\ stream' = IF ~IsStarted(s) /\ full # <<>> THEN Started(s) ELSE s

(* The call is over: nothing of it will be read any more. *)
CallGone == shake' = "none" /\ down' = <<>> /\ refusal' = FALSE

RestartNetworkKeeping(q) ==   \* mutant: write_pipeline_ is not cleared
  /\ stale' = (stale \/ stream = "Starting")
  /\ CallGone
  /\ FillWritePipeline(q, pipeline, "Initial")

(* Stop, Start and refill, which forget that credentials were asked for. *)
RestartNetwork(q) ==
  /\ stale' = (stale \/ stream = "Starting")
  /\ CallGone
  /\ FillWritePipeline(q, <<>>, "Initial")

CloseForGood ==   \* mutant: the stream is not started again
  /\ stream' = "Error"
  /\ CallGone /\ up' = <<>> /\ idle' = FALSE
  /\ UNCHANGED <<disk, user, nextId, enabled, pipeline, stale, callers, service, failed>>

(* Close with an error that spares the writes: they stay in the pipeline *)
(* and the stream is tried again after a delay, if it is needed.         *)
CloseOnError ==
  /\ stream' = IF pipeline # <<>> THEN "Backoff" ELSE "Error"
  /\ CallGone /\ up' = <<>> /\ idle' = FALSE
  /\ UNCHANGED <<disk, user, nextId, enabled, pipeline, stale, callers, service, failed>>
-----------------------------------------------------------------------------
(* The callers *)

(* WriteMutations: durable first, then in the pipeline if there is room. *)
WriteMutations ==
  LET q == Append(queue[user], [id |-> nextId, no |-> written + 1])
      known == \E c \in callbacks : c.user = user /\ c.id = nextId
      callback == [user |-> user, id |-> nextId, no |-> written + 1]
  IN  /\ written < MaxWrites
      /\ queue' = [queue EXCEPT ![user] = q]
      /\ written' = written + 1
      /\ nextId' = nextId + 1
      /\ callbacks' = IF known THEN callbacks ELSE callbacks \cup {callback}
      /\ IF enabled THEN FillWritePipeline(q, pipeline, stream)
                    ELSE UNCHANGED <<pipeline, up, idle, stream>>
      /\ UNCHANGED <<user, enabled, stale, shake, down, refusal, waits, told,
                     service, failed>>

WaitForNothing ==   \* mutant: kBatchIdUnknown is waited for
  /\ waits' = waits \cup {IF queue[user] = <<>> THEN 0 - 1
                          ELSE queue[user][Len(queue[user])].id}
  /\ UNCHANGED <<disk, user, nextId, enabled, pipeline, stream, idle, stale,
                 wire, callbacks, told, service, failed>>

(* WaitForPendingWrites: with nothing queued it is answered at once. *)
WaitForPendingWrites ==
  /\ queue[user] # <<>>
  /\ waits' = waits \cup {queue[user][Len(queue[user])].id}
  /\ UNCHANGED <<disk, user, nextId, enabled, pipeline, stream, idle, stale,
                 wire, callbacks, told, service, failed>>

ChangeAccountWaiting(u) ==   \* mutant: the previous account's waits are kept
  /\ user' = u
  /\ \E n \in 1..(MaxWrites + 1) : IsNextBatchId(n, queue) /\ nextId' = n
  /\ IF enabled THEN RestartNetwork(queue[u])
                ELSE UNCHANGED <<pipeline, stream, idle, stale, wire>>
  /\ UNCHANGED <<disk, enabled, callers, service, failed>>

(* HandleCredentialChange: another account's queue, and fresh streams. *)
HandleCredentialChange(u) ==
  /\ user' = u
  /\ waits' = IF u # user THEN {} ELSE waits
  /\ IF u # user THEN \E n \in 1..(MaxWrites + 1) : IsNextBatchId(n, queue) /\ nextId' = n
                 ELSE UNCHANGED nextId
  /\ IF enabled THEN RestartNetwork(queue[u])
                ELSE UNCHANGED <<pipeline, stream, idle, stale, wire>>
  /\ UNCHANGED <<disk, enabled, callbacks, told, service, failed>>

(* The connectivity monitor: the network changed and may be reachable. *)
ConnectivityChanges ==
  /\ enabled
  /\ RestartNetwork(queue[user])
  /\ UNCHANGED <<disk, user, nextId, enabled, callers, service, failed>>

(* EnableNetwork, also when it is enabled already. *)
EnableNetwork ==
  /\ enabled' = TRUE
  /\ FillWritePipeline(queue[user], pipeline, stream)
  /\ UNCHANGED <<disk, user, nextId, stale, shake, down, refusal, callers, service, failed>>

(* DisableNetwork: the stream stops and the pipeline is emptied. *)
DisableNetwork ==
  /\ enabled' = FALSE
  /\ pipeline' = <<>> /\ up' = <<>> /\ idle' = FALSE
  /\ stream' = IF IsStarted(stream) THEN "Initial" ELSE stream
  /\ stale' = (stale \/ stream = "Starting")
  /\ CallGone
  /\ UNCHANGED <<disk, user, nextId, callers, service, failed>>
-----------------------------------------------------------------------------
(* The stream's own tasks *)

(* ResumeStartWithCredentials: the call starts, and so does its handshake. *)
CredentialsArrive ==
  /\ stream = "Starting"
  /\ stream' = "Open" /\ shake' = "sent" /\ idle' = FALSE
  /\ UNCHANGED <<disk, user, nextId, enabled, pipeline, stale, up, down, refusal,
                 callers, service, failed>>

StaleCredentialsUsed ==   \* mutant: close_count_ is not compared
  /\ stale
  /\ HardAssert(stream = "Starting",
       /\ stale' = FALSE /\ stream' = "Open" /\ shake' = "sent" /\ idle' = FALSE
       /\ UNCHANGED <<disk, user, nextId, enabled, pipeline, up, down, refusal,
                      callers, service>>)

(* Credentials asked for before the stream was closed are dropped. *)
StaleCredentialsArrive ==
  /\ stale /\ stale' = FALSE
  /\ UNCHANGED <<disk, user, nextId, enabled, pipeline, stream, idle, wire,
                 callers, service, failed>>

(* No credentials, a lost connection, a call ended with a transient error  *)
(* or one refused at its handshake, at any moment; answers on their way    *)
(* are lost with it.                                                       *)
StreamFails ==
  /\ stream \in {"Starting", "Open"}
  /\ CloseOnError

(* The delay is over: the stream starts. *)
BackoffElapses ==
  /\ stream = "Backoff"
  /\ stream' = "Starting"
  /\ UNCHANGED <<disk, user, nextId, enabled, pipeline, idle, stale, wire,
                 callers, service, failed>>

(* The idleness timer: a graceful stop, which must be desirable. *)
IdleTimeout ==
  /\ idle
  /\ HardAssert(~(enabled /\ pipeline # <<>>),
       /\ stream' = "Initial" /\ idle' = FALSE /\ up' = <<>>
       /\ CallGone
       /\ UNCHANGED <<disk, user, nextId, enabled, pipeline, stale, callers, service>>)

HandshakeSendsBackwards ==   \* mutant: the newest batch is sent first
  /\ stream = "Open" /\ shake = "answered"
  /\ shake' = "complete"
  /\ up' = [i \in 1..Len(pipeline) |-> pipeline[Len(pipeline) + 1 - i]]
  /\ idle' = (idle /\ pipeline = <<>>)
  /\ UNCHANGED <<disk, user, nextId, enabled, pipeline, stream, stale, down,
                 refusal, callers, service, failed>>

(* OnWriteStreamHandshakeComplete: the whole pipeline is sent. *)
HandshakeCompletes ==
  /\ stream = "Open" /\ shake = "answered"
  /\ shake' = "complete"
  /\ up' = up \o pipeline
  /\ idle' = (idle /\ pipeline = <<>>)
  /\ UNCHANGED <<disk, user, nextId, enabled, pipeline, stream, stale, down,
                 refusal, callers, service, failed>>

(* NotifyUser and TriggerPendingWriteCallbacks for the batch of that id. *)
ToNotify(id) == {c \in callbacks : c.user = user /\ c.id = id}
NotifyAgain(id, result) ==   \* mutant: the callback is not erased
  /\ told' = told \cup {<<c.no, result>> : c \in ToNotify(id)}
  /\ UNCHANGED callbacks
  /\ waits' = waits \ {id}
Notify(id, result) ==
  /\ told' = told \cup {<<c.no, result>> : c \in ToNotify(id)}
  /\ callbacks' = callbacks \ ToNotify(id)
  /\ waits' = waits \ {id}

(* The front of the pipeline is answered: its caller is told, its batch    *)
(* leaves the disk and the room it leaves is filled.                       *)
CompleteFront(result, s) ==
  LET front == Head(pipeline)
      q == Without(queue[user], front.id)
  IN  /\ Notify(front.id, result)
      /\ queue' = [queue EXCEPT ![user] = q]
      /\ FillWritePipeline(q, Tail(pipeline), s)
      /\ UNCHANGED <<written, user, nextId, enabled, stale, service>>

FrontIsQueued == pipeline # <<>> /\ InQueue(queue[user], Head(pipeline).id)

(* OnWriteStreamMutationResult: an answer is for the front of the pipeline. *)
OnWriteStreamMutationResult ==
  /\ stream = "Open" /\ shake = "complete" /\ down # <<>>
  /\ HardAssert(FrontIsQueued,
       /\ CompleteFront("ok", "Open")
       /\ down' = Tail(down)
       /\ UNCHANGED <<shake, refusal>>)

RejectOnAnyError ==   \* mutant: IsPermanentWriteError is not asked
  /\ stream = "Open" /\ shake = "complete" /\ pipeline # <<>>
  /\ HardAssert(FrontIsQueued, CompleteFront("error", "Initial") /\ CallGone)

(* OnWriteStreamClose with a permanent error: the front of the pipeline is *)
(* given up, and the stream restarts without delay.                        *)
OnWriteRejected ==
  /\ stream = "Open" /\ shake = "complete" /\ down = <<>> /\ refusal
  /\ IF pipeline = <<>> THEN CloseOnError
     ELSE HardAssert(FrontIsQueued, CompleteFront("error", "Initial") /\ CallGone)

(* The process dies and is launched again; it may die between telling a    *)
(* caller and removing its batch.                                          *)
Restart ==
  /\ \/ UNCHANGED told
     \/ /\ stream = "Open" /\ shake = "complete" /\ down # <<>> /\ pipeline # <<>>
        /\ told' = told \cup {<<c.no, "ok">> : c \in ToNotify(Head(pipeline).id)}
  /\ callbacks' = {} /\ waits' = {}
  /\ enabled' = TRUE /\ stale' = FALSE
  /\ \E n \in 1..(MaxWrites + 1) : IsNextBatchId(n, queue) /\ nextId' = n
  /\ CallGone
  /\ FillWritePipeline(queue[user], <<>>, "Initial")
  /\ UNCHANGED <<disk, user, service, failed>>
-----------------------------------------------------------------------------
(* The service, as the client relies on it: one call at a time, in order,  *)
(* and a write it has committed once is never refused later.               *)

ServiceGreets ==
  /\ shake = "sent" /\ shake' = "answered"
  /\ UNCHANGED <<disk, user, nextId, enabled, pipeline, stream, idle, stale, up,
                 down, refusal, callers, service, failed>>

ServiceCommits ==
  /\ up # <<>> /\ ~refusal
  /\ up' = Tail(up) /\ down' = Append(down, Head(up))
  /\ committed' = [committed EXCEPT ![user] = @ \cup {Head(up).no}]
  /\ value' = [value EXCEPT ![user] = Head(up).no]
  /\ UNCHANGED <<disk, user, nextId, enabled, pipeline, stream, idle, stale,
                 shake, refusal, callers, failed>>

ServiceRefuses ==
  /\ up # <<>> /\ ~refusal /\ Head(up).no \notin committed[user]
  /\ refusal' = TRUE
  /\ UNCHANGED <<disk, user, nextId, enabled, pipeline, stream, idle, stale,
                 shake, up, down, callers, service, failed>>
-----------------------------------------------------------------------------
Callers ==
  \/ WriteMutations \/ WaitForPendingWrites
  \/ \E u \in Users : HandleCredentialChange(u)
  \/ ConnectivityChanges \/ EnableNetwork \/ DisableNetwork

Client ==
  \/ CredentialsArrive \/ StaleCredentialsArrive \/ StreamFails
  \/ BackoffElapses \/ IdleTimeout \/ HandshakeCompletes
  \/ OnWriteStreamMutationResult \/ OnWriteRejected \/ Restart

Service == ServiceGreets \/ ServiceCommits \/ ServiceRefuses

Next == ~failed /\ (Callers \/ Client \/ Service)

(* Timers go off; and an exchange the network lets begin again and again   *)
(* is not broken off each time: credentials, handshakes, commits and their *)
(* answers get through now and then.                                       *)
Fairness ==
  /\ WF_vars(BackoffElapses)
  /\ SF_vars(CredentialsArrive)
  /\ SF_vars(ServiceGreets) /\ SF_vars(HandshakeCompletes)
  /\ SF_vars(ServiceCommits \/ ServiceRefuses)
  /\ SF_vars(OnWriteStreamMutationResult) /\ SF_vars(OnWriteRejected)

Spec == Init /\ [][Next]_vars
FairSpec == Spec /\ Fairness
-----------------------------------------------------------------------------
(* Properties *)

(* The pipeline is the beginning of the signed-in account's queue, and no  *)
(* longer than kMaxPendingWrites: after a change of account, a rejection,  *)
(* a retry or a restart no write of it is skipped, sent out of turn or     *)
(* sent for another account (RemoteStore::FillWritePipeline).              *)
PipelineFollowsQueue ==
  /\ Len(pipeline) <= MaxPendingWrites
  /\ Len(pipeline) <= Len(queue[user])
  /\ \A i \in 1..Len(pipeline) : pipeline[i] = queue[user][i]

(* An answer says no more than that some write was committed; counting     *)
(* from the front of the pipeline it is the right one: the answers to come *)
(* and the batches still to be handled are the pipeline, in its order      *)
(* (RemoteStore::OnWriteStreamMutationResult).                             *)
AnswersMatchPipeline ==
  stream = "Open" /\ shake = "complete" => pipeline = down \o up

(* No HARD_ASSERT on these paths fails: no answer without a batch, no      *)
(* graceful stop of a stream that is needed, no batch missing on disk.     *)
NoAssertFails == ~failed

(* A caller told "ok" has its own write committed; one told "error" has it *)
(* neither committed nor still queued: the callback of a batch id, which   *)
(* is used again after a restart, is never called for another write        *)
(* (SyncEngine::NotifyUser).                                               *)
CallersToldTheTruth ==
  /\ \A n \in 1..MaxWrites : <<n, "ok">> \in told =>
       \E u \in Users : n \in committed[u]
  /\ \A n \in 1..MaxWrites : <<n, "error">> \in told =>
       \A u \in Users :
       /\ n \notin committed[u]
       /\ \A i \in 1..Len(queue[u]) : queue[u][i].no # n

(* Whoever waits for pending writes waits for a batch that is still        *)
(* queued, so that the answer which removes it ends the wait               *)
(* (SyncEngine::RegisterPendingWritesCallback).                            *)
WaitsAreForQueued == \A id \in waits : InQueue(queue[user], id)

(* Batches committed again after a lost answer do not leave the service    *)
(* with an old value: once an account's queue is empty, what the service   *)
(* committed last for it is the newest write it ever committed for it.     *)
(* Each account is taken to overwrite one document of its own.             *)
SettledOnNewest ==
  \A u \in Users : queue[u] = <<>> => \A n \in committed[u] : n <= value[u]

(* The writes of a queue, without their batch ids. *)
Writes(q) == [i \in 1..Len(q) |-> q[i].no]

(* The client implements WriteQueue. *)
WQ == INSTANCE WriteQueue WITH
  queue <- [u \in Users |-> Writes(queue[u])],
  attempt <- [u \in Users |-> IF u = user THEN Len(down) ELSE 0],
  waiting <- {c.no : c \in callbacks}

(* Every step of the client and the service is one of WriteQueue's, or     *)
(* changes nothing it speaks of.                                           *)
ImplementsWriteQueue == WQ!Spec

(* While an account stays signed in and the network enabled, each of its   *)
(* writes is in the end committed or refused and leaves the disk, however  *)
(* often connections fail and the process dies.                            *)
QueueDrains == []<>(~enabled \/ queue[user] = <<>>)
=============================================================================
