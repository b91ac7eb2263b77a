---------------------------- MODULE DocumentReads ----------------------------
(***************************************************************************)
(* How the Firestore client answers getDocument: a listener for one event, *)
(* SyncEngine's view of the document, RemoteStore's targets, the watch     *)
(* stream under them with WatchChangeAggregator, and OnlineStateTracker,   *)
(* which says when to wait no longer and to answer from the cache.  All of *)
(* it runs on one worker queue, so a task is one action; timers,           *)
(* credentials, the service's messages and the user's executor are tasks   *)
(* of their own.                                                           *)
(***************************************************************************)
EXTENDS Integers, Sequences, FiniteSets

CONSTANTS
  Docs,          \* the documents; each is a query and a target of its own
  MaxGets,       \* bound: calls of getDocument
  MaxVersion     \* bound: versions of a document; 0 is its absence

ASSUME BoundsAssumption == MaxGets \in Nat /\ MaxVersion \in Nat

Gets == 1..MaxGets
Versions == 0..MaxVersion

VARIABLES
  server,       \* the service's version of each document
  cache,        \* local_store_: the version on disk, 0 for absent or unknown
  since,        \* history: the service's version when the document's listen was made
  doc,          \* the document of each call made so far
  told,         \* how often each caller was called back
  listeners,    \* queries_: the calls listening to each document
  raised,       \* the calls whose raised_initial_event_ is set
  events,       \* dispatched to the user's executor
  muted,        \* muted_
  removing,     \* RemoveQueryListener is enqueued
  current,      \* View::current_ of the document's view
  targets,      \* listen_targets_
  stream,       \* the watch stream's state_; Open stands for Healthy as well
  idle,         \* its idleness_timer_ is running
  online,       \* OnlineStateTracker: state_
  failures,     \* watch_stream_failures_, of which one is the most that counts
  timer,        \* online_state_timer_ is running
  outstanding,  \* TargetState: outstanding_responses_
  isCurrent,    \* TargetState: current_
  pending,      \* TargetState: has_pending_changes_
  update,       \* pending_document_updates_, 0 for none
  up,           \* requests the service has not handled, by target
  down,         \* its messages not yet read
  watched,      \* service: the targets of this stream
  failed        \* a HARD_ASSERT failed

documents == <<server, cache, since>>
callers == <<doc, told, muted, removing>>
raising == <<raised, events>>
tracker == <<online, failures, timer>>
aggregator == <<outstanding, isCurrent, pending, update>>
wire == <<up, down, watched>>
vars == <<documents, callers, raising, listeners, current, targets, stream, idle,
          tracker, aggregator, wire, failed>>

(* A snapshot in sync; one from the cache; one from the cache without the  *)
(* document, which is an error for the caller; and the listen's own error. *)
Event == {"server", "cache", "missing", "refused"}
Message == [type : {"added", "removed", "update", "snapshot"}, doc : Docs, version : Versions]

(* The types of the variables. *)
TypeOK ==
  /\ server \in [Docs -> Versions] /\ cache \in [Docs -> Versions]
  /\ since \in [Docs -> Versions]
  /\ doc \in Seq(Docs) /\ Len(doc) <= MaxGets
  /\ told \in [Gets -> Nat]
  /\ listeners \in [Docs -> SUBSET DOMAIN doc]
  /\ raised \subseteq Gets /\ muted \subseteq Gets /\ removing \subseteq Gets
  /\ events \in [Gets -> Seq(Event)]
  /\ current \in [Docs -> BOOLEAN]
  /\ targets \subseteq Docs
  /\ stream \in {"Initial", "Starting", "Open", "Error", "Backoff"}
  /\ idle \in BOOLEAN /\ timer \in BOOLEAN
  /\ online \in {"Unknown", "Online", "Offline"}
  /\ failures \in 0..1
  /\ outstanding \in [Docs -> Nat]
  /\ isCurrent \in [Docs -> BOOLEAN] /\ pending \in [Docs -> BOOLEAN]
  /\ update \in [Docs -> Versions]
  /\ up \in [Docs -> Seq({"watch", "unwatch"})]
  /\ down \in Seq(Message)
  /\ watched \subseteq Docs
  /\ failed \in BOOLEAN

Init ==
  /\ server \in [Docs -> {0, 1} \cap Versions]
  /\ cache \in [Docs -> Versions] /\ \A d \in Docs : cache[d] \in {0, server[d]}
  /\ since = [d \in Docs |-> 0]
  /\ doc = <<>> /\ told = [g \in Gets |-> 0] /\ events = [g \in Gets |-> <<>>]
  /\ listeners = [d \in Docs |-> {}]
  /\ raised = {} /\ muted = {} /\ removing = {}
  /\ current = [d \in Docs |-> FALSE] /\ targets = {}
  /\ stream = "Initial" /\ idle = FALSE
  /\ online = "Unknown" /\ failures = 0 /\ timer = FALSE
  /\ outstanding = [d \in Docs |-> 0] /\ isCurrent = [d \in Docs |-> FALSE]
  /\ pending = [d \in Docs |-> FALSE] /\ update = [d \in Docs |-> 0]
  /\ up = [d \in Docs |-> <<>>] /\ down = <<>> /\ watched = {}
  /\ failed = FALSE

(* A task runs only if its HARD_ASSERTs hold; one that fails ends it all. *)
HardAssert(cond, Task) ==
  \/ cond /\ Task /\ UNCHANGED failed
  \/ /\ ~cond /\ failed' = TRUE
     /\ UNCHANGED <<documents, callers, raising, listeners, current, targets,
                    stream, idle, tracker, aggregator, wire>>
-----------------------------------------------------------------------------
(* OnlineStateTracker *)

UpdateState(state) == online' = state /\ failures' = 0 /\ timer' = FALSE

(* HandleWatchStreamStart, and its HARD_ASSERT. *)
NoTimerYet == failures = 0 => ~timer
HandleWatchStreamStart ==
  IF failures = 0 THEN online' = "Unknown" /\ timer' = TRUE /\ UNCHANGED failures
                  ELSE UNCHANGED tracker

(* HandleWatchStreamFailure, then the HandleWatchStreamStart of a retry. *)
HandleWatchStreamFailure ==
  IF online = "Online" THEN online' = "Unknown" /\ timer' = TRUE /\ UNCHANGED failures
                       ELSE online' = "Offline" /\ timer' = FALSE /\ failures' = 1
-----------------------------------------------------------------------------
(* Events *)

RaisesOnChange(g, d) ==   \* mutant: a later listener is not shown the view as it is
  /\ g \in listeners'[d]
  /\ \/ cache'[d] # cache[d] \/ current'[d] # current[d]
     \/ online' = "Offline" /\ (online # "Offline" \/ listeners[d] = {})

(* What the task has to raise once it has changed the other variables: a   *)
(* first event when the view is in sync or the client offline, and one     *)
(* more whenever the view changes (OnViewSnapshot, OnOnlineStateChanged).  *)
Raises(g, d) ==
  /\ g \in listeners'[d]
  /\ IF g \in raised THEN cache'[d] # cache[d] \/ current'[d] # current[d]
                     ELSE current'[d] \/ online' = "Offline"
Snapshot(d) == IF current'[d] THEN "server"
               ELSE IF cache'[d] = 0 THEN "missing" ELSE "cache"

(* Two events under way are enough to see a caller told twice; those for a *)
(* muted listener would be dropped.                                        *)
Dispatch(g, event) == IF g \in muted \/ Len(events[g]) = 2 THEN events[g]
                      ELSE Append(events[g], event)
RaiseEvents ==
  LET to == {g \in DOMAIN doc' : Raises(g, doc'[g])}
  IN  /\ raised' = raised \cup to
      /\ events' = [g \in Gets |-> IF g \in to THEN Dispatch(g, Snapshot(doc'[g]))
                                               ELSE events[g]]

(* View::ApplyOnlineStateChange: no view is in sync while offline. *)
ViewsFollowOnline ==
  current' = IF online' = "Offline" THEN [d \in Docs |-> FALSE] ELSE current
-----------------------------------------------------------------------------
(* The stream *)

IsStarted == stream \in {"Starting", "Backoff", "Open"}

(* At once after a graceful stop, after a delay after an error. *)
StartWatchStream ==
  /\ stream' = IF stream = "Error" THEN "Backoff" ELSE "Starting"
  /\ HandleWatchStreamStart

KeepsMessages ==   \* mutant: messages of the last call are still delivered
  /\ outstanding' = [d \in Docs |-> 0] /\ isCurrent' = [d \in Docs |-> FALSE]
  /\ pending' = [d \in Docs |-> FALSE] /\ update' = [d \in Docs |-> 0]
  /\ up' = [d \in Docs |-> <<>>] /\ watched' = {} /\ UNCHANGED down

(* Without a connection there are no aggregator and no messages. *)
Disconnected ==
  /\ outstanding' = [d \in Docs |-> 0] /\ isCurrent' = [d \in Docs |-> FALSE]
  /\ pending' = [d \in Docs |-> FALSE] /\ update' = [d \in Docs |-> 0]
  /\ up' = [d \in Docs |-> <<>>] /\ down' = <<>> /\ watched' = {}

SendUnrecorded(request, d) ==   \* mutant: RecordPendingTargetRequest is not called
  /\ up' = [up EXCEPT ![d] = Append(@, request)]
  /\ UNCHANGED <<aggregator, down, watched>>

(* SendWatchRequest, SendUnwatchRequest: an answer is due. *)
Send(request, d) ==
  /\ outstanding' = [outstanding EXCEPT ![d] = @ + 1]
  /\ up' = [up EXCEPT ![d] = Append(@, request)]
  /\ UNCHANGED <<isCurrent, pending, update, down, watched>>
-----------------------------------------------------------------------------
(* Callers *)

ListenWhileIdle(d) ==   \* mutant: a request does not cancel the idleness timer
  /\ targets' = targets \cup {d}
  /\ since' = [since EXCEPT ![d] = server[d]]
  /\ \/ ~IsStarted /\ StartWatchStream /\ UNCHANGED <<idle, aggregator, wire>>
     \/ /\ IsStarted /\ UNCHANGED <<stream, tracker, idle>>
        /\ IF stream = "Open" THEN Send("watch", d) ELSE UNCHANGED <<aggregator, wire>>

(* SyncEngine::Listen, RemoteStore::Listen *)
Listen(d) ==
  /\ targets' = targets \cup {d}
  /\ since' = [since EXCEPT ![d] = server[d]]
  /\ \/ ~IsStarted /\ StartWatchStream /\ UNCHANGED <<idle, aggregator, wire>>
     \/ /\ IsStarted /\ UNCHANGED <<stream, tracker>>
        /\ IF stream = "Open" THEN Send("watch", d) /\ idle' = FALSE
                              ELSE UNCHANGED <<idle, aggregator, wire>>

(* AddQueryListener: the first listener of a document makes it a target; a *)
(* later one takes the view as it is.                                      *)
GetDocument(d) ==
  LET first == listeners[d] = {}
  IN  /\ Len(doc) < MaxGets
      /\ HardAssert(first /\ ~IsStarted => NoTimerYet,
           /\ doc' = Append(doc, d)
           /\ listeners' = [listeners EXCEPT ![d] = @ \cup {Len(doc) + 1}]
           /\ IF first THEN Listen(d)
              ELSE UNCHANGED <<since, targets, stream, idle, tracker, aggregator, wire>>
           /\ UNCHANGED <<server, cache, told, muted, removing, current>>
           /\ RaiseEvents)

HandleUnmuted(g) ==   \* mutant: Remove does not mute
  /\ events[g] # <<>>
  /\ events' = [events EXCEPT ![g] = Tail(@)]
  /\ told' = [told EXCEPT ![g] = IF @ = 2 THEN 2 ELSE @ + 1]
  /\ removing' = IF Head(events[g]) = "refused" THEN removing ELSE removing \cup {g}
  /\ UNCHANGED <<documents, doc, muted, raised, listeners, current, targets, stream,
                 idle, tracker, aggregator, wire, failed>>

(* AsyncEventListener, ListenOnce: the first event mutes the listener and  *)
(* has it removed; an error does neither, but has no successor.            *)
HandleEvent(g) ==
  /\ events[g] # <<>>
  /\ events' = [events EXCEPT ![g] = Tail(@)]
  /\ told' = IF g \in muted THEN told ELSE [told EXCEPT ![g] = @ + 1]
  /\ IF g \in muted \/ Head(events[g]) = "refused" THEN UNCHANGED <<muted, removing>>
     ELSE muted' = muted \cup {g} /\ removing' = removing \cup {g}
  /\ UNCHANGED <<documents, doc, raised, listeners, current, targets, stream, idle,
                 tracker, aggregator, wire, failed>>

(* RemoveQueryListener; the last one stops listening. *)
RemoveListener(g) ==
  LET d == doc[g]
      last == listeners[d] = {g}
  IN  /\ g \in removing
      /\ HardAssert(last => d \in targets,
           /\ removing' = removing \ {g}
           /\ listeners' = [listeners EXCEPT ![d] = @ \ {g}]
           /\ targets' = IF last THEN targets \ {d} ELSE targets
           /\ current' = [current EXCEPT ![d] = @ /\ ~last]
           /\ since' = IF last THEN [since EXCEPT ![d] = 0] ELSE since
           /\ IF last /\ stream = "Open" THEN Send("unwatch", d) /\ idle' = (targets' = {})
                                         ELSE UNCHANGED <<idle, aggregator, wire>>
           /\ IF last /\ stream # "Open" /\ targets' = {} THEN UpdateState("Unknown")
                                                          ELSE UNCHANGED tracker
           /\ UNCHANGED <<server, cache, doc, told, muted, raising, stream>>)
-----------------------------------------------------------------------------
(* The connection *)

(* RestartNetwork: connectivity or the account has changed. *)
RestartNetwork ==
  /\ online' = "Unknown" /\ failures' = 0 /\ timer' = (targets # {})
  /\ stream' = IF targets # {} THEN "Starting" ELSE "Initial"
  /\ idle' = FALSE
  /\ Disconnected
  /\ UNCHANGED <<documents, callers, raising, listeners, current, targets, failed>>

(* OnWatchStreamOpen: every target is asked for again. *)
CredentialsArrive ==
  /\ stream = "Starting" /\ stream' = "Open"
  /\ outstanding' = [d \in Docs |-> IF d \in targets THEN 1 ELSE 0]
  /\ up' = [d \in Docs |-> IF d \in targets THEN <<"watch">> ELSE <<>>]
  /\ UNCHANGED <<documents, callers, raising, listeners, current, targets, idle,
                 tracker, isCurrent, pending, update, down, watched, failed>>

(* OnWatchStreamClose with an error: without credentials or a connection. *)
StreamFails ==
  /\ stream \in {"Starting", "Open"}
  /\ HardAssert(online = "Online" /\ targets # {} => failures = 0 /\ ~timer,
       /\ IF targets # {} THEN HandleWatchStreamFailure /\ stream' = "Backoff"
                          ELSE UpdateState("Unknown") /\ stream' = "Error"
       /\ idle' = FALSE
       /\ Disconnected
       /\ ViewsFollowOnline
       /\ UNCHANGED <<documents, callers, listeners, targets>>
       /\ RaiseEvents)

BackoffElapses ==
  /\ stream = "Backoff" /\ stream' = "Starting"
  /\ UNCHANGED <<documents, callers, raising, listeners, current, targets, idle,
                 tracker, aggregator, wire, failed>>

(* The idleness timer: a graceful stop, which must be desirable. *)
IdleTimeout ==
  /\ idle
  /\ HardAssert(targets = {},
       /\ stream' = "Initial" /\ idle' = FALSE
       /\ UpdateState("Unknown")
       /\ Disconnected
       /\ UNCHANGED <<documents, callers, raising, listeners, current, targets>>)

OnlineStateTimeout ==
  /\ timer
  /\ HardAssert(online = "Unknown",
       /\ online' = "Offline" /\ timer' = FALSE /\ UNCHANGED failures
       /\ ViewsFollowOnline
       /\ UNCHANGED <<documents, callers, listeners, targets, stream, idle,
                      aggregator, wire>>
       /\ RaiseEvents)
-----------------------------------------------------------------------------
(* OnWatchStreamChange: any message puts the client online. *)

IsActive(d) == outstanding[d] = 0 /\ d \in targets

(* HandleTargetChange: a target whose requests are all answered starts     *)
(* afresh; one that is removed is forgotten.                               *)
ReadAnswer(d, removed) ==
  /\ outstanding' = [outstanding EXCEPT ![d] = @ - 1]
  /\ pending' = [pending EXCEPT ![d] = @ /\ outstanding[d] # 1]
  /\ isCurrent' = [isCurrent EXCEPT ![d] = @ /\ ~(removed /\ outstanding[d] = 1)]
  /\ UNCHANGED <<update, cache, current>>

(* HandleDocumentChange, HandleTargetChange: what the service says of a    *)
(* target counts only while it is active.                                  *)
ReadUpdate(d, v) ==
  /\ IF IsActive(d)
     THEN /\ pending' = [pending EXCEPT ![d] = TRUE]
          /\ isCurrent' = [isCurrent EXCEPT ![d] = TRUE]
          /\ update' = [update EXCEPT ![d] = v]
     ELSE UNCHANGED <<pending, isCurrent, update>>
  /\ UNCHANGED <<outstanding, cache, current>>

(* RaiseWatchSnapshot: updates reach the cache, and the active targets'    *)
(* changes their views.                                                    *)
ReadSnapshot ==
  /\ cache' = [d \in Docs |-> IF update[d] > cache[d] THEN update[d] ELSE cache[d]]
  /\ current' = [d \in Docs |-> IF IsActive(d) /\ pending[d] THEN isCurrent[d]
                                                             ELSE current[d]]
  /\ pending' = [d \in Docs |-> pending[d] /\ ~IsActive(d)]
  /\ update' = [d \in Docs |-> 0]
  /\ UNCHANGED <<outstanding, isCurrent>>

OnWatchStreamChange ==
  /\ stream = "Open" /\ down # <<>>
  /\ LET m == Head(down)
     IN  \/ m.type \in {"added", "removed"} /\ ReadAnswer(m.doc, m.type = "removed")
         \/ m.type = "update" /\ ReadUpdate(m.doc, m.version)
         \/ m.type = "snapshot" /\ ReadSnapshot
  /\ down' = Tail(down)
  /\ UpdateState("Online")
  /\ UNCHANGED <<server, since, callers, listeners, targets, stream, idle, up,
                 watched, failed>>
  /\ RaiseEvents

(* The answers to requests for a target that are on their way. *)
Answers(d) ==
  {i \in 1..Len(down) : down[i].type \in {"added", "removed"} /\ down[i].doc = d}

(* ProcessTargetError, HandleRejectedListen: every listener is told.  The  *)
(* refusal is read at once: how the service answers an unwatch that        *)
(* crosses it is not known here.                                           *)
ListenRefused(d) ==
  /\ stream = "Open" /\ up[d] = <<"watch">> /\ Answers(d) = {}
  /\ targets' = targets \ {d}
  /\ listeners' = [listeners EXCEPT ![d] = {}]
  /\ events' = [g \in Gets |-> IF g \in listeners[d] THEN Dispatch(g, "refused")
                                                     ELSE events[g]]
  /\ current' = [current EXCEPT ![d] = FALSE]
  /\ outstanding' = [outstanding EXCEPT ![d] = 0]
  /\ pending' = [pending EXCEPT ![d] = FALSE]
  /\ isCurrent' = [isCurrent EXCEPT ![d] = FALSE]
  /\ up' = [up EXCEPT ![d] = <<>>]
  /\ UpdateState("Online")
  /\ since' = [since EXCEPT ![d] = 0]
  /\ UNCHANGED <<server, cache, callers, raised, stream, idle, update, down, watched, failed>>
-----------------------------------------------------------------------------
(* The service, as the client relies on it *)

Say(type, d) ==
  [type |-> type, doc |-> d, version |-> IF type = "update" THEN server'[d] ELSE 0]

(* It answers the requests for a target in order.  A watch brings the      *)
(* document, if it exists, that the target is current, and a consistent    *)
(* snapshot of all targets.                                                *)
ServiceAnswers(d) ==
  /\ up[d] # <<>>
  /\ up' = [up EXCEPT ![d] = Tail(@)]
  /\ UNCHANGED server
  /\ IF Head(up[d]) = "watch"
     THEN /\ watched' = watched \cup {d}
          /\ down' = down \o <<Say("added", d), Say("update", d), Say("snapshot", d)>>
     ELSE /\ watched' = watched \ {d}
          /\ down' = Append(down, Say("removed", d))
  /\ UNCHANGED <<cache, since, callers, raising, listeners, current, targets, stream,
                 idle, tracker, aggregator, failed>>

(* Somebody writes the document; a stream that watches it is told. *)
DocumentChanges(d) ==
  /\ server[d] < MaxVersion
  /\ server' = [server EXCEPT ![d] = @ + 1]
  /\ down' = IF d \in watched THEN down \o <<Say("update", d), Say("snapshot", d)>> ELSE down
  /\ UNCHANGED <<cache, since, callers, raising, listeners, current, targets, stream,
                 idle, tracker, aggregator, up, watched, failed>>
-----------------------------------------------------------------------------
Callers ==
  \/ \E d \in Docs : GetDocument(d)
  \/ \E g \in Gets : HandleEvent(g) \/ RemoveListener(g)
Client ==
  \/ RestartNetwork \/ CredentialsArrive \/ StreamFails \/ BackoffElapses
  \/ IdleTimeout \/ OnlineStateTimeout \/ OnWatchStreamChange
Service ==
  \E d \in Docs : ServiceAnswers(d) \/ ListenRefused(d) \/ DocumentChanges(d)

Next == ~failed /\ (Callers \/ Client \/ Service)

Fairness ==
  /\ \A g \in Gets : WF_vars(HandleEvent(g)) /\ WF_vars(RemoveListener(g))
  /\ WF_vars(BackoffElapses) /\ WF_vars(OnlineStateTimeout)
  /\ SF_vars(CredentialsArrive)
  /\ \A type \in {"added", "removed", "update", "snapshot"} :
       SF_vars(OnWatchStreamChange /\ Head(down).type = type)
  /\ \A d \in Docs : SF_vars(ServiceAnswers(d) \/ ListenRefused(d))

Spec == Init /\ [][Next]_vars
FairSpec == Spec /\ Fairness
-----------------------------------------------------------------------------
(* A caller is called back at most once, although its listener goes on     *)
(* receiving events until the task that removes it has run: ListenOnce     *)
(* takes its registration from a promise, which a second event would find  *)
(* taken.                                                                  *)
ToldOnce == \A g \in Gets : told[g] <= 1

(* A view in sync is no older than the document was when the client began  *)
(* to listen to it, whatever the stream still had to say of an earlier     *)
(* listen to the same document: answers are counted per target so that     *)
(* what belongs to a listen given up is not taken for the new one.         *)
InSyncIsFresh == \A d \in Docs : current[d] => cache[d] >= since[d]

(* No HARD_ASSERT fails: the online state's timer is never started twice   *)
(* and never goes off when the state is known, a stream that is needed     *)
(* never idles out, and what is stopped was listened to.                   *)
NoAssertFails == ~failed

(* Every caller of getDocument hears something in the end. *)
EveryGetAnswered == []<>(\A g \in DOMAIN doc : told[g] > 0)

(* A state that is not known becomes known within the timeout: while a     *)
(* stream is open for a document and nothing has come from it, the timer   *)
(* that ends the wait is running.                                          *)
UnknownIsTimed ==
  online = "Unknown" /\ targets # {} /\ stream = "Open" => timer
=============================================================================
