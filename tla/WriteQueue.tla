----------------------------- MODULE WriteQueue -----------------------------
(***************************************************************************)
(* What the Firestore client promises for a write, whatever happens to the *)
(* connection and to the process: a durable queue per signed-in user,      *)
(* committed by the service in its order and at least once, from which a   *)
(* write leaves only when the service has committed or refused it, and     *)
(* whose caller hears of it at most once and never of another's write.     *)
(* WritePipeline implements it.                                            *)
(***************************************************************************)
EXTENDS Naturals, Sequences

CONSTANT Users          \* the accounts that may be signed in on the device

VARIABLES
  written,    \* how many writes callers made; write n is the n-th
  queue,      \* user -> the writes not yet committed or refused, oldest first
  attempt,    \* user -> how many of them the present connection has committed
  value,      \* user -> the write the service committed last, 0 for none
  committed,  \* user -> the writes the service has committed
  waiting,    \* the writes whose caller is still to be told
  told        \* what callers were told: <<write, "ok" or "error">>

abstractVars == <<written, queue, attempt, value, committed, waiting, told>>

Init ==
  /\ written = 0
  /\ queue = [u \in Users |-> <<>>]
  /\ attempt = [u \in Users |-> 0]
  /\ value = [u \in Users |-> 0]
  /\ committed = [u \in Users |-> {}]
  /\ waiting = {}
  /\ told = {}

Tell(w, result) == IF w \in waiting THEN {<<w, result>>} ELSE {}

(* A caller's write is made durable behind those before it. *)
Enqueue(u) ==
  /\ written' = written + 1
  /\ queue' = [queue EXCEPT ![u] = Append(@, written + 1)]
  /\ waiting' = waiting \cup {written + 1}
  /\ UNCHANGED <<attempt, value, committed, told>>

(* The service commits the next write of the attempt. *)
Commit(u) ==
  /\ attempt[u] < Len(queue[u])
  /\ attempt' = [attempt EXCEPT ![u] = @ + 1]
  /\ value' = [value EXCEPT ![u] = queue[u][attempt[u] + 1]]
  /\ committed' = [committed EXCEPT ![u] = @ \cup {queue[u][attempt[u] + 1]}]
  /\ UNCHANGED <<written, queue, waiting, told>>

(* The oldest write is known to be committed: it leaves the queue. *)
Acknowledge(u) ==
  /\ attempt[u] > 0 /\ queue[u] # <<>>
  /\ queue' = [queue EXCEPT ![u] = Tail(@)]
  /\ attempt' = [attempt EXCEPT ![u] = @ - 1]
  /\ told' = told \cup Tell(Head(queue[u]), "ok")
  /\ waiting' = waiting \ {Head(queue[u])}
  /\ UNCHANGED <<written, value, committed>>

(* The oldest write was refused, and was never committed. *)
Refuse(u) ==
  /\ attempt[u] = 0 /\ queue[u] # <<>>
  /\ Head(queue[u]) \notin committed[u]
  /\ queue' = [queue EXCEPT ![u] = Tail(@)]
  /\ told' = told \cup Tell(Head(queue[u]), "error")
  /\ waiting' = waiting \ {Head(queue[u])}
  /\ UNCHANGED <<written, attempt, value, committed>>

(* The connection is lost: everything still queued will be sent again. *)
Retry(u) ==
  /\ attempt' = [attempt EXCEPT ![u] = 0]
  /\ UNCHANGED <<written, queue, value, committed, waiting, told>>

(* The process dies: callers are gone, one of them perhaps told just       *)
(* before its write left the queue.                                        *)
Restart ==
  /\ \/ UNCHANGED told
     \/ \E u \in Users : /\ attempt[u] > 0 /\ queue[u] # <<>>
                         /\ told' = told \cup Tell(Head(queue[u]), "ok")
  /\ waiting' = {}
  /\ attempt' = [u \in Users |-> 0]
  /\ UNCHANGED <<written, queue, value, committed>>

Next ==
  \/ \E u \in Users : Enqueue(u) \/ Commit(u)
                     \/ Acknowledge(u) \/ Refuse(u) \/ Retry(u)
  \/ Restart

Spec == Init /\ [][Next]_abstractVars
=============================================================================
