------------------------------ MODULE SyncQueue ------------------------------
(***************************************************************************)
(* The client's durable queue of mutations made offline, and its replay by *)
(* SyncService.sync(): mutation_queue_storage.dart, queued_mutation.dart,  *)
(* sync_service.dart and the queueing half of offline_interceptor.dart.    *)
(*                                                                         *)
(* A pass is one call of sync().  Its steps are the points where it awaits: *)
(* the reads of the session, and one request per mutation.  Requests may   *)
(* be lost, answered in vain, or arrive after the client gave them up; the *)
(* app may be killed at any time, which keeps the stored queue only.  The  *)
(* server is the idempotent backend, each request one transaction.         *)
(***************************************************************************)
EXTENDS Naturals

CONSTANTS
    Mutation,  \* queued requests, one idempotency key each
    Pass,      \* calls of sync() that may run at the same time
    Direct,    \* sender of the request before it was queued
    None,
    Parent,    \* the create that dependsOnTempOrderId names, or None
    OrderOf,   \* the order a mutation is about
    Closing,   \* the mutations that close their order
    MaxRetry   \* retryCount of a permanent failure; 5 in the code

ASSUME SyncAssumption ==
    /\ Direct \notin Pass
    /\ None \notin Mutation
    /\ Parent \in [Mutation -> Mutation \cup {None}]
    /\ \A m \in Mutation : Parent[m] # None => OrderOf[m] = OrderOf[Parent[m]]
    /\ Closing \subseteq Mutation
    /\ MaxRetry \in Nat \ {0}

VARIABLES
    status,   \* MutationStatus; "new" before it is queued, "removed" after
    before,   \* createdAt: the pairs of mutations queued one before the other
    retry,    \* retryCount, no further than MaxRetry
    due,      \* is nextAttemptAt absent or past?
    syncing,  \* _isSyncing
    pc,       \* step of each pass
    todo,     \* what is left of the pass's copy of the queue
    current,  \* the entry it has sent, or None
    known,    \* activeTempOrders: creates this pass has seen accepted
    answer,   \* the answer that has reached the pass
    wire,     \* requests that may still reach the server, with their sender
    applied,  \* how often the server has executed a mutation
    stored,   \* mutations whose key the server has stored
    steady    \* requests are answered and the app is left running

client == <<status, before, retry, due>>
passes == <<syncing, pc, todo, current, known, answer>>
server == <<applied, stored>>
vars == <<client, passes, wire, server, steady>>

Entry == [id : Mutation, retry : 0..MaxRetry, due : BOOLEAN]

TypeOK ==
    /\ status \in [Mutation -> {"new", "pending", "syncing", "failed", "removed"}]
    /\ before \subseteq Mutation \X Mutation
    /\ retry \in [Mutation -> 0..MaxRetry]
    /\ due \in [Mutation -> BOOLEAN]
    /\ syncing \in BOOLEAN
    /\ pc \in [Pass -> {"idle", "load", "next", "wait"}]
    /\ todo \in [Pass -> SUBSET Entry]
    /\ current \in [Pass -> Entry \cup {None}]
    /\ known \in [Pass -> SUBSET Mutation]
    /\ answer \in [Pass -> {"none", "ok", "refused"}]
    /\ wire \subseteq Mutation \X (Pass \cup {Direct})
    /\ applied \in [Mutation -> Nat]
    /\ stored \subseteq Mutation
    /\ steady \in BOOLEAN

Init ==
    /\ status = [m \in Mutation |-> "new"]
    /\ before = {}
    /\ retry = [m \in Mutation |-> 0]
    /\ due = [m \in Mutation |-> TRUE]
    /\ syncing = FALSE
    /\ pc = [p \in Pass |-> "idle"]
    /\ todo = [p \in Pass |-> {}]
    /\ current = [p \in Pass |-> None]
    /\ known = [p \in Pass |-> {}]
    /\ answer = [p \in Pass |-> "none"]
    /\ wire = {}
    /\ applied = [m \in Mutation |-> 0]
    /\ stored = {}
    /\ steady = TRUE

-----------------------------------------------------------------------------
(* The stored queue *)

UpdateRemoved(m, s, n, d) ==  \* mutant: the entry is written without looking for it
    /\ status' = [status EXCEPT ![m] = s]
    /\ retry' = [retry EXCEPT ![m] = n]
    /\ due' = [due EXCEPT ![m] = d]
    /\ UNCHANGED before
\* updateStatus: nothing happens once the mutation has been removed.
Update(m, s, n, d) ==
    IF status[m] = "removed" THEN UNCHANGED client
    ELSE /\ status' = [status EXCEPT ![m] = s]
         /\ retry' = [retry EXCEPT ![m] = n]
         /\ due' = [due EXCEPT ![m] = d]
         /\ UNCHANGED before

Discard(m) ==
    /\ status' = [status EXCEPT ![m] = "removed"]
    /\ UNCHANGED <<before, retry, due>>

\* getPendingFor, failed mutations included.
Pending == {m \in Mutation : status[m] \in {"pending", "failed"}}

\* A call failed for want of a network and is queued.  It may have left all the
\* same; under a temporary id the server does not know its order.
Enqueue(m) ==
    /\ ~steady
    /\ status[m] = "new"
    /\ Parent[m] # None => status[Parent[m]] # "new"
    /\ status' = [status EXCEPT ![m] = "pending"]
    /\ before' = before \cup {<<n, m>> : n \in {x \in Mutation : status[x] # "new"}}
    /\ \/ UNCHANGED wire
       \/ Parent[m] = None /\ wire' = wire \cup {<<m, Direct>>}
    /\ UNCHANGED <<retry, due, passes, server, steady>>

\* The back-off of a mutation ends.
Elapse(m) ==
    /\ ~due[m]
    /\ due' = [due EXCEPT ![m] = TRUE]
    /\ UNCHANGED <<status, before, retry, passes, wire, server, steady>>

RecoverNothing == UNCHANGED status  \* mutant: no _recoverState
Recover == status' = [m \in Mutation |-> IF status[m] = "syncing" THEN "pending" ELSE status[m]]

\* The app is killed and started again.
Restart ==
    /\ ~steady
    /\ Recover
    /\ syncing' = FALSE
    /\ pc' = [p \in Pass |-> "idle"]
    /\ todo' = [p \in Pass |-> {}]
    /\ current' = [p \in Pass |-> None]
    /\ known' = [p \in Pass |-> {}]
    /\ answer' = [p \in Pass |-> "none"]
    /\ UNCHANGED <<before, retry, due, wire, server, steady>>

-----------------------------------------------------------------------------
(* sync() *)

At(p, step) == pc[p] = step
Goto(p, step) == pc' = [pc EXCEPT ![p] = step]

\* The user asks for it, on the dashboard.  _isSyncing is looked at here and set after the session has been read.
Begin(p) ==
    /\ At(p, "idle") /\ ~syncing
    /\ Goto(p, "load")
    /\ UNCHANGED <<client, syncing, todo, current, known, answer, wire, server, steady>>

Load(p) ==
    /\ At(p, "load")
    /\ IF Pending = {}
       THEN Goto(p, "idle") /\ UNCHANGED <<syncing, todo>>
       ELSE /\ Goto(p, "next")
            /\ syncing' = TRUE
            /\ todo' = [todo EXCEPT ![p] =
                   {[id |-> m, retry |-> retry[m], due |-> due[m]] : m \in Pending}]
    /\ UNCHANGED <<client, current, known, answer, wire, server, steady>>

\* The mutation the loop comes to next.
Oldest(p) == {e \in todo[p] : \A f \in todo[p] \ {e} : <<e.id, f.id>> \in before}

\* A dependent mutation is sent in the pass that has sent its parent, only then.
KnowsAnyOrder(p, m) == TRUE  \* mutant: dependsOnTempOrderId is ignored
KnowsOrder(p, m) == Parent[m] \in known[p] \cup {None}

Take(p, e) == todo' = [todo EXCEPT ![p] = @ \ {e}]

Skip(p, e) ==
    /\ ~e.due
    /\ Take(p, e)
    /\ UNCHANGED <<client, syncing, pc, current, known, answer, wire, server, steady>>

PassOver(p, e) ==
    /\ e.due /\ ~KnowsOrder(p, e.id)
    /\ IF status[Parent[e.id]] = "failed" /\ retry[Parent[e.id]] = MaxRetry
       THEN Update(e.id, "failed", retry[e.id], due[e.id])
       ELSE UNCHANGED client
    /\ Take(p, e)
    /\ UNCHANGED <<syncing, pc, current, known, answer, wire, server, steady>>

Send(p, e) ==
    /\ e.due /\ KnowsOrder(p, e.id)
    /\ Update(e.id, "syncing", retry[e.id], due[e.id])
    /\ wire' = wire \cup {<<e.id, p>>}
    /\ Take(p, e)
    /\ current' = [current EXCEPT ![p] = e]
    /\ Goto(p, "wait")
    /\ UNCHANGED <<syncing, known, answer, server, steady>>

Iterate(p) ==
    /\ At(p, "next")
    /\ \E e \in Oldest(p) : Skip(p, e) \/ PassOver(p, e) \/ Send(p, e)

\* The loop goes on with the next mutation.
Continue(p) ==
    /\ Goto(p, "next")
    /\ current' = [current EXCEPT ![p] = None]
    /\ answer' = [answer EXCEPT ![p] = "none"]
    /\ UNCHANGED <<syncing, todo>>

\* The loop is left, and _isSyncing reset.
Leave(p) ==
    /\ Goto(p, "idle")
    /\ syncing' = FALSE
    /\ todo' = [todo EXCEPT ![p] = {}]
    /\ current' = [current EXCEPT ![p] = None]
    /\ known' = [known EXCEPT ![p] = {}]
    /\ answer' = [answer EXCEPT ![p] = "none"]

\* 2xx: the mutation leaves the queue, and its dependents know the real id.
Accepted(p) ==
    LET m == current[p].id IN
    /\ At(p, "wait") /\ answer[p] = "ok"
    /\ Discard(m)
    /\ known' = [known EXCEPT ![p] = @ \cup {m}]
    /\ Continue(p)
    /\ UNCHANGED <<wire, server, steady>>

Attempts(p) == current[p].retry + 1
AtMost(n) == IF n > MaxRetry THEN MaxRetry ELSE n

\* 400, 404, 409 and 422: failed, and the next mutation is sent.
DropRefused(p) ==  \* mutant: a refused mutation is removed
    /\ At(p, "wait") /\ answer[p] = "refused"
    /\ Discard(current[p].id)
    /\ Continue(p)
    /\ UNCHANGED <<known, wire, server, steady>>
Refused(p) ==
    LET m == current[p].id IN
    /\ At(p, "wait") /\ answer[p] = "refused"
    /\ Update(m, "failed", AtMost(Attempts(p)), due[m])
    /\ Continue(p)
    /\ UNCHANGED <<known, wire, server, steady>>

\* The network fails, the answer is 401 or 5xx, or none comes before the timeout:
\* back off and leave the loop, or fail for good and go on.
GiveUp(p) ==
    LET m == current[p].id IN
    /\ At(p, "wait")
    /\ ~steady \/ (answer[p] = "none" /\ <<m, p>> \notin wire)
    /\ \/ /\ Attempts(p) < MaxRetry
          /\ Update(m, "pending", Attempts(p), FALSE)
          /\ Leave(p)
       \/ /\ Attempts(p) >= MaxRetry
          /\ Update(m, "failed", MaxRetry, due[m])
          /\ Continue(p)
          /\ UNCHANGED known
    /\ UNCHANGED <<wire, server, steady>>

Finish(p) ==
    /\ At(p, "next") /\ todo[p] = {}
    /\ Leave(p)
    /\ UNCHANGED <<client, wire, server, steady>>

-----------------------------------------------------------------------------
(* The network and the server *)

\* The answer to a request reaches the pass that still waits for it.
Answer(m, s, a) ==
    IF s \in Pass /\ At(s, "wait") /\ current[s].id = m
    THEN \/ answer' = [answer EXCEPT ![s] = a]
         \/ ~steady /\ UNCHANGED answer
    ELSE UNCHANGED answer

OrderClosed(m) == \E n \in Closing \ {m} : OrderOf[n] = OrderOf[m] /\ applied[n] > 0

\* One transaction changes the order and stores the key.
ExecuteOnly(m) ==  \* mutant: the key is not stored
    /\ applied' = [applied EXCEPT ![m] = @ + 1]
    /\ UNCHANGED stored
Execute(m) ==
    /\ applied' = [applied EXCEPT ![m] = @ + 1]
    /\ stored' = stored \cup {m}

\* A known key is answered from its row.  Another request may be refused
\* whatever it asks, as other users change the order too.
Serve(m, s) ==
    /\ <<m, s>> \in wire
    /\ \/ m \in stored /\ Answer(m, s, "ok") /\ UNCHANGED server
       \/ m \notin stored /\ ~OrderClosed(m) /\ Execute(m) /\ Answer(m, s, "ok")
       \/ m \notin stored /\ Answer(m, s, "refused") /\ UNCHANGED server
    /\ wire' = wire \ {<<m, s>>}
    /\ UNCHANGED <<client, syncing, pc, todo, current, known, steady>>

Lose(m, s) ==
    /\ ~steady
    /\ <<m, s>> \in wire
    /\ wire' = wire \ {<<m, s>>}
    /\ UNCHANGED <<client, passes, server, steady>>

Weather ==
    /\ steady' = ~steady
    /\ UNCHANGED <<client, passes, wire, server>>

-----------------------------------------------------------------------------
PassGoesOn(p) == \/ Load(p) \/ Iterate(p)
                 \/ Accepted(p) \/ Refused(p) \/ GiveUp(p) \/ Finish(p)

PassStep(p) == Begin(p) \/ PassGoesOn(p)

Senders == Pass \cup {Direct}

Next ==
    \/ \E m \in Mutation : Enqueue(m) \/ Elapse(m)
    \/ \E p \in Pass : PassStep(p)
    \/ \E m \in Mutation, s \in Senders : Serve(m, s) \/ Lose(m, s)
    \/ Restart \/ Weather

Spec == Init /\ [][Next]_vars

\* The event loop runs on every pass that has begun, time passes, and a request in
\* the network arrives.  Nothing makes a pass begin but the user.
Fairness ==
    /\ \A p \in Pass : WF_vars(PassGoesOn(p))
    /\ \A m \in Mutation : WF_vars(Elapse(m))
    /\ \A m \in Mutation, s \in Senders : WF_vars(Serve(m, s))

FairSpec == Spec /\ Fairness

-----------------------------------------------------------------------------
(* What must hold *)

\* However often a mutation is sent, by passes that overlap, again after a lost
\* answer or a restart, or by a copy that arrives late, it takes effect once.
AppliedOnce == \A m \in Mutation : applied[m] <= 1

\* Nothing the user did disappears: what left the queue was executed.
NothingLost == \A m \in Mutation : status[m] = "removed" => applied[m] > 0

\* No request under way names an order the server does not have: a dependent
\* mutation leaves the client after its parent was accepted.
SentUnderRealId ==
    \A m \in Mutation, s \in Senders :
        <<m, s>> \in wire /\ Parent[m] # None => applied[Parent[m]] > 0

InQueue(m) == status[m] \in {"pending", "syncing"}

\* The user asks for another pass as long as none is running.
AskedFor == WF_vars(\E p \in Pass : Begin(p))

\* Once requests are answered and the app stays open, and as long as the user goes
\* on asking for it, a mutation that depends on no other leaves the queue or is
\* shown as failed.
IndependentDrain ==
    (<>[]steady /\ AskedFor) => \A m \in Mutation : Parent[m] = None => (InQueue(m) ~> ~InQueue(m))

\* The same for the mutations of an order created offline.
DependentDrain ==
    (<>[]steady /\ AskedFor) => \A m \in Mutation : Parent[m] # None => (InQueue(m) ~> ~InQueue(m))

-----------------------------------------------------------------------------
(* What the queue promises *)

\* What the user sees of a mutation.
Stage(m) == CASE status[m] = "new" -> "unseen"
              [] status[m] = "failed" -> "shown"
              [] status[m] = "removed" -> "gone"
              [] OTHER -> "kept"

Box == INSTANCE Outbox WITH
    stage <- [m \in Mutation |-> Stage(m)],
    done <- {m \in Mutation : applied[m] > 0}

\* However passes overlap, requests are lost, repeated or late and the app is killed,
\* the stored queue and the server together show a run of the outbox: a mutation
\* is kept until it has taken effect and stays removed, and it takes effect after its
\* parent and before its order is closed.
KeepsOutbox == Box!Spec
=============================================================================
