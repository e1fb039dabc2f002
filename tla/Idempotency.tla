---------------------------- MODULE Idempotency ----------------------------
(***************************************************************************)
(* The two protocols that make a repeated request harmless.                *)
(*                                                                         *)
(* "Reserving" calls (executeIdempotent of orders.controller.ts and of     *)
(* idempotency.utils.ts: create and settle an order, expenses, payments,   *)
(* purchases, stock, suppliers) insert their key first, in the transaction *)
(* that has the effect, and complete it there.  The others (status, items, *)
(* close) look the key up before the transaction and insert it at its end. *)
(*                                                                         *)
(* A client repeats a call until it is answered; a request it has given up *)
(* on may still be running.  A transaction that has inserted a key makes   *)
(* others that insert it wait, as the unique index of PostgreSQL does; on  *)
(* SQLite transactions run alone, which is one of these interleavings.     *)
(***************************************************************************)
EXTENDS Naturals

CONSTANTS
    Key,        \* values of X-Idempotency-Key
    Call,       \* what a client asks for: operation, target, user and body
    Req,        \* slots for requests being served at the same time
    NoCall,
    KeyOf,      \* the key each call is sent with
    BodyOf,     \* the body of each call
    Reserving,  \* the calls served by executeIdempotent
    Order,
    OrderOf,    \* the order of each settlement
    MaxFailures \* bound on the requests that die or time out

Settling == DOMAIN OrderOf

ASSUME IdempotencyAssumption ==
    /\ NoCall \notin Call
    /\ KeyOf \in [Call -> Key]
    /\ Reserving \subseteq Call
    /\ Settling \subseteq Reserving /\ OrderOf \in [Settling -> Order]
    /\ MaxFailures \in Nat

VARIABLES
    row,       \* committed IdempotencyKey rows: status, and the call they answer for
    effects,   \* how often each call has taken effect
    settled,   \* orders that are closed with payments
    client,    \* what the client knows of its call
    told,      \* the call whose result it was given
    pc,        \* next step of each request
    call,      \* the call each request carries
    answer,    \* the response of each request
    listening, \* requests whose client still waits for the response
    failures   \* requests that have died or timed out

server == <<row, effects, settled>>
vars == <<row, effects, settled, client, told, pc, call, answer, listening, failures>>

Steps == {"idle", "lookup", "insert", "mutate", "canonical", "reply"}
NoRow == [status |-> "none", of |-> NoCall]
Row(status, c) == [status |-> status, of |-> c]

\* The answers: the result of a call, "asIs" when the order already is what was
\* asked for, a refusal by a rule of the operation (4xx), "conflict" for a key
\* used by another request, "busy" for one being processed (409), "error" (500).
Kinds == {"none", "value", "asIs", "refused", "conflict", "busy", "error"}
Response(kind) == [kind |-> kind, of |-> NoCall]
Value(c) == [kind |-> "value", of |-> c]

Init ==
    /\ row = [k \in Key |-> NoRow]
    /\ effects = [c \in Call |-> 0]
    /\ settled = {}
    /\ client = [c \in Call |-> "idle"]
    /\ told = [c \in Call |-> NoCall]
    /\ pc = [r \in Req |-> "idle"]
    /\ call \in [Req -> {NoCall}]
    /\ answer = [r \in Req |-> Response("none")]
    /\ listening = {}
    /\ failures = 0

-----------------------------------------------------------------------------
(* Helpers *)

\* requestHash: executeIdempotent hashes operation, tenant, user and payload,
\* checkIdempotency and saveIdempotency the body alone.
Hash(c) == IF c \in Reserving THEN <<"request", c>> ELSE <<"body", BodyOf[c]>>

KeyRow(c) == row[KeyOf[c]]

FromRowAnyHash(c, found) ==  \* mutant: requestHash is not compared
    IF found.status = "completed" THEN Value(found.of) ELSE Response("busy")

\* What a request answers from a row it has found.
FromRow(c, found) ==
    IF Hash(found.of) # Hash(c) THEN Response("conflict")
    ELSE IF found.status = "completed" THEN Value(found.of)
    ELSE Response("busy")

At(r, step) == pc[r] = step
Goto(r, step) == pc' = [pc EXCEPT ![r] = step] /\ UNCHANGED answer
Reply(r, a) == /\ pc' = [pc EXCEPT ![r] = "reply"]
               /\ answer' = [answer EXCEPT ![r] = a]
Leave(r) == /\ pc' = [pc EXCEPT ![r] = "idle"]
            /\ call' = [call EXCEPT ![r] = NoCall]
            /\ answer' = [answer EXCEPT ![r] = Response("none")]
            /\ listening' = listening \ {r}

\* Another open transaction has inserted the key of this request.
Held(r) == \E q \in Req \ {r} : /\ pc[q] = "mutate" /\ call[q] \in Reserving
                                /\ KeyOf[call[q]] = KeyOf[call[r]]

Served == UNCHANGED <<client, told, call, listening, failures>>
Fail == failures < MaxFailures /\ failures' = failures + 1

-----------------------------------------------------------------------------
(* The server *)

LookupOnlyReserving(r) ==  \* mutant: status, items and close do not check the key
    /\ At(r, "lookup")
    /\ LET c == call[r] IN
       IF KeyRow(c) = NoRow \/ c \notin Reserving
       THEN Goto(r, IF c \in Reserving THEN "insert" ELSE "mutate")
       ELSE Reply(r, FromRow(c, KeyRow(c)))
    /\ Served /\ UNCHANGED server

Lookup(r) ==
    /\ At(r, "lookup")
    /\ LET c == call[r] IN
       IF KeyRow(c) = NoRow
       THEN Goto(r, IF c \in Reserving THEN "insert" ELSE "mutate")
       ELSE Reply(r, FromRow(c, KeyRow(c)))
    /\ Served /\ UNCHANGED server

InsertBeforeTransaction(r) ==  \* mutant: the key is inserted outside $transaction
    /\ At(r, "insert")
    /\ ~Held(r)
    /\ Goto(r, IF KeyRow(call[r]) = NoRow THEN "mutate" ELSE "canonical")
    /\ row' = IF KeyRow(call[r]) = NoRow
              THEN [row EXCEPT ![KeyOf[call[r]]] = Row("processing", call[r])] ELSE row
    /\ Served /\ UNCHANGED <<effects, settled>>

\* The transaction begins with the key; it waits for another that has inserted
\* it, and fails with P2002 if that one has committed.
Insert(r) ==
    /\ At(r, "insert")
    /\ ~Held(r)
    /\ Goto(r, IF KeyRow(call[r]) = NoRow THEN "mutate" ELSE "canonical")
    /\ Served /\ UNCHANGED server

\* The key is stored as answered, with the result of the call.
Complete(r) ==
    /\ row' = [row EXCEPT ![KeyOf[call[r]]] = Row("completed", call[r])]
    /\ Reply(r, Value(call[r]))

\* A settlement closes its order, which must be open then (updateMany).
Commit(r) ==
    /\ Complete(r)
    /\ effects' = [effects EXCEPT ![call[r]] = @ + 1]
    /\ IF call[r] \in Settling
       THEN OrderOf[call[r]] \notin settled /\ settled' = settled \cup {OrderOf[call[r]]}
       ELSE UNCHANGED settled

CommitAsIsAnyway(r) ==  \* mutant: a closed order is returned, with payments or not
    /\ call[r] \in Settling
    /\ Complete(r)
    /\ UNCHANGED <<effects, settled>>

\* settleOrder finds the order closed with payments and returns it: nothing is
\* recorded, and the key is completed all the same.
CommitAsIs(r) ==
    /\ call[r] \in Settling /\ OrderOf[call[r]] \in settled
    /\ Complete(r)
    /\ UNCHANGED <<effects, settled>>

\* mutate(tx), completion of the key and commit.  A unique index of the operation
\* itself may be violated (P2002), which rolls the transaction back.
MutateReserved(r) ==
    /\ At(r, "mutate") /\ call[r] \in Reserving
    /\ \/ Commit(r) \/ CommitAsIs(r)
       \/ Reply(r, Response("refused")) /\ UNCHANGED server
       \/ Goto(r, "canonical") /\ UNCHANGED server
    /\ Served

MutateStoredUnchecked(r) ==  \* mutant: the key is stored with upsert
    /\ At(r, "mutate") /\ call[r] \notin Reserving
    /\ \/ ~Held(r) /\ Commit(r)
       \/ \E kind \in {"refused", "asIs"} : Reply(r, Response(kind)) /\ UNCHANGED server
    /\ Served

\* The operation, saveIdempotency and commit.  Finding the order as asked for
\* returns it without storing the key; a key stored meanwhile is an error 500.
MutateStored(r) ==
    /\ At(r, "mutate") /\ call[r] \notin Reserving
    /\ \/ ~Held(r) /\ KeyRow(call[r]) = NoRow /\ Commit(r)
       \/ /\ ~Held(r) /\ KeyRow(call[r]) # NoRow
          /\ Reply(r, Response("error")) /\ UNCHANGED server
       \/ \E kind \in {"refused", "asIs"} : Reply(r, Response(kind)) /\ UNCHANGED server
    /\ Served

\* After P2002 the key is read again.
Canonical(r) ==
    /\ At(r, "canonical")
    /\ Reply(r, IF KeyRow(call[r]) = NoRow THEN Response("conflict")
                ELSE FromRow(call[r], KeyRow(call[r])))
    /\ Served /\ UNCHANGED server

\* The connection, the process or the database fails; an open transaction is
\* rolled back.
Die(r) ==
    /\ pc[r] # "idle"
    /\ Fail /\ Leave(r)
    /\ UNCHANGED <<server, client, told>>

\* A call under another key (settle, or close with payments) or the notice of a
\* Pix payment settles the order.
SettleElsewhere(o) ==
    /\ o \notin settled
    /\ settled' = settled \cup {o}
    /\ UNCHANGED <<row, effects, client, told, pc, call, answer, listening, failures>>

-----------------------------------------------------------------------------
(* The client: it sends its call, and again when it has no answer. *)

Send(r, c) ==
    /\ At(r, "idle")
    /\ client[c] \in {"idle", "waiting"}
    /\ \A q \in listening : call[q] # c
    /\ client' = [client EXCEPT ![c] = "waiting"]
    /\ call' = [call EXCEPT ![r] = c]
    /\ listening' = listening \cup {r}
    /\ Goto(r, "lookup")
    /\ UNCHANGED <<server, told, failures>>

\* The client gives up on a request, which goes on running.
Timeout(r) ==
    /\ r \in listening
    /\ Fail
    /\ listening' = listening \ {r}
    /\ UNCHANGED <<server, client, told, pc, call, answer>>

\* An error 5xx is no answer: the call stays in the queue.
Deliver(r) ==
    /\ At(r, "reply") /\ r \in listening
    /\ LET c == call[r]
           kind == answer[r].kind
       IN /\ client' = [client EXCEPT ![c] = IF kind = "error" THEN "waiting"
                                             ELSE IF kind \in {"value", "asIs"} THEN "done"
                                             ELSE "failed"]
          /\ told' = [told EXCEPT ![c] = IF kind = "value" THEN answer[r].of ELSE @]
    /\ Leave(r)
    /\ UNCHANGED <<server, failures>>

\* A response nobody waits for any more.
Drop(r) ==
    /\ At(r, "reply") /\ r \notin listening
    /\ Leave(r)
    /\ UNCHANGED <<server, client, told, failures>>

Serve(r) == Lookup(r) \/ Insert(r) \/ MutateReserved(r) \/ MutateStored(r) \/ Canonical(r)

Next ==
    \/ \E r \in Req : \/ Serve(r) \/ Die(r) \/ Timeout(r) \/ Deliver(r) \/ Drop(r)
                     \/ \E c \in Call : Send(r, c)
    \/ \E o \in Order : SettleElsewhere(o)

\* Requests fail finitely often; the others are served and answered, and the
\* client sends its call again, as the queue of the application does.
Fairness == /\ \A r \in Req : WF_vars(Serve(r) \/ Deliver(r) \/ Drop(r))
            /\ \A c \in Call : WF_vars(\E r \in Req : Send(r, c))

Spec == Init /\ [][Next]_vars
FairSpec == Spec /\ Fairness

-----------------------------------------------------------------------------
(* Properties *)

Responses == [kind : Kinds, of : Call \cup {NoCall}]

TypeOK ==
    /\ row \in [Key -> [status : {"none", "processing", "completed"}, of : Call \cup {NoCall}]]
    /\ effects \in [Call -> Nat]
    /\ settled \subseteq Order
    /\ client \in [Call -> {"idle", "waiting", "done", "failed"}]
    /\ told \in [Call -> Call \cup {NoCall}]
    /\ pc \in [Req -> Steps]
    /\ call \in [Req -> Call \cup {NoCall}]
    /\ answer \in [Req -> Responses]
    /\ listening \in SUBSET Req
    /\ failures \in 0..MaxFailures

\* However often a call is sent, and whatever else is sent with its key, at most
\* one call takes effect under a key, and once.
OneEffect ==
    \A c, d \in Call :
        effects[c] > 0 /\ effects[d] > 0 /\ KeyOf[c] = KeyOf[d]
            => c = d /\ effects[c] = 1

\* What a result says has happened: the call has taken effect, or it is a
\* settlement and its order is settled.
Happened(c) == effects[c] = 1 \/ (c \in Settling /\ OrderOf[c] \in settled)

\* A result that was given to a client is the result of a call under the same key
\* with the same hash that has happened; for a reserving call it is its own.  A
\* settlement is answered with the closed order also when another has settled it.
AnswerTellsEffect ==
    \A c \in Call : told[c] # NoCall =>
        /\ Happened(told[c])
        /\ KeyOf[told[c]] = KeyOf[c] /\ Hash(told[c]) = Hash(c)
        /\ c \in Reserving => told[c] = c

\* Nobody sees a key before its effect: a crash cannot leave one that is "being
\* processed" for ever, which the client would be refused for.
NeverHalfDone == \A r \in Req : answer[r].kind # "busy"

\* A client that goes on asking learns what became of its call.
EventuallyAnswered == \A c \in Call : client[c] = "waiting" ~> client[c] # "waiting"

Register == INSTANCE KeyRegister WITH owner <- [k \in Key |-> row[k].of],
                                      HashOf <- [c \in Call |-> Hash(c)]

\* Both protocols implement the register: each completion takes the key, each
\* delivered result tells of its owner, and nothing else shows.
ImplementsRegister == Register!Spec
=============================================================================
