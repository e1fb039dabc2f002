-------------------------- MODULE SyncQueueProofs --------------------------
(***************************************************************************)
(* Theorems about SyncQueue, for any set of mutations, any dependencies    *)
(* between them, any number of passes at once and any retry limit.         *)
(***************************************************************************)
EXTENDS SyncQueue, TLAPS

(* What the safety properties rest on. *)

\* A pass that waits has sent an entry, and only a pass that waits has an answer.
WaitingHasEntry ==
    \A p \in Pass : /\ pc[p] = "wait" => current[p] \in Entry
                    /\ pc[p] # "wait" => answer[p] = "none"

\* The stored keys are the mutations executed, each once.
KeysCountEffects == \A m \in Mutation : applied[m] = IF m \in stored THEN 1 ELSE 0

\* What the client takes for done, the server has stored: a mutation it has
\* removed, an acceptance it has received, an order whose real id it knows.
DoneIsStored ==
    /\ \A m \in Mutation : status[m] = "removed" => m \in stored
    /\ \A p \in Pass : answer[p] = "ok" => current[p].id \in stored
    /\ \A p \in Pass : known[p] \subseteq stored

\* The parent of a request under way is stored.
ParentIsStored ==
    \A m \in Mutation, s \in Senders :
        <<m, s>> \in wire /\ Parent[m] # None => Parent[m] \in stored

SyncInv ==
    /\ TypeOK
    /\ WaitingHasEntry
    /\ KeysCountEffects
    /\ DoneIsStored
    /\ ParentIsStored

-----------------------------------------------------------------------------
LEMMA InitSync == Init => SyncInv
<1>1. SUFFICES ASSUME Init PROVE SyncInv
  OBVIOUS
<1>2. TypeOK
  <2>1. 0 \in 0..MaxRetry
    BY SyncAssumption
  <2>2. before \subseteq Mutation \X Mutation /\ wire \subseteq Mutation \X Senders
    BY <1>1 DEF Init
  <2>3. todo \in [Pass -> SUBSET Entry] /\ known \in [Pass -> SUBSET Mutation]
    BY <1>1 DEF Init
  <2> QED
    BY <1>1, <2>1, <2>2, <2>3 DEF Init, TypeOK, Senders
<1>3. WaitingHasEntry
  BY <1>1 DEF Init, WaitingHasEntry
<1>4. KeysCountEffects /\ DoneIsStored /\ ParentIsStored
  BY <1>1 DEF Init, KeysCountEffects, DoneIsStored, ParentIsStored
<1> QED
  BY <1>2, <1>3, <1>4 DEF SyncInv

\* The stored queue keeps its type when a mutation is updated, and a mutation that
\* has been removed stays removed.
LEMMA UpdateKeeps ==
    ASSUME TypeOK, NEW m \in Mutation,
           NEW s \in {"pending", "syncing", "failed"},
           NEW n \in 0..MaxRetry, NEW d \in BOOLEAN, Update(m, s, n, d)
    PROVE  /\ status' \in [Mutation -> {"new", "pending", "syncing", "failed", "removed"}]
           /\ before' \subseteq Mutation \X Mutation
           /\ retry' \in [Mutation -> 0..MaxRetry]
           /\ due' \in [Mutation -> BOOLEAN]
           /\ \A x \in Mutation : status'[x] = "removed" => status[x] = "removed"
<1>1. CASE status[m] = "removed"
  BY <1>1 DEF Update, TypeOK, client
<1>2. CASE status[m] # "removed"
  BY <1>2 DEF Update, TypeOK
<1> QED
  BY <1>1, <1>2

\* Looking the key up, executing and answering keep the books of the server, and
\* an acceptance reaches a pass for a stored key only.
LEMMA ServeKeeps ==
    ASSUME SyncInv, NEW m \in Mutation, NEW s \in Senders, Serve(m, s)
    PROVE  SyncInv'
<1> USE SyncAssumption
<1>1. TypeOK /\ WaitingHasEntry /\ KeysCountEffects /\ DoneIsStored /\ ParentIsStored
  BY DEF SyncInv
<1>2. UNCHANGED <<status, before, retry, due, syncing, pc, todo, current, known, steady>>
  BY DEF Serve, client
<1>3. wire' = wire \ {<<m, s>>}
  BY DEF Serve
<1>4. PICK a \in {"ok", "refused"} :
         /\ Answer(m, s, a)
         /\ a = "ok" => m \in stored'
         /\ UNCHANGED server \/ (m \notin stored /\ Execute(m))
  <2>1. CASE m \in stored /\ Answer(m, s, "ok") /\ UNCHANGED server
    BY <2>1 DEF server
  <2>2. CASE m \notin stored /\ ~OrderClosed(m) /\ Execute(m) /\ Answer(m, s, "ok")
    BY <2>2 DEF Execute
  <2>3. CASE m \notin stored /\ Answer(m, s, "refused") /\ UNCHANGED server
    BY <2>3
  <2> QED
    BY <2>1, <2>2, <2>3 DEF Serve
<1>5. /\ applied' \in [Mutation -> Nat]
      /\ stored \subseteq stored' /\ stored' \subseteq Mutation
      /\ KeysCountEffects'
  <2>1. CASE UNCHANGED server
    BY <1>1, <2>1 DEF server, TypeOK, KeysCountEffects
  <2>2. CASE m \notin stored /\ Execute(m)
    BY <1>1, <2>2 DEF Execute, TypeOK, KeysCountEffects
  <2> QED
    BY <1>4, <2>1, <2>2
<1>6. /\ answer' \in [Pass -> {"none", "ok", "refused"}]
      /\ \A p \in Pass :
           answer'[p] # answer[p] =>
               pc[p] = "wait" /\ current[p].id = m /\ answer'[p] = a
  BY <1>1, <1>4 DEF Answer, At, TypeOK
<1>7. TypeOK'
  BY <1>1, <1>2, <1>3, <1>5, <1>6 DEF TypeOK
<1>8. WaitingHasEntry'
  BY <1>1, <1>2, <1>6 DEF WaitingHasEntry
<1>9. DoneIsStored'
  BY <1>1, <1>2, <1>4, <1>5, <1>6 DEF DoneIsStored
<1>10. ParentIsStored'
  BY <1>1, <1>3, <1>5 DEF ParentIsStored
<1> QED
  BY <1>5, <1>7, <1>8, <1>9, <1>10 DEF SyncInv

LEMMA EnqueueKeeps ==
    ASSUME SyncInv, NEW m \in Mutation, Enqueue(m)
    PROVE  SyncInv'
<1>1. TypeOK /\ WaitingHasEntry /\ KeysCountEffects /\ DoneIsStored /\ ParentIsStored
  BY DEF SyncInv
<1>2. UNCHANGED <<retry, due, syncing, pc, todo, current, known, answer, applied, stored, steady>>
  BY DEF Enqueue, passes, server
<1>3. status' = [status EXCEPT ![m] = "pending"]
  BY DEF Enqueue
<1>4. wire' = wire \/ (Parent[m] = None /\ wire' = wire \cup {<<m, Direct>>})
  BY DEF Enqueue
<1>5. TypeOK'
  <2>1. before' \subseteq Mutation \X Mutation
    BY <1>1 DEF Enqueue, TypeOK
  <2>2. wire' \subseteq Mutation \X (Pass \cup {Direct})
    BY <1>1, <1>4 DEF TypeOK
  <2> QED
    BY <1>1, <1>2, <1>3, <2>1, <2>2 DEF TypeOK
<1>6. WaitingHasEntry' /\ KeysCountEffects'
  BY <1>1, <1>2 DEF WaitingHasEntry, KeysCountEffects
<1>7. DoneIsStored'
  BY <1>1, <1>2, <1>3 DEF DoneIsStored, TypeOK
<1>8. ParentIsStored'
  BY <1>1, <1>2, <1>4 DEF ParentIsStored
<1> QED
  BY <1>5, <1>6, <1>7, <1>8 DEF SyncInv

LEMMA ElapseKeeps ==
    ASSUME SyncInv, NEW m \in Mutation, Elapse(m)
    PROVE  SyncInv'
<1>1. TypeOK /\ WaitingHasEntry /\ KeysCountEffects /\ DoneIsStored /\ ParentIsStored
  BY DEF SyncInv
<1>2. UNCHANGED <<status, before, retry, syncing, pc, todo, current, known, answer, wire, applied, stored, steady>>
  BY DEF Elapse, passes, server
<1>3. due' \in [Mutation -> BOOLEAN]
  BY <1>1 DEF Elapse, TypeOK
<1> QED
  BY <1>1, <1>2, <1>3
  DEF SyncInv, TypeOK, WaitingHasEntry, KeysCountEffects, DoneIsStored, ParentIsStored

\* A restart forgets every pass; what is stored stays.
LEMMA RestartKeeps ==
    ASSUME SyncInv, Restart
    PROVE  SyncInv'
<1>1. TypeOK /\ WaitingHasEntry /\ KeysCountEffects /\ DoneIsStored /\ ParentIsStored
  BY DEF SyncInv
<1>2. UNCHANGED <<before, retry, due, wire, applied, stored, steady>>
  BY DEF Restart, server
<1>3. /\ status' \in [Mutation -> {"new", "pending", "syncing", "failed", "removed"}]
      /\ \A m \in Mutation : status'[m] = "removed" => status[m] = "removed"
  BY <1>1 DEF Restart, Recover, TypeOK
<1>4. /\ syncing' = FALSE
      /\ pc' = [p \in Pass |-> "idle"]
      /\ todo' = [p \in Pass |-> {}]
      /\ current' = [p \in Pass |-> None]
      /\ known' = [p \in Pass |-> {}]
      /\ answer' = [p \in Pass |-> "none"]
  BY DEF Restart
<1>5. TypeOK'
  <2>1. todo' \in [Pass -> SUBSET Entry] /\ known' \in [Pass -> SUBSET Mutation]
    BY <1>4
  <2> QED
    BY <1>1, <1>2, <1>3, <1>4, <2>1 DEF TypeOK
<1>6. WaitingHasEntry' /\ KeysCountEffects' /\ DoneIsStored' /\ ParentIsStored'
  BY <1>1, <1>2, <1>3, <1>4
  DEF WaitingHasEntry, KeysCountEffects, DoneIsStored, ParentIsStored
<1> QED
  BY <1>5, <1>6 DEF SyncInv

LEMMA NetworkKeeps ==
    ASSUME SyncInv,
           \/ \E m \in Mutation, s \in Senders : Lose(m, s)
           \/ Weather
    PROVE  SyncInv'
<1>1. TypeOK /\ WaitingHasEntry /\ KeysCountEffects /\ DoneIsStored /\ ParentIsStored
  BY DEF SyncInv
<1>2. /\ UNCHANGED <<status, before, retry, due, syncing, pc, todo, current, known, answer, applied, stored>>
      /\ wire' \subseteq wire
      /\ steady' \in BOOLEAN
  BY <1>1 DEF Lose, Weather, client, passes, server, TypeOK
<1> QED
  BY <1>1, <1>2
  DEF SyncInv, TypeOK, WaitingHasEntry, KeysCountEffects, DoneIsStored, ParentIsStored

-----------------------------------------------------------------------------
(* The steps of a pass *)

LEMMA StartKeeps ==
    ASSUME SyncInv, NEW p \in Pass, Begin(p) \/ Load(p)
    PROVE  SyncInv'
<1>1. TypeOK /\ WaitingHasEntry /\ KeysCountEffects /\ DoneIsStored /\ ParentIsStored
  BY DEF SyncInv
<1>2. UNCHANGED <<status, before, retry, due, current, known, answer, wire, applied, stored, steady>>
  BY DEF Begin, Load, client, server
<1>3. /\ pc[p] # "wait"
      /\ \E step \in {"idle", "load", "next"} : pc' = [pc EXCEPT ![p] = step]
      /\ syncing' \in BOOLEAN
  BY <1>1 DEF Begin, Load, At, Goto, TypeOK
<1>4. todo' \in [Pass -> SUBSET Entry]
  <2>1. {[id |-> m, retry |-> retry[m], due |-> due[m]] : m \in Pending} \subseteq Entry
    BY <1>1 DEF TypeOK, Entry, Pending
  <2> QED
    BY <1>1, <2>1 DEF Begin, Load, TypeOK
<1>5. TypeOK'
  BY <1>1, <1>2, <1>3, <1>4 DEF TypeOK
<1>6. WaitingHasEntry'
  BY <1>1, <1>2, <1>3 DEF WaitingHasEntry, TypeOK
<1>7. KeysCountEffects' /\ DoneIsStored' /\ ParentIsStored'
  BY <1>1, <1>2 DEF KeysCountEffects, DoneIsStored, ParentIsStored
<1> QED
  BY <1>5, <1>6, <1>7 DEF SyncInv

\* One turn of the loop: a mutation that is not due is skipped, a dependent one
\* without a known order is passed over, any other one is sent.
LEMMA IterateKeeps ==
    ASSUME SyncInv, NEW p \in Pass, Iterate(p)
    PROVE  SyncInv'
<1>1. TypeOK /\ WaitingHasEntry /\ KeysCountEffects /\ DoneIsStored /\ ParentIsStored
  BY DEF SyncInv
<1>2. PICK e \in todo[p] : Skip(p, e) \/ PassOver(p, e) \/ Send(p, e)
  BY DEF Iterate, Oldest
<1>3. e \in Entry /\ e.id \in Mutation /\ pc[p] = "next"
  BY <1>1, <1>2 DEF TypeOK, Entry, Iterate, At
<1>4. todo' \in [Pass -> SUBSET Entry]
  BY <1>1, <1>2 DEF Skip, PassOver, Send, Take, TypeOK
<1>5. CASE Skip(p, e)
  <2>1. UNCHANGED <<status, before, retry, due, syncing, pc, current, known, answer, wire, applied, stored, steady>>
    BY <1>5 DEF Skip, client, server
  <2> QED
    BY <1>1, <1>4, <2>1
    DEF SyncInv, TypeOK, WaitingHasEntry, KeysCountEffects, DoneIsStored, ParentIsStored
<1>6. CASE PassOver(p, e)
  <2>1. UNCHANGED <<syncing, pc, current, known, answer, wire, applied, stored, steady>>
    BY <1>6 DEF PassOver, server
  <2>2. retry[e.id] \in 0..MaxRetry /\ due[e.id] \in BOOLEAN
    BY <1>1, <1>3 DEF TypeOK
  <2>3. UNCHANGED client \/ Update(e.id, "failed", retry[e.id], due[e.id])
    BY <1>6 DEF PassOver
  <2>4. /\ status' \in [Mutation -> {"new", "pending", "syncing", "failed", "removed"}]
        /\ before' \subseteq Mutation \X Mutation
        /\ retry' \in [Mutation -> 0..MaxRetry]
        /\ due' \in [Mutation -> BOOLEAN]
        /\ \A x \in Mutation : status'[x] = "removed" => status[x] = "removed"
    BY <1>1, <1>3, <2>2, <2>3, UpdateKeeps DEF client, TypeOK
  <2> QED
    BY <1>1, <1>4, <2>1, <2>4
    DEF SyncInv, TypeOK, WaitingHasEntry, KeysCountEffects, DoneIsStored, ParentIsStored
<1>7. CASE Send(p, e)
  <2>1. UNCHANGED <<syncing, known, answer, applied, stored, steady>>
    BY <1>7 DEF Send, server
  <2>2. retry[e.id] \in 0..MaxRetry /\ due[e.id] \in BOOLEAN
    BY <1>1, <1>3 DEF TypeOK
  <2>3. /\ status' \in [Mutation -> {"new", "pending", "syncing", "failed", "removed"}]
        /\ before' \subseteq Mutation \X Mutation
        /\ retry' \in [Mutation -> 0..MaxRetry]
        /\ due' \in [Mutation -> BOOLEAN]
        /\ \A x \in Mutation : status'[x] = "removed" => status[x] = "removed"
    BY <1>1, <1>3, <1>7, <2>2, UpdateKeeps DEF Send
  <2>4. /\ current' = [current EXCEPT ![p] = e]
        /\ pc' = [pc EXCEPT ![p] = "wait"]
        /\ wire' = wire \cup {<<e.id, p>>}
    BY <1>7 DEF Send, Goto
  <2>5. answer[p] = "none"
    BY <1>1, <1>3 DEF WaitingHasEntry
  <2>6. TypeOK'
    <3>1. wire' \subseteq Mutation \X (Pass \cup {Direct})
      BY <1>1, <1>3, <2>4 DEF TypeOK
    <3> QED
      BY <1>1, <1>3, <1>4, <2>1, <2>3, <2>4, <3>1 DEF TypeOK
  <2>7. WaitingHasEntry'
    BY <1>1, <1>3, <2>1, <2>4 DEF WaitingHasEntry, TypeOK
  <2>8. KeysCountEffects'
    BY <1>1, <2>1 DEF KeysCountEffects
  <2>9. DoneIsStored'
    BY <1>1, <2>1, <2>3, <2>4, <2>5 DEF DoneIsStored, TypeOK
  <2>10. ParentIsStored'
    BY <1>1, <1>7, <2>1, <2>4 DEF Send, KnowsOrder, ParentIsStored, DoneIsStored
  <2> QED
    BY <2>6, <2>7, <2>8, <2>9, <2>10 DEF SyncInv
<1> QED
  BY <1>2, <1>5, <1>6, <1>7

\* What the answer of a request changes in the pass that waited for it.
LEMMA SettledPass ==
    ASSUME SyncInv, NEW p \in Pass, Continue(p) \/ Leave(p)
    PROVE  /\ syncing' \in BOOLEAN
           /\ pc' \in [Pass -> {"idle", "load", "next", "wait"}]
           /\ todo' \in [Pass -> SUBSET Entry]
           /\ current' \in [Pass -> Entry \cup {None}]
           /\ answer' \in [Pass -> {"none", "ok", "refused"}]
           /\ answer'[p] = "none"
           /\ WaitingHasEntry'
           /\ \A q \in Pass \ {p} : answer'[q] = answer[q] /\ current'[q] = current[q]
<1>1. TypeOK /\ WaitingHasEntry
  BY DEF SyncInv
<1>2. /\ \E step \in {"idle", "next"} : pc' = [pc EXCEPT ![p] = step]
      /\ current' = [current EXCEPT ![p] = None]
      /\ answer' = [answer EXCEPT ![p] = "none"]
  BY DEF Continue, Leave, Goto
<1>3. syncing' \in BOOLEAN /\ todo' \in [Pass -> SUBSET Entry]
  BY <1>1 DEF Continue, Leave, TypeOK
<1>4. WaitingHasEntry'
  BY <1>1, <1>2 DEF WaitingHasEntry, TypeOK
<1> QED
  BY <1>1, <1>2, <1>3, <1>4 DEF TypeOK

LEMMA AcceptedKeeps ==
    ASSUME SyncInv, NEW p \in Pass, Accepted(p)
    PROVE  SyncInv'
<1>1. TypeOK /\ WaitingHasEntry /\ KeysCountEffects /\ DoneIsStored /\ ParentIsStored
  BY DEF SyncInv
<1> DEFINE m == current[p].id
<1>2. m \in Mutation /\ m \in stored
  BY <1>1 DEF Accepted, At, WaitingHasEntry, DoneIsStored, Entry
<1>3. /\ status' = [status EXCEPT ![m] = "removed"]
      /\ known' = [known EXCEPT ![p] = @ \cup {m}]
      /\ UNCHANGED <<before, retry, due, wire, applied, stored, steady>>
  BY DEF Accepted, Discard, server
<1>4. Continue(p)
  BY DEF Accepted
<1>5. TypeOK'
  <2>1. known' \in [Pass -> SUBSET Mutation]
    BY <1>1, <1>2, <1>3 DEF TypeOK
  <2> QED
    BY <1>1, <1>2, <1>3, <1>4, <2>1, SettledPass DEF TypeOK
<1>6. KeysCountEffects' /\ ParentIsStored'
  BY <1>1, <1>3 DEF KeysCountEffects, ParentIsStored
<1>7. DoneIsStored'
  <2>1. \A x \in Mutation : status'[x] = "removed" => x \in stored'
    BY <1>1, <1>2, <1>3 DEF DoneIsStored, TypeOK
  <2>2. \A q \in Pass : answer'[q] = "ok" => current'[q].id \in stored'
    BY <1>1, <1>3, <1>4, SettledPass DEF DoneIsStored
  <2>3. \A q \in Pass : known'[q] \subseteq stored'
    BY <1>1, <1>2, <1>3 DEF DoneIsStored, TypeOK
  <2> QED
    BY <2>1, <2>2, <2>3 DEF DoneIsStored
<1> QED
  BY <1>4, <1>5, <1>6, <1>7, SettledPass DEF SyncInv

\* A refusal, a failure and the end of the loop change the status of one mutation
\* and forget orders, or change nothing stored.
LEMMA EndingKeeps ==
    ASSUME SyncInv, NEW p \in Pass, Refused(p) \/ GiveUp(p) \/ Finish(p)
    PROVE  SyncInv'
<1>1. TypeOK /\ WaitingHasEntry /\ KeysCountEffects /\ DoneIsStored /\ ParentIsStored
  BY DEF SyncInv
<1>2. UNCHANGED <<wire, applied, stored, steady>> /\ (Continue(p) \/ Leave(p))
  BY DEF Refused, GiveUp, Finish, server
<1>3. known' \in [Pass -> SUBSET Mutation] /\ \A q \in Pass : known'[q] \subseteq known[q]
  BY <1>1 DEF Refused, GiveUp, Finish, Leave, TypeOK
<1> DEFINE m == current[p].id
<1>4. \/ UNCHANGED client
      \/ \E s \in {"pending", "failed"}, n \in 0..MaxRetry, d \in BOOLEAN :
            m \in Mutation /\ Update(m, s, n, d)
  <2>1. pc[p] = "wait" =>
           m \in Mutation /\ current[p].retry \in 0..MaxRetry /\ due[m] \in BOOLEAN
    BY <1>1 DEF WaitingHasEntry, Entry, TypeOK
  <2>2. CASE Refused(p)
    <3>1. AtMost(Attempts(p)) \in 0..MaxRetry
      BY <2>1, <2>2, SyncAssumption DEF Refused, At, AtMost, Attempts
    <3> QED
      BY <2>1, <2>2, <3>1 DEF Refused, At
  <2>3. CASE GiveUp(p)
    <3>1. MaxRetry \in 0..MaxRetry
      BY SyncAssumption
    <3>2. Attempts(p) < MaxRetry => Attempts(p) \in 0..MaxRetry
      BY <2>1, <2>3, SyncAssumption DEF GiveUp, At, Attempts
    <3>3. CASE Attempts(p) < MaxRetry /\ Update(m, "pending", Attempts(p), FALSE)
      BY <2>1, <2>3, <3>2, <3>3 DEF GiveUp, At
    <3>4. CASE Update(m, "failed", MaxRetry, due[m])
      BY <2>1, <2>3, <3>1, <3>4 DEF GiveUp, At
    <3> QED
      BY <2>3, <3>3, <3>4 DEF GiveUp
  <2>4. CASE Finish(p)
    BY <2>4 DEF Finish
  <2> QED
    BY <2>2, <2>3, <2>4
<1>5. /\ status' \in [Mutation -> {"new", "pending", "syncing", "failed", "removed"}]
      /\ before' \subseteq Mutation \X Mutation
      /\ retry' \in [Mutation -> 0..MaxRetry]
      /\ due' \in [Mutation -> BOOLEAN]
      /\ \A x \in Mutation : status'[x] = "removed" => status[x] = "removed"
  <2>1. CASE UNCHANGED client
    BY <1>1, <2>1 DEF client, TypeOK
  <2>2. CASE \E s \in {"pending", "failed"}, n \in 0..MaxRetry, d \in BOOLEAN :
               m \in Mutation /\ Update(m, s, n, d)
    BY <1>1, <2>2, UpdateKeeps
  <2> QED
    BY <1>4, <2>1, <2>2
<1>6. TypeOK'
  BY <1>1, <1>2, <1>3, <1>5, SettledPass DEF TypeOK
<1>7. KeysCountEffects' /\ ParentIsStored'
  BY <1>1, <1>2 DEF KeysCountEffects, ParentIsStored
<1>8. DoneIsStored'
  <2>1. \A q \in Pass : answer'[q] = "ok" => current'[q].id \in stored'
    BY <1>1, <1>2, SettledPass DEF DoneIsStored
  <2> QED
    BY <1>1, <1>2, <1>3, <1>5, <2>1 DEF DoneIsStored
<1> QED
  BY <1>2, <1>6, <1>7, <1>8, SettledPass DEF SyncInv

-----------------------------------------------------------------------------
LEMMA StepSync == SyncInv /\ [Next]_vars => SyncInv'
<1> SUFFICES ASSUME SyncInv, [Next]_vars PROVE SyncInv'
  OBVIOUS
<1>1. ASSUME NEW m \in Mutation, Enqueue(m) \/ Elapse(m) PROVE SyncInv'
  BY <1>1, EnqueueKeeps, ElapseKeeps
<1>2. ASSUME NEW p \in Pass, PassStep(p) PROVE SyncInv'
  BY <1>2, StartKeeps, IterateKeeps, AcceptedKeeps, EndingKeeps DEF PassStep, PassGoesOn
<1>3. ASSUME NEW m \in Mutation, NEW s \in Senders, Serve(m, s) PROVE SyncInv'
  BY <1>3, ServeKeeps
<1>4. CASE Restart
  BY <1>4, RestartKeeps
<1>5. CASE Weather \/ \E m \in Mutation, s \in Senders : Lose(m, s)
  BY <1>5, NetworkKeeps
<1>6. CASE UNCHANGED vars
  BY <1>6 DEF vars, client, passes, server,
     SyncInv, TypeOK, WaitingHasEntry, KeysCountEffects, DoneIsStored, ParentIsStored
<1> QED
  BY <1>1, <1>2, <1>3, <1>4, <1>5, <1>6 DEF Next

LEMMA SyncInvariant == Spec => []SyncInv
  BY InitSync, StepSync, PTL DEF Spec

\* Every variable keeps its type.
THEOREM SyncTypeCorrect == Spec => []TypeOK
<1>1. SyncInv => TypeOK
  BY DEF SyncInv
<1> QED
  BY <1>1, SyncInvariant, PTL

\* Each mutation takes effect at most once on the server: overlapping passes, replay,
\* restart, loss and delay included.
THEOREM ExactlyOnce == Spec => []AppliedOnce
<1>1. SyncInv => KeysCountEffects
  BY DEF SyncInv
<1>2. KeysCountEffects => AppliedOnce
  <2> SUFFICES ASSUME KeysCountEffects, NEW m \in Mutation PROVE applied[m] <= 1
    BY DEF AppliedOnce
  <2>1. applied[m] = 1 \/ applied[m] = 0
    BY DEF KeysCountEffects
  <2> QED
    BY <2>1
<1> QED
  BY <1>1, <1>2, SyncInvariant, PTL

\* A mutation leaves the client's queue only after it took effect.
THEOREM NothingLeavesUndone == Spec => []NothingLost
<1>1. SyncInv => NothingLost
  BY DEF SyncInv, KeysCountEffects, DoneIsStored, NothingLost
<1> QED
  BY <1>1, SyncInvariant, PTL

\* A dependent mutation is under way only if its order exists on the server.
THEOREM ParentsFirst == Spec => []SentUnderRealId
<1>1. SyncInv => SentUnderRealId
  BY SyncAssumption DEF SyncInv, TypeOK, KeysCountEffects, ParentIsStored, SentUnderRealId
<1> QED
  BY <1>1, SyncInvariant, PTL

-----------------------------------------------------------------------------
(* The queue implements the outbox *)

\* Only what was queued is under way, is left to a pass or is waited for.
WasQueued ==
    /\ \A m \in Mutation, s \in Senders : <<m, s>> \in wire => status[m] # "new"
    /\ \A p \in Pass : \A e \in todo[p] : status[e.id] # "new"
    /\ \A p \in Pass : pc[p] = "wait" => status[current[p].id] # "new"

\* A step that updates one queued mutation at most.
Moved ==
    \/ UNCHANGED status
    \/ \E m \in Mutation, x \in {"pending", "syncing", "failed"} :
          status[m] \notin {"new", "removed"} /\ status' = [status EXCEPT ![m] = x]

LEMMA UpdateMoves ==
    ASSUME NEW m \in Mutation, NEW s \in {"pending", "syncing", "failed"}, NEW n, NEW d,
           status[m] # "new", Update(m, s, n, d)
    PROVE  Moved
  BY DEF Update, Moved, client

\* What the passes do between Begin and Finish, an acceptance aside, moves one
\* mutation at most and leaves the server alone.
LEMMA PassMoves ==
    ASSUME SyncInv, WasQueued, NEW p \in Pass, PassStep(p), ~Accepted(p)
    PROVE  Moved /\ UNCHANGED applied
<1>1. TypeOK /\ WaitingHasEntry
  BY DEF SyncInv
<1>2. CASE Begin(p) \/ Load(p) \/ Finish(p)
  BY <1>2 DEF Begin, Load, Finish, client, server, Moved
<1>3. CASE Iterate(p)
  <2>1. PICK e \in todo[p] : Skip(p, e) \/ PassOver(p, e) \/ Send(p, e)
    BY <1>3 DEF Iterate, Oldest
  <2>2. e.id \in Mutation /\ status[e.id] # "new"
    BY <1>1, <2>1 DEF TypeOK, Entry, WasQueued
  <2>3. \/ UNCHANGED client
        \/ Update(e.id, "failed", retry[e.id], due[e.id])
        \/ Update(e.id, "syncing", retry[e.id], due[e.id])
    BY <2>1 DEF Skip, PassOver, Send
  <2>4. Moved
    <3>1. CASE UNCHANGED client
      BY <3>1 DEF client, Moved
    <3> QED
      BY <2>2, <2>3, <3>1, UpdateMoves
  <2> QED
    BY <2>1, <2>4 DEF Skip, PassOver, Send, server
<1>4. CASE Refused(p) \/ GiveUp(p)
  <2> DEFINE m == current[p].id
  <2>1. m \in Mutation /\ status[m] # "new"
    BY <1>1, <1>4 DEF Refused, GiveUp, At, WaitingHasEntry, Entry, WasQueued
  <2>2. \/ Update(m, "failed", AtMost(Attempts(p)), due[m])
        \/ Update(m, "pending", Attempts(p), FALSE)
        \/ Update(m, "failed", MaxRetry, due[m])
    BY <1>4 DEF Refused, GiveUp
  <2> HIDE DEF m
  <2>3. Moved
    BY <2>1, <2>2, UpdateMoves
  <2> QED
    BY <1>4, <2>3 DEF Refused, GiveUp, server
<1> QED
  BY <1>2, <1>3, <1>4 DEF PassStep, PassGoesOn

\* Nothing that was queued becomes new again.
LEMMA StaysQueued ==
    ASSUME SyncInv, WasQueued, [Next]_vars, NEW m \in Mutation, status[m] # "new"
    PROVE  status'[m] # "new"
<1>1. TypeOK
  BY DEF SyncInv
<1>2. CASE Moved
  BY <1>1, <1>2 DEF Moved, TypeOK
<1>3. CASE \E x \in Mutation : Enqueue(x)
  BY <1>1, <1>3 DEF Enqueue, TypeOK
<1>4. CASE \E p \in Pass : Accepted(p)
  BY <1>1, <1>4 DEF Accepted, Discard, TypeOK
<1>5. CASE Restart
  BY <1>1, <1>5 DEF Restart, Recover, TypeOK
<1>6. CASE Weather \/ UNCHANGED vars \/ \E x \in Mutation : Elapse(x)
  BY <1>6 DEF Weather, Elapse, vars, client
<1>7. CASE \E x \in Mutation, s \in Senders : Serve(x, s) \/ Lose(x, s)
  BY <1>7 DEF Serve, Lose, client
<1> QED
  BY <1>2, <1>3, <1>4, <1>5, <1>6, <1>7, PassMoves DEF Next, PassStep, PassGoesOn

LEMMA QueuedStep ==
    ASSUME SyncInv, WasQueued, [Next]_vars
    PROVE  WasQueued'
<1>1. TypeOK /\ WaitingHasEntry
  BY DEF SyncInv
<1>2. \A m \in Mutation : status[m] # "new" => status'[m] # "new"
  BY StaysQueued
<1>3. \A m \in Mutation, s \in Senders : <<m, s>> \in wire' => status'[m] # "new"
  <2>1. CASE wire' \subseteq wire
    BY <1>2, <2>1 DEF WasQueued
  <2>2. CASE \E x \in Mutation : Enqueue(x)
    <3>1. PICK x \in Mutation : Enqueue(x)
      BY <2>2
    <3>2. status'[x] = "pending" /\ wire' \subseteq wire \cup {<<x, Direct>>}
      BY <1>1, <3>1 DEF Enqueue, TypeOK
    <3> QED
      BY <1>2, <3>2 DEF WasQueued
  <2>3. CASE \E p \in Pass : Iterate(p)
    <3>1. PICK p \in Pass : Iterate(p)
      BY <2>3
    <3>2. PICK e \in todo[p] : wire' \subseteq wire \cup {<<e.id, p>>}
      BY <3>1 DEF Iterate, Oldest, Skip, PassOver, Send
    <3>3. e.id \in Mutation /\ status[e.id] # "new"
      BY <1>1 DEF WasQueued, TypeOK, Entry
    <3> QED
      BY <1>2, <3>2, <3>3 DEF WasQueued
  <2>4. \/ wire' \subseteq wire \/ \E x \in Mutation : Enqueue(x)
        \/ \E p \in Pass : Iterate(p)
    BY DEF Next, PassStep, PassGoesOn, Elapse, Begin, Load, Accepted, Refused, GiveUp, Finish, Serve,
       Lose, Restart, Weather, vars
  <2> QED
    BY <2>1, <2>2, <2>3, <2>4
<1>4. \A p \in Pass : \A e \in todo'[p] : status'[e.id] # "new"
  <2> SUFFICES ASSUME NEW p \in Pass, NEW e \in todo'[p] PROVE status'[e.id] # "new"
    OBVIOUS
  <2>1. e \in todo[p] \/ (e.id \in Pending /\ UNCHANGED status)
    <3>1. CASE \E q \in Pass : Load(q)
      BY <1>1, <3>1 DEF Load, client, TypeOK
    <3>2. CASE \E q \in Pass : Iterate(q)
      BY <1>1, <3>2 DEF Iterate, Oldest, Skip, PassOver, Send, Take, TypeOK
    <3>3. CASE \E q \in Pass : Accepted(q) \/ Refused(q) \/ GiveUp(q) \/ Finish(q)
      BY <1>1, <3>3 DEF Accepted, Refused, GiveUp, Finish, Continue, Leave, TypeOK
    <3>4. CASE Restart
      BY <3>4 DEF Restart
    <3>5. CASE UNCHANGED todo
      BY <3>5
    <3> QED
      BY <3>1, <3>2, <3>3, <3>4, <3>5 DEF Next, PassStep, PassGoesOn, Enqueue, Elapse, Begin, Serve,
         Lose, Weather, vars, passes
  <2>2. CASE e \in todo[p]
    BY <1>1, <1>2, <2>2 DEF WasQueued, TypeOK, Entry
  <2>3. CASE e.id \in Pending /\ UNCHANGED status
    BY <2>3 DEF Pending
  <2> QED
    BY <2>1, <2>2, <2>3
<1>5. \A p \in Pass : pc'[p] = "wait" => status'[current'[p].id] # "new"
  <2> SUFFICES ASSUME NEW p \in Pass, pc'[p] = "wait" PROVE status'[current'[p].id] # "new"
    OBVIOUS
  <2>1. \/ pc[p] = "wait" /\ current'[p] = current[p]
        \/ current'[p] \in todo[p]
    <3>1. CASE \E q \in Pass : Begin(q) \/ Load(q)
      BY <1>1, <3>1 DEF Begin, Load, Goto, TypeOK
    <3>2. CASE \E q \in Pass : Iterate(q)
      BY <1>1, <3>2 DEF Iterate, Oldest, Skip, PassOver, Send, Goto, TypeOK
    <3>3. CASE \E q \in Pass : Accepted(q) \/ Refused(q) \/ GiveUp(q) \/ Finish(q)
      BY <1>1, <3>3
      DEF Accepted, Refused, GiveUp, Finish, Continue, Leave, Goto, TypeOK
    <3>4. CASE Restart
      BY <3>4 DEF Restart
    <3>5. CASE UNCHANGED <<pc, current>>
      BY <3>5
    <3> QED
      BY <3>1, <3>2, <3>3, <3>4, <3>5 DEF Next, PassStep, PassGoesOn, Enqueue, Elapse, Serve, Lose,
         Weather, vars, passes
  <2>2. CASE pc[p] = "wait" /\ current'[p] = current[p]
    BY <1>1, <1>2, <2>2 DEF WasQueued, WaitingHasEntry, Entry
  <2>3. CASE current'[p] \in todo[p]
    BY <1>1, <1>2, <2>3 DEF WasQueued, TypeOK, Entry
  <2> QED
    BY <2>1, <2>2, <2>3
<1> QED
  BY <1>3, <1>4, <1>5 DEF WasQueued

LEMMA QueuedInvariant == Spec => []WasQueued
<1>1. Init => WasQueued
  BY DEF Init, WasQueued
<1>2. SyncInv /\ WasQueued /\ [Next]_vars => WasQueued'
  BY QueuedStep
<1> QED
  BY <1>1, <1>2, SyncInvariant, PTL DEF Spec

\* What the outbox shows.
Stages == [m \in Mutation |-> Stage(m)]
Effects == {m \in Mutation : applied[m] > 0}

\* An update is seen as the mutation failing, or as another attempt.
LEMMA MovedShows ==
    ASSUME TypeOK, Moved, UNCHANGED applied
    PROVE  Box!Next \/ UNCHANGED <<Stages, Effects>>
<1>1. Effects' = Effects
  BY DEF Effects
<1>2. CASE UNCHANGED status
  BY <1>1, <1>2 DEF Stages, Stage
<1>3. CASE \E m \in Mutation, x \in {"pending", "syncing", "failed"} :
             status[m] \notin {"new", "removed"} /\ status' = [status EXCEPT ![m] = x]
  <2>1. PICK m \in Mutation, x \in {"pending", "syncing", "failed"} :
           status[m] \notin {"new", "removed"} /\ status' = [status EXCEPT ![m] = x]
    BY <1>3
  <2>2. status'[m] = x /\ \A n \in Mutation \ {m} : status'[n] = status[n]
    BY <2>1 DEF TypeOK
  <2>3. \A n \in Mutation \ {m} : Stage(n)' = Stage(n)
    BY <2>2 DEF Stage
  <2>4. /\ Stage(m) = IF status[m] = "failed" THEN "shown" ELSE "kept"
        /\ Stage(m)' = IF x = "failed" THEN "shown" ELSE "kept"
    BY <2>1, <2>2 DEF Stage
  <2>5. Stages' = [Stages EXCEPT ![m] = Stage(m)']
    BY <2>3 DEF Stages
  <2>6. Stages[m] = Stage(m)
    BY DEF Stages
  <2>7. CASE Stage(m)' = Stage(m)
    BY <1>1, <2>3, <2>7 DEF Stages
  <2>8. CASE Stage(m) = "kept" /\ Stage(m)' = "shown"
    BY <1>1, <2>5, <2>6, <2>8 DEF Box!Next, Box!Show, Stages, Effects
  <2>9. CASE Stage(m) = "shown" /\ Stage(m)' = "kept"
    BY <1>1, <2>5, <2>6, <2>9 DEF Box!Next, Box!Retry, Stages, Effects
  <2> QED
    BY <2>4, <2>7, <2>8, <2>9
<1> QED
  BY <1>2, <1>3 DEF Moved

LEMMA EnqueueShows ==
    ASSUME TypeOK, NEW m \in Mutation, Enqueue(m)
    PROVE  Box!Keep(m)
<1>1. /\ status[m] = "new" /\ UNCHANGED applied
      /\ Parent[m] # None => status[Parent[m]] # "new"
      /\ status' = [status EXCEPT ![m] = "pending"]
  BY DEF Enqueue, server
<1>2. status'[m] = "pending" /\ \A n \in Mutation \ {m} : status'[n] = status[n]
  BY <1>1 DEF TypeOK
<1>3. /\ Stage(m) = "unseen" /\ Stage(m)' = "kept"
      /\ \A n \in Mutation \ {m} : Stage(n)' = Stage(n)
  BY <1>1, <1>2 DEF Stage
<1>4. Parent[m] # None => Parent[m] \in Mutation /\ Stage(Parent[m]) # "unseen"
  BY <1>1, SyncAssumption DEF Stage
<1>5. Stages' = [Stages EXCEPT ![m] = "kept"]
  BY <1>3 DEF Stages
<1> QED
  BY <1>1, <1>3, <1>4, <1>5 DEF Box!Keep, Stages

\* An acceptance removes a mutation that has taken effect, or one removed before.
LEMMA AcceptedShows ==
    ASSUME SyncInv, WasQueued, NEW p \in Pass, Accepted(p)
    PROVE  Box!Next \/ UNCHANGED <<Stages, Effects>>
<1>. PICK m : m = current[p].id
  OBVIOUS
<1>1. TypeOK /\ WaitingHasEntry /\ KeysCountEffects /\ DoneIsStored
  BY DEF SyncInv
<1>2. m \in Mutation /\ m \in stored /\ status[m] # "new"
  BY <1>1 DEF Accepted, At, WaitingHasEntry, DoneIsStored, Entry, WasQueued
<1>3. status' = [status EXCEPT ![m] = "removed"] /\ UNCHANGED applied
  BY DEF Accepted, Discard, server
<1>4. status'[m] = "removed" /\ \A n \in Mutation \ {m} : status'[n] = status[n]
  BY <1>1, <1>2, <1>3 DEF TypeOK
<1>5. /\ Stage(m)' = "gone" /\ Stage(m) \in {"kept", "shown", "gone"}
      /\ \A n \in Mutation \ {m} : Stage(n)' = Stage(n)
  BY <1>2, <1>4 DEF Stage
<1>6. Effects' = Effects /\ applied[m] > 0
  BY <1>1, <1>2, <1>3 DEF Effects, KeysCountEffects
<1>7. Stages' = [Stages EXCEPT ![m] = "gone"] /\ Stages[m] = Stage(m) /\ m \in Effects
  BY <1>2, <1>5, <1>6 DEF Stages, Effects
<1>8. CASE Stage(m) = "gone"
  BY <1>5, <1>6, <1>8 DEF Stages
<1>9. CASE Stage(m) \in {"kept", "shown"}
  BY <1>2, <1>6, <1>7, <1>9 DEF Box!Next, Box!Forget, Stages, Effects
<1> QED
  BY <1>5, <1>8, <1>9

\* A request takes effect once, after its parent's and before its order is closed,
\* or is answered and changes nothing.
LEMMA ServeShows ==
    ASSUME SyncInv, WasQueued, NEW m \in Mutation, NEW s \in Senders, Serve(m, s)
    PROVE  Box!Next \/ UNCHANGED <<Stages, Effects>>
<1>1. TypeOK /\ KeysCountEffects /\ ParentIsStored
  BY DEF SyncInv
<1>2. <<m, s>> \in wire /\ UNCHANGED status
  BY DEF Serve, client
<1>3. Stages' = Stages
  BY <1>2 DEF Stages, Stage
<1>4. CASE UNCHANGED server
  BY <1>3, <1>4 DEF server, Effects
<1>5. CASE m \notin stored /\ ~OrderClosed(m) /\ Execute(m)
  <2>1. applied[m] = 0 /\ applied' = [applied EXCEPT ![m] = @ + 1]
    BY <1>1, <1>5 DEF KeysCountEffects, Execute
  <2>2. /\ applied'[m] > 0
        /\ \A n \in Mutation \ {m} : applied'[n] = applied[n]
    BY <1>1, <2>1 DEF TypeOK
  <2>3. Effects' = Effects \cup {m} /\ m \notin Effects
    BY <2>1, <2>2 DEF Effects
  <2>4. Stages[m] # "unseen"
    BY <1>2 DEF WasQueued, Stages, Stage
  <2>5. Parent[m] # None => Parent[m] \in Mutation /\ Parent[m] \in Effects
    BY <1>1, <1>2, SyncAssumption DEF ParentIsStored, KeysCountEffects, Effects
  <2>6. ~\E n \in Closing \ {m} : OrderOf[n] = OrderOf[m] /\ n \in Effects
    BY <1>5, SyncAssumption DEF OrderClosed, Effects
  <2>7. Box!TakeEffect(m)
    BY <1>3, <2>3, <2>4, <2>5, <2>6
    DEF Box!TakeEffect, Box!OrderIsClosed, Stages, Effects
  <2> QED
    BY <2>7 DEF Box!Next
<1> QED
  BY <1>4, <1>5 DEF Serve

LEMMA StepShows ==
    ASSUME SyncInv, WasQueued, [Next]_vars
    PROVE  Box!Next \/ UNCHANGED <<Stages, Effects>>
<1>1. TypeOK
  BY DEF SyncInv
<1>2. CASE \E m \in Mutation : Enqueue(m)
  BY <1>1, <1>2, EnqueueShows DEF Box!Next
<1>3. CASE \E p \in Pass : Accepted(p)
  BY <1>3, AcceptedShows
<1>4. CASE \E p \in Pass : PassStep(p) /\ ~Accepted(p)
  BY <1>1, <1>4, PassMoves, MovedShows
<1>5. CASE \E m \in Mutation, s \in Senders : Serve(m, s)
  BY <1>5, ServeShows
<1>6. CASE Restart
  <2>1. /\ status' = [m \in Mutation |->
                        IF status[m] = "syncing" THEN "pending" ELSE status[m]]
        /\ UNCHANGED applied
    BY <1>6 DEF Restart, Recover, server
  <2>2. \A m \in Mutation : Stage(m)' = Stage(m)
    BY <2>1 DEF Stage
  <2> QED
    BY <2>1, <2>2 DEF Stages, Effects
<1>7. CASE \/ Weather \/ UNCHANGED vars \/ \E m \in Mutation : Elapse(m)
           \/ \E m \in Mutation, s \in Senders : Lose(m, s)
  <2>1. Moved /\ UNCHANGED applied
    BY <1>7 DEF Weather, Elapse, Lose, vars, client, server, Moved
  <2> QED
    BY <1>1, <2>1, MovedShows
<1> QED
  BY <1>2, <1>3, <1>4, <1>5, <1>6, <1>7 DEF Next

\* The stored queue and the server (MutationQueueStorage, SyncService, settleOrder's
\* and addItem's keys) implement the outbox: however passes overlap and whatever is
\* lost, repeated, late or killed, a mutation is kept until it has taken effect,
\* takes effect once, after its parent and before its order is closed, and is gone
\* for good.
THEOREM QueueIsOutbox == Spec => KeepsOutbox
<1>1. Init => Box!Init
  <2> SUFFICES ASSUME Init PROVE Box!Init
    OBVIOUS
  <2>1. \A m \in Mutation : status[m] = "new" /\ applied[m] = 0
    BY DEF Init
  <2>2. \A m \in Mutation : Stage(m) = "unseen"
    BY <2>1 DEF Stage
  <2>3. {m \in Mutation : applied[m] > 0} = {}
    BY <2>1
  <2> QED
    BY <2>2, <2>3 DEF Box!Init
<1>2. SyncInv /\ WasQueued /\ [Next]_vars => [Box!Next]_<<Stages, Effects>>
  BY StepShows
<1>3. SyncInv /\ WasQueued /\ [Next]_vars => [Box!Next]_(Box!outbox)
  BY <1>2 DEF Box!outbox, Stages, Effects
<1> QED
  BY <1>1, <1>3, SyncInvariant, QueuedInvariant, PTL DEF Spec, KeepsOutbox, Box!Spec

-----------------------------------------------------------------------------
(* The lock of synchronization *)

\* _isSyncing is set only while some call of sync() is in its loop and will reset it,
\* also when calls overlap, one gives up or the application is killed: the
\* queue is never locked by nobody (sync_service.dart).
LockHasHolder == syncing => \E p \in Pass : pc[p] \in {"next", "wait"}

LEMMA PassKeepsLock ==
    ASSUME TypeOK, LockHasHolder, NEW p \in Pass, PassStep(p)
    PROVE  LockHasHolder'
  <1> USE DEF TypeOK, LockHasHolder, At, Goto
  <1>1. CASE Begin(p)
    BY <1>1 DEF Begin
  <1>2. CASE Load(p)
    BY <1>2 DEF Load
  <1>3. CASE Iterate(p)
    <2>1. syncing' = syncing /\ (pc' = pc \/ pc' = [pc EXCEPT ![p] = "wait"])
      BY <1>3 DEF Iterate, Skip, PassOver, Send
    <2> QED
      BY <2>1
  <1>4. CASE Accepted(p) \/ Refused(p)
    <2>1. syncing' = syncing /\ pc' = [pc EXCEPT ![p] = "next"]
      BY <1>4 DEF Accepted, Refused, Continue
    <2> QED
      BY <2>1
  <1>5. CASE GiveUp(p) \/ Finish(p)
    <2>1. \/ syncing' = FALSE
          \/ syncing' = syncing /\ pc' = [pc EXCEPT ![p] = "next"]
      BY <1>5 DEF GiveUp, Finish, Leave, Continue
    <2> QED
      BY <2>1
  <1> QED
    BY <1>1, <1>2, <1>3, <1>4, <1>5 DEF PassStep, PassGoesOn

\* The flag that keeps a second synchronization out is always held by a running one.
THEOREM LockIsHeld == Spec => []LockHasHolder
  <1>1. Init => LockHasHolder
    BY DEF Init, LockHasHolder
  <1>2. TypeOK /\ LockHasHolder /\ [Next]_vars => LockHasHolder'
    <2> SUFFICES ASSUME TypeOK, LockHasHolder, [Next]_vars PROVE LockHasHolder'
      OBVIOUS
    <2>1. ASSUME NEW p \in Pass, PassStep(p) PROVE LockHasHolder'
      BY <2>1, PassKeepsLock
    <2>2. CASE Restart
      BY <2>2 DEF Restart, LockHasHolder
    <2>3. CASE \/ \E m \in Mutation : Enqueue(m) \/ Elapse(m)
               \/ \E m \in Mutation, s \in Senders : Serve(m, s) \/ Lose(m, s)
               \/ Weather \/ UNCHANGED vars
      <3>1. UNCHANGED <<syncing, pc>>
        BY <2>3 DEF Enqueue, Elapse, Serve, Lose, Weather, passes, vars
      <3> QED
        BY <3>1 DEF LockHasHolder
    <2> QED
      BY <2>1, <2>2, <2>3 DEF Next
  <1> QED
    BY <1>1, <1>2, SyncTypeCorrect, PTL DEF Spec
=============================================================================
