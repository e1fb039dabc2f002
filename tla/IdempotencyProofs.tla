------------------------- MODULE IdempotencyProofs -------------------------
(* The promises of the idempotency keys, for any number of keys, calls,       *)
(* requests and failures.                                                     *)
EXTENDS Idempotency, TLAPS

\* A committed row is complete and answers for a call sent with its key.
RowsComplete ==
    \A k \in Key :
        \/ row[k] = NoRow
        \/ /\ row[k].status = "completed"
           /\ row[k].of \in Call /\ KeyOf[row[k].of] = k

\* A call that has taken effect, once, owns its key, and what the owner of a key
\* is told of has happened.
OwnerHasEffect ==
    \A c \in Call : /\ effects[c] \in {0, 1}
                    /\ effects[c] = 1 => row[KeyOf[c]].of = c
                    /\ row[KeyOf[c]].of = c => Happened(c)

\* While a transaction holds a key there is no row for it, and no other holds it.
HolderAlone ==
    \A r \in Req : pc[r] = "mutate" /\ call[r] \in Reserving =>
        KeyRow(call[r]) = NoRow /\ ~Held(r)

BusyHaveCall == \A r \in Req : pc[r] # "idle" => call[r] \in Call

\* A result on its way, or given, is that of the owner of the key.
IsResult(c, d) == /\ d \in Call /\ KeyOf[d] = KeyOf[c]
                  /\ row[KeyOf[c]].of = d /\ Hash(d) = Hash(c)

AnswersAreResults ==
    \A r \in Req : /\ answer[r].kind # "busy"
                   /\ answer[r].kind = "value" => pc[r] = "reply" /\ IsResult(call[r], answer[r].of)

ToldAreResults == \A c \in Call : told[c] # NoCall => IsResult(c, told[c])

IInv == /\ TypeOK /\ RowsComplete /\ OwnerHasEffect /\ HolderAlone
        /\ BusyHaveCall /\ AnswersAreResults /\ ToldAreResults

-----------------------------------------------------------------------------

LEMMA Initial == Init => IInv
  <1> SUFFICES ASSUME Init PROVE IInv
    OBVIOUS
  <1>1. TypeOK
    BY IdempotencyAssumption DEF Init, TypeOK, NoRow, Responses, Response, Kinds, Steps
  <1>2. OwnerHasEffect
    BY IdempotencyAssumption DEF Init, OwnerHasEffect, Happened, NoRow
  <1>3. RowsComplete /\ HolderAlone /\ BusyHaveCall /\ AnswersAreResults /\ ToldAreResults
    BY DEF Init, RowsComplete, HolderAlone, BusyHaveCall, AnswersAreResults,
           ToldAreResults, Response, NoRow
  <1> QED
    BY <1>1, <1>2, <1>3 DEF IInv

\* Every step keeps the types.
LEMMA TypeStep ==
    ASSUME IInv, [Next]_vars
    PROVE  TypeOK'
  <1> USE IdempotencyAssumption
  <1>1. TypeOK /\ RowsComplete /\ BusyHaveCall
    BY DEF IInv
  <1>2. ASSUME NEW r \in Req, NEW a \in Responses, TypeOK, Reply(r, a)
        PROVE  pc' \in [Req -> Steps] /\ answer' \in [Req -> Responses]
    BY <1>2 DEF Reply, TypeOK, Steps
  <1>3. ASSUME NEW r \in Req, NEW s \in Steps, TypeOK, Goto(r, s)
        PROVE  pc' \in [Req -> Steps] /\ answer' \in [Req -> Responses]
    BY <1>3 DEF Goto, TypeOK
  <1>4. ASSUME NEW r \in Req, TypeOK, Leave(r)
        PROVE  /\ pc' \in [Req -> Steps] /\ answer' \in [Req -> Responses]
               /\ call' \in [Req -> Call \cup {NoCall}] /\ listening' \in SUBSET Req
    BY <1>4 DEF Leave, TypeOK, Steps, Responses, Response, Kinds
  <1>5. \A kind \in Kinds : Response(kind) \in Responses
    BY DEF Responses, Response
  <1>6. \A c \in Call : Value(c) \in Responses
    BY DEF Responses, Value, Kinds
  <1>7. \A c \in Call : KeyRow(c) # NoRow => FromRow(c, KeyRow(c)) \in Responses
    BY <1>1, <1>5, <1>6 DEF FromRow, KeyRow, RowsComplete, Kinds
  <1>8. ASSUME NEW r \in Req, Lookup(r) PROVE TypeOK'
    <2>1. call[r] \in Call
      BY <1>1, <1>8 DEF BusyHaveCall, Lookup, At
    <2> QED
      BY <1>1, <1>2, <1>3, <1>7, <1>8, <2>1 DEF Lookup, Served, server, TypeOK, Steps
  <1>9. ASSUME NEW r \in Req, Insert(r) PROVE TypeOK'
    BY <1>1, <1>3, <1>9 DEF Insert, Served, server, TypeOK, Steps
  <1>20. ASSUME NEW r \in Req, call[r] \in Call, Complete(r)
         PROVE  /\ pc' \in [Req -> Steps] /\ answer' \in [Req -> Responses]
                /\ row' \in [Key -> [status : {"none", "processing", "completed"},
                                     of : Call \cup {NoCall}]]
    BY <1>1, <1>2, <1>6, <1>20 DEF Complete, TypeOK, Row
  <1>10. ASSUME NEW r \in Req, call[r] \in Call, Commit(r), Served PROVE TypeOK'
    <2>1. settled' \subseteq Order
      BY <1>1, <1>10 DEF Commit, TypeOK
    <2>2. effects' \in [Call -> Nat]
      BY <1>1, <1>10 DEF Commit, TypeOK
    <2> QED
      BY <1>1, <1>10, <1>20, <2>1, <2>2 DEF Commit, Served, TypeOK
  <1>21. ASSUME NEW r \in Req, call[r] \in Call, CommitAsIs(r), Served PROVE TypeOK'
    BY <1>1, <1>20, <1>21 DEF CommitAsIs, Served, TypeOK
  <1>11. ASSUME NEW r \in Req, MutateReserved(r) PROVE TypeOK'
    <2>1. call[r] \in Call
      BY <1>1, <1>11 DEF BusyHaveCall, MutateReserved, At
    <2>2. CASE Reply(r, Response("refused")) /\ UNCHANGED server
      BY <1>1, <1>2, <1>5, <1>11, <2>2 DEF MutateReserved, Served, server, TypeOK, Kinds
    <2>3. CASE Goto(r, "canonical") /\ UNCHANGED server
      BY <1>1, <1>3, <1>11, <2>3 DEF MutateReserved, Served, server, TypeOK, Steps
    <2> QED
      BY <1>10, <1>11, <1>21, <2>1, <2>2, <2>3 DEF MutateReserved
  <1>12. ASSUME NEW r \in Req, MutateStored(r) PROVE TypeOK'
    <2>1. call[r] \in Call
      BY <1>1, <1>12 DEF BusyHaveCall, MutateStored, At
    <2>2. ASSUME NEW kind \in Kinds, Reply(r, Response(kind)), UNCHANGED server
          PROVE  TypeOK'
      BY <1>1, <1>2, <1>5, <1>12, <2>2 DEF MutateStored, Served, server, TypeOK
    <2> QED
      BY <1>10, <1>12, <2>1, <2>2 DEF MutateStored, Kinds
  <1>13. ASSUME NEW r \in Req, Canonical(r) PROVE TypeOK'
    <2>1. call[r] \in Call
      BY <1>1, <1>13 DEF BusyHaveCall, Canonical, At
    <2> QED
      BY <1>1, <1>2, <1>5, <1>7, <1>13, <2>1 DEF Canonical, Served, server, TypeOK, Kinds
  <1>14. ASSUME NEW r \in Req, Die(r) PROVE TypeOK'
    BY <1>1, <1>4, <1>14 DEF Die, Fail, server, TypeOK
  <1>15. ASSUME NEW r \in Req, Timeout(r) PROVE TypeOK'
    BY <1>1, <1>15 DEF Timeout, Fail, server, TypeOK
  <1>16. ASSUME NEW r \in Req, Deliver(r) PROVE TypeOK'
    <2>1. answer[r].of \in Call \cup {NoCall}
      BY <1>1 DEF TypeOK, Responses
    <2> QED
      BY <1>1, <1>4, <1>16, <2>1 DEF Deliver, server, TypeOK
  <1>17. ASSUME NEW r \in Req, Drop(r) PROVE TypeOK'
    BY <1>1, <1>4, <1>17 DEF Drop, server, TypeOK
  <1>18. ASSUME NEW r \in Req, NEW c \in Call, Send(r, c) PROVE TypeOK'
    BY <1>1, <1>3, <1>18 DEF Send, server, TypeOK, Steps
  <1>19. ASSUME UNCHANGED vars PROVE TypeOK'
    BY <1>1, <1>19 DEF vars, TypeOK
  <1>22. ASSUME NEW o \in Order, SettleElsewhere(o) PROVE TypeOK'
    BY <1>1, <1>22 DEF SettleElsewhere, TypeOK
  <1> QED
    BY <1>8, <1>9, <1>11, <1>12, <1>13, <1>14, <1>15, <1>16, <1>17, <1>18, <1>19,
       <1>22
    DEF Next, Serve

\* A step that changes no row and no effect, and creates no holder and no answer.
LEMMA QuietStep ==
    ASSUME IInv, TypeOK', UNCHANGED <<row, effects>>, settled \subseteq settled',
           \A r \in Req : pc'[r] = "mutate" =>
              \/ pc[r] = "mutate" /\ call'[r] = call[r]
              \/ call'[r] \notin Reserving
              \/ call'[r] = call[r] /\ ~Held(r) /\ KeyRow(call[r]) = NoRow
                 /\ \A q \in Req \ {r} : pc'[q] = pc[q] /\ call'[q] = call[q],
           \A r \in Req : pc'[r] # "idle" => call'[r] \in Call,
           \A r \in Req : /\ answer'[r].kind # "busy"
                          /\ answer'[r].kind = "value" =>
                               pc'[r] = "reply" /\ IsResult(call'[r], answer'[r].of),
           \A c \in Call : told'[c] # NoCall => IsResult(c, told'[c])
    PROVE  IInv'
  <1>1. row' = row /\ effects' = effects
    OBVIOUS
  <1>2. RowsComplete' /\ OwnerHasEffect'
    BY <1>1 DEF IInv, RowsComplete, OwnerHasEffect, Happened
  <1>3. HolderAlone'
    BY <1>1 DEF IInv, HolderAlone, Held, KeyRow
  <1>4. \A c, d : IsResult(c, d)' <=> IsResult(c, d)
    BY <1>1 DEF IsResult
  <1>5. BusyHaveCall' /\ AnswersAreResults' /\ ToldAreResults'
    BY <1>4 DEF BusyHaveCall, AnswersAreResults, ToldAreResults
  <1> QED
    BY <1>2, <1>3, <1>5 DEF IInv

\* The key passes to the call that is completed; it had no owner.
LEMMA CompleteStep ==
    ASSUME IInv, TypeOK', NEW r \in Req, At(r, "mutate"), Complete(r), Served, OwnerHasEffect',
           KeyRow(call[r]) = NoRow, ~Held(r)
    PROVE  IInv'
  <1> USE IdempotencyAssumption DEF IInv
  <1>1. call[r] \in Call /\ KeyOf[call[r]] \in Key
    BY DEF BusyHaveCall, At
  <1> DEFINE c == call[r]
             k == KeyOf[c]
  <1>2. /\ row' = [row EXCEPT ![k] = Row("completed", c)]
        /\ pc' = [pc EXCEPT ![r] = "reply"]
        /\ answer' = [answer EXCEPT ![r] = Value(c)]
        /\ call' = call /\ told' = told
    BY DEF Complete, Reply, Served
  <1>3. row[k].of = NoCall
    BY <1>1 DEF KeyRow, NoRow
  <1>4. /\ row'[k] = Row("completed", c)
        /\ \A j \in Key \ {k} : row'[j] = row[j]
    BY <1>1, <1>2 DEF TypeOK
  <1>5. RowsComplete'
    BY <1>1, <1>4 DEF RowsComplete, Row
  <1>7. HolderAlone'
    <2> SUFFICES ASSUME NEW q \in Req, pc'[q] = "mutate", call'[q] \in Reserving
                 PROVE  (KeyRow(call[q]) = NoRow /\ ~Held(q))'
      BY DEF HolderAlone
    <2>1. q # r /\ pc[q] = "mutate" /\ call[q] \in Reserving
      BY <1>2 DEF TypeOK
    <2>2. KeyOf[call[q]] # k /\ call[q] \in Call
      BY <2>1 DEF Held
    <2>3. KeyRow(call[q]) = NoRow /\ ~Held(q)
      BY <2>1 DEF HolderAlone
    <2> QED
      BY <1>2, <1>4, <2>1, <2>2, <2>3 DEF KeyRow, Held, TypeOK
  <1>8. BusyHaveCall'
    BY <1>1, <1>2 DEF BusyHaveCall, TypeOK
  <1>9. \A d \in Call : \A e : IsResult(d, e) => IsResult(d, e)'
    BY <1>1, <1>3, <1>4 DEF IsResult
  <1>10. AnswersAreResults'
    <2> SUFFICES ASSUME NEW q \in Req
                 PROVE  /\ answer'[q].kind # "busy"
                        /\ answer'[q].kind = "value" =>
                             pc'[q] = "reply" /\ IsResult(call[q], answer[q].of)'
      BY <1>2 DEF AnswersAreResults
    <2>1. CASE q = r
      BY <1>1, <1>2, <1>4, <2>1 DEF IsResult, Value, Row, TypeOK
    <2>2. CASE q # r
      <3>1. answer'[q] = answer[q] /\ pc'[q] = pc[q]
        BY <1>2, <2>2 DEF TypeOK
      <3>2. answer[q].kind = "value" => call[q] \in Call
        BY DEF AnswersAreResults, BusyHaveCall
      <3> QED
        BY <1>2, <1>9, <3>1, <3>2 DEF AnswersAreResults
    <2> QED
      BY <2>1, <2>2
  <1>11. ToldAreResults'
    BY <1>2, <1>9 DEF ToldAreResults
  <1> QED
    BY <1>5, <1>7, <1>8, <1>10, <1>11

\* A commit with its effect, or of a settlement that finds its order settled.
LEMMA CommitStep ==
    ASSUME IInv, TypeOK', NEW r \in Req, At(r, "mutate"), Commit(r) \/ CommitAsIs(r), Served,
           KeyRow(call[r]) = NoRow, ~Held(r)
    PROVE  IInv'
  <1> USE IdempotencyAssumption DEF IInv
  <1>1. call[r] \in Call /\ KeyOf[call[r]] \in Key
    BY DEF BusyHaveCall, At
  <1> DEFINE c == call[r]
             k == KeyOf[c]
  <1>2. row[k].of = NoCall /\ effects[c] = 0
    BY <1>1 DEF KeyRow, NoRow, OwnerHasEffect
  <1>3. Complete(r) /\ row' = [row EXCEPT ![k] = Row("completed", c)]
    BY DEF Commit, CommitAsIs, Complete
  <1>4. /\ row'[k].of = c
        /\ \A j \in Key \ {k} : row'[j] = row[j]
    BY <1>1, <1>3 DEF TypeOK, Row
  <1>5. /\ settled \subseteq settled'
        /\ \A d \in Call \ {c} : effects'[d] = effects[d]
        /\ effects'[c] \in {0, 1}
        /\ effects'[c] = 1 \/ (c \in Settling /\ OrderOf[c] \in settled')
    BY <1>1, <1>2 DEF Commit, CommitAsIs, TypeOK
  <1>6. OwnerHasEffect'
    <2> SUFFICES ASSUME NEW d \in Call
                 PROVE  /\ effects'[d] \in {0, 1}
                        /\ effects'[d] = 1 => row'[KeyOf[d]].of = d
                        /\ row'[KeyOf[d]].of = d => Happened(d)'
      BY DEF OwnerHasEffect
    <2>1. /\ effects[d] \in {0, 1}
          /\ effects[d] = 1 => row[KeyOf[d]].of = d
          /\ row[KeyOf[d]].of = d => Happened(d)
      BY DEF OwnerHasEffect
    <2>2. CASE d = c
      BY <1>1, <1>4, <1>5, <2>2 DEF Happened
    <2>3. CASE d # c /\ KeyOf[d] = k
      BY <1>2, <1>4, <1>5, <2>1, <2>3
    <2>4. CASE d # c /\ KeyOf[d] # k
      BY <1>4, <1>5, <2>1, <2>4 DEF Happened
    <2> QED
      BY <2>2, <2>3, <2>4
  <1> QED
    BY <1>3, <1>6, CompleteStep

\* What is answered from a row that was found is a result, a conflict, never "busy".
LEMMA FromRowResult ==
    ASSUME RowsComplete, NEW c \in Call, KeyRow(c) # NoRow
    PROVE  /\ FromRow(c, KeyRow(c)).kind # "busy"
           /\ FromRow(c, KeyRow(c)).kind = "value" => IsResult(c, FromRow(c, KeyRow(c)).of)
  <1>1. KeyOf[c] \in Key
    BY IdempotencyAssumption
  <1>2. /\ KeyRow(c).status = "completed"
        /\ KeyRow(c).of \in Call /\ KeyOf[KeyRow(c).of] = KeyOf[c]
    BY <1>1 DEF RowsComplete, KeyRow
  <1> QED
    BY <1>2 DEF FromRow, Response, Value, IsResult, KeyRow

\* The invariant is inductive.
LEMMA Step == IInv /\ [Next]_vars => IInv'
  <1> SUFFICES ASSUME IInv, [Next]_vars PROVE IInv'
    OBVIOUS
  <1>1. TypeOK'
    BY TypeStep
  <1>2. /\ TypeOK /\ RowsComplete /\ BusyHaveCall /\ AnswersAreResults /\ ToldAreResults
        /\ HolderAlone
    BY DEF IInv
  \* A request that answers without effect.
  <1>3. ASSUME NEW r \in Req, call[r] \in Call, NEW a, Reply(r, a), Served, UNCHANGED server,
               a.kind # "busy", a.kind = "value" => IsResult(call[r], a.of)
        PROVE  IInv'
    <2>1. /\ pc' = [pc EXCEPT ![r] = "reply"] /\ answer' = [answer EXCEPT ![r] = a]
          /\ call' = call /\ told' = told
      BY <1>3 DEF Reply, Served
    <2>2. \A q \in Req : pc'[q] = "mutate" => pc[q] = "mutate"
      BY <1>2, <2>1 DEF TypeOK
    <2>3. \A q \in Req : pc'[q] # "idle" => call'[q] \in Call
      BY <1>2, <1>3, <2>1 DEF TypeOK, BusyHaveCall
    <2>4. \A q \in Req : /\ answer'[q].kind # "busy"
                         /\ answer'[q].kind = "value" =>
                              pc'[q] = "reply" /\ IsResult(call'[q], answer'[q].of)
      BY <1>2, <1>3, <2>1 DEF TypeOK, AnswersAreResults
    <2> QED
      BY <1>1, <1>2, <1>3, <2>1, <2>2, <2>3, <2>4, QuietStep DEF server, ToldAreResults
  \* A request that goes on.
  <1>4. ASSUME NEW r \in Req, call[r] \in Call, pc[r] # "reply", NEW s \in Steps, Goto(r, s),
               Served, UNCHANGED server,
               s = "mutate" => call[r] \notin Reserving \/ (~Held(r) /\ KeyRow(call[r]) = NoRow)
        PROVE  IInv'
    <2>1. /\ pc' = [pc EXCEPT ![r] = s] /\ answer' = answer /\ call' = call /\ told' = told
      BY <1>4 DEF Goto, Served
    <2>2. \A q \in Req : pc'[q] = "mutate" =>
              \/ pc[q] = "mutate" /\ call'[q] = call[q]
              \/ call'[q] \notin Reserving
              \/ call'[q] = call[q] /\ ~Held(q) /\ KeyRow(call[q]) = NoRow
                 /\ \A p \in Req \ {q} : pc'[p] = pc[p] /\ call'[p] = call[p]
      BY <1>2, <1>4, <2>1 DEF TypeOK
    <2>3. \A q \in Req : pc'[q] # "idle" => call'[q] \in Call
      BY <1>2, <1>4, <2>1 DEF TypeOK, BusyHaveCall
    <2>4. \A q \in Req : /\ answer'[q].kind # "busy"
                         /\ answer'[q].kind = "value" =>
                              pc'[q] = "reply" /\ IsResult(call'[q], answer'[q].of)
      BY <1>2, <1>4, <2>1 DEF TypeOK, AnswersAreResults
    <2> QED
      BY <1>1, <1>2, <1>4, <2>1, <2>2, <2>3, <2>4, QuietStep DEF server, ToldAreResults
  \* A request that ends.
  <1>5. ASSUME NEW r \in Req, Leave(r), UNCHANGED server,
               \A c \in Call : told'[c] # NoCall => IsResult(c, told'[c])
        PROVE  IInv'
    <2>1. /\ pc' = [pc EXCEPT ![r] = "idle"] /\ call' = [call EXCEPT ![r] = NoCall]
          /\ answer' = [answer EXCEPT ![r] = Response("none")]
      BY <1>5 DEF Leave
    <2>2. \A q \in Req : pc'[q] = "mutate" => pc[q] = "mutate" /\ call'[q] = call[q]
      BY <1>2, <2>1 DEF TypeOK
    <2>3. \A q \in Req : pc'[q] # "idle" => call'[q] \in Call
      BY <1>2, <2>1 DEF TypeOK, BusyHaveCall
    <2>4. \A q \in Req : /\ answer'[q].kind # "busy"
                         /\ answer'[q].kind = "value" =>
                              pc'[q] = "reply" /\ IsResult(call'[q], answer'[q].of)
      BY <1>2, <2>1 DEF TypeOK, AnswersAreResults, Response
    <2> QED
      BY <1>1, <1>5, <2>2, <2>3, <2>4, QuietStep DEF server
  <1>6. \A kind \in {"refused", "asIs", "conflict", "error"} :
           Response(kind).kind # "busy" /\ Response(kind).kind # "value"
    BY DEF Response
  <1>7. ASSUME NEW r \in Req, Lookup(r) PROVE IInv'
    <2>1. call[r] \in Call /\ pc[r] = "lookup"
      BY <1>2, <1>7 DEF Lookup, At, BusyHaveCall
    <2>2. CASE KeyRow(call[r]) = NoRow
      BY <1>4, <1>7, <2>1, <2>2 DEF Lookup, Steps
    <2>3. CASE KeyRow(call[r]) # NoRow
      BY <1>2, <1>3, <1>7, <2>1, <2>3, FromRowResult DEF Lookup
    <2> QED
      BY <2>2, <2>3
  <1>8. ASSUME NEW r \in Req, Insert(r) PROVE IInv'
    <2>1. call[r] \in Call /\ pc[r] = "insert"
      BY <1>2, <1>8 DEF Insert, At, BusyHaveCall
    <2> QED
      BY <1>4, <1>8, <2>1 DEF Insert, Steps
  <1>9. ASSUME NEW r \in Req, MutateReserved(r) PROVE IInv'
    <2>1. call[r] \in Call /\ pc[r] = "mutate" /\ Served
      BY <1>2, <1>9 DEF MutateReserved, At, BusyHaveCall
    <2>2. CASE Commit(r) \/ CommitAsIs(r)
      BY <1>1, <1>2, <1>9, <2>1, <2>2, CommitStep DEF MutateReserved, HolderAlone, At
    <2>3. CASE Reply(r, Response("refused")) /\ UNCHANGED server
      BY <1>3, <1>6, <2>1, <2>3
    <2>4. CASE Goto(r, "canonical") /\ UNCHANGED server
      BY <1>4, <2>1, <2>4 DEF Steps
    <2> QED
      BY <1>9, <2>2, <2>3, <2>4 DEF MutateReserved
  <1>10. ASSUME NEW r \in Req, MutateStored(r) PROVE IInv'
    <2>1. call[r] \in Call /\ At(r, "mutate") /\ Served
      BY <1>2, <1>10 DEF MutateStored, At, BusyHaveCall
    <2>2. CASE ~Held(r) /\ KeyRow(call[r]) = NoRow /\ Commit(r)
      BY <1>1, <2>1, <2>2, CommitStep
    <2>3. ASSUME NEW kind \in {"refused", "asIs", "error"}, Reply(r, Response(kind)),
                 UNCHANGED server
          PROVE  IInv'
      BY <1>3, <1>6, <2>1, <2>3
    <2> QED
      BY <1>10, <2>2, <2>3 DEF MutateStored
  <1>11. ASSUME NEW r \in Req, Canonical(r) PROVE IInv'
    <2>1. call[r] \in Call
      BY <1>2, <1>11 DEF Canonical, At, BusyHaveCall
    <2>2. CASE KeyRow(call[r]) = NoRow
      BY <1>3, <1>6, <1>11, <2>1, <2>2 DEF Canonical
    <2>3. CASE KeyRow(call[r]) # NoRow
      BY <1>2, <1>3, <1>11, <2>1, <2>3, FromRowResult DEF Canonical
    <2> QED
      BY <2>2, <2>3
  <1>12. ASSUME NEW r \in Req, Die(r) PROVE IInv'
    BY <1>2, <1>5, <1>12 DEF Die, ToldAreResults
  <1>13. ASSUME NEW r \in Req, Timeout(r) PROVE IInv'
    BY <1>1, <1>2, <1>13, QuietStep
    DEF Timeout, server, BusyHaveCall, AnswersAreResults, ToldAreResults
  <1>14. ASSUME NEW r \in Req, Deliver(r) PROVE IInv'
    <2>1. call[r] \in Call
      BY <1>2, <1>14 DEF Deliver, At, BusyHaveCall
    <2>2. told' = [told EXCEPT ![call[r]] = IF answer[r].kind = "value" THEN answer[r].of ELSE @]
      BY <1>14 DEF Deliver
    <2>3. \A c \in Call : told'[c] # NoCall => IsResult(c, told'[c])
      BY <1>2, <2>1, <2>2 DEF TypeOK, ToldAreResults, AnswersAreResults
    <2> QED
      BY <1>5, <1>14, <2>3 DEF Deliver
  <1>15. ASSUME NEW r \in Req, Drop(r) PROVE IInv'
    BY <1>2, <1>5, <1>15 DEF Drop, ToldAreResults
  <1>16. ASSUME NEW r \in Req, NEW c \in Call, Send(r, c) PROVE IInv'
    <2>1. /\ pc[r] = "idle" /\ pc' = [pc EXCEPT ![r] = "lookup"] /\ answer' = answer
          /\ call' = [call EXCEPT ![r] = c] /\ told' = told /\ UNCHANGED server
      BY <1>16 DEF Send, At, Goto
    <2>2. \A q \in Req : pc'[q] = "mutate" => pc[q] = "mutate" /\ call'[q] = call[q]
      BY <1>2, <2>1 DEF TypeOK
    <2>3. \A q \in Req : pc'[q] # "idle" => call'[q] \in Call
      BY <1>2, <2>1 DEF TypeOK, BusyHaveCall
    <2>4. \A q \in Req : /\ answer'[q].kind # "busy"
                         /\ answer'[q].kind = "value" =>
                              pc'[q] = "reply" /\ IsResult(call'[q], answer'[q].of)
      BY <1>2, <2>1 DEF TypeOK, AnswersAreResults
    <2> QED
      BY <1>1, <1>2, <2>1, <2>2, <2>3, <2>4, QuietStep DEF server, ToldAreResults
  <1>17. ASSUME UNCHANGED vars PROVE IInv'
    BY <1>1, <1>2, <1>17, QuietStep
    DEF vars, BusyHaveCall, AnswersAreResults, ToldAreResults
  <1>18. ASSUME NEW o \in Order, SettleElsewhere(o) PROVE IInv'
    BY <1>1, <1>2, <1>18, QuietStep
    DEF SettleElsewhere, BusyHaveCall, AnswersAreResults, ToldAreResults
  <1> QED
    BY <1>7, <1>8, <1>9, <1>10, <1>11, <1>12, <1>13, <1>14, <1>15, <1>16, <1>17, <1>18
    DEF Next, Serve

LEMMA Invariance == Spec => []IInv
  BY Initial, Step, PTL DEF Spec

-----------------------------------------------------------------------------

\* TypeOK holds in every reachable state.
THEOREM Types == Spec => []TypeOK
  <1>1. IInv => TypeOK
    BY DEF IInv
  <1> QED
    BY <1>1, Invariance, PTL

\* OneEffect holds however many requests, clients and failures there are: under
\* one key one call takes effect, once, through either protocol.
THEOREM EffectsAreUnique == Spec => []OneEffect
  <1>1. IInv => OneEffect
    BY DEF IInv, OwnerHasEffect, OneEffect
  <1> QED
    BY <1>1, Invariance, PTL

\* AnswerTellsEffect: no client is given a result that has not happened or that
\* belongs to a request with another hash.  What has happened of a settlement is
\* that its order is closed with payments, its own or those of another.
THEOREM ResultsAreTrue == Spec => []AnswerTellsEffect
  <1>1. IInv => AnswerTellsEffect
    <2> SUFFICES ASSUME IInv, NEW c \in Call, told[c] # NoCall
                 PROVE  /\ Happened(told[c])
                        /\ KeyOf[told[c]] = KeyOf[c] /\ Hash(told[c]) = Hash(c)
                        /\ c \in Reserving => told[c] = c
      BY DEF AnswerTellsEffect
    <2>1. IsResult(c, told[c])
      BY DEF IInv, ToldAreResults
    <2>2. Happened(told[c])
      BY <2>1 DEF IInv, OwnerHasEffect, IsResult
    <2>3. c \in Reserving => told[c] = c
      BY <2>1 DEF IsResult, Hash
    <2> QED
      BY <2>1, <2>2, <2>3 DEF IsResult
  <1> QED
    BY <1>1, Invariance, PTL

\* NeverHalfDone: no request meets a key whose effect is still open, so none is
\* refused because of a request that died.
THEOREM KeysAreNeverHalfDone == Spec => []NeverHalfDone
  <1>1. IInv => NeverHalfDone
    BY DEF IInv, AnswersAreResults, NeverHalfDone
  <1> QED
    BY <1>1, Invariance, PTL

\* ImplementsRegister: every step of the two protocols is a step of KeyRegister,
\* a completion takes the key and a delivered result tells of its owner, or a stutter.
THEOREM Implementation == Spec => ImplementsRegister
  <1> DEFINE owner == [k \in Key |-> row[k].of]
  <1>1. Init => Register!Init
    BY DEF Init, Register!Init, NoRow
  <1>2. ASSUME IInv, [Next]_vars
        PROVE  [Register!Next]_(Register!register)
    <2> USE IdempotencyAssumption, <1>2
    <2>1. CASE row' = row /\ told' = told
      BY <2>1 DEF Register!register
    <2>2. ASSUME NEW r \in Req, At(r, "mutate"), KeyRow(call[r]) = NoRow, Complete(r), Served
          PROVE  Register!Next
      <3>0. PICK c \in Call : c = call[r]
        BY <2>2 DEF IInv, BusyHaveCall, At
      <3>1. KeyOf[c] \in Key
        OBVIOUS
      <3>2. row' = [row EXCEPT ![KeyOf[c]] = Row("completed", c)] /\ told' = told
        BY <2>2, <3>0 DEF Complete, Served
      <3>3. owner[KeyOf[c]] = NoCall
        BY <2>2, <3>0, <3>1 DEF KeyRow, NoRow
      <3>4. owner' = [owner EXCEPT ![KeyOf[c]] = c]
        BY <3>1, <3>2 DEF IInv, TypeOK, Row
      <3>5. Register!Take(c)
        BY <3>2, <3>3, <3>4 DEF Register!Take
      <3> QED
        BY <3>5 DEF Register!Next
    <2>3. ASSUME NEW r \in Req, Deliver(r)
          PROVE  Register!Next \/ (row' = row /\ told' = told)
      <3> DEFINE c == call[r]
      <3>1. c \in Call /\ row' = row
        BY <2>3 DEF IInv, BusyHaveCall, Deliver, At, server
      <3>2. CASE answer[r].kind # "value"
        BY <2>3, <3>1, <3>2 DEF Deliver, IInv, TypeOK
      <3>3. CASE answer[r].kind = "value"
        <4>1. IsResult(c, answer[r].of) /\ KeyOf[c] \in Key
          BY <3>1, <3>3 DEF IInv, AnswersAreResults
        <4>2. /\ owner[KeyOf[c]] = answer[r].of /\ owner' = owner
              /\ owner[KeyOf[c]] # NoCall
              /\ Hash(owner[KeyOf[c]]) = Hash(c)
              /\ owner[KeyOf[c]] \in Call
          BY <3>1, <4>1 DEF IsResult
        <4>3. told' = [told EXCEPT ![c] = answer[r].of]
          BY <2>3, <3>3 DEF Deliver
        <4>4. Register!Tell(c)
          BY <3>1, <4>2, <4>3 DEF Register!Tell
        <4> QED
          BY <3>1, <4>4 DEF Register!Next
      <3> QED
        BY <3>2, <3>3
    <2>4. ASSUME NEW r \in Req, MutateReserved(r)
          PROVE  Register!Next \/ (row' = row /\ told' = told)
      <3>1. KeyRow(call[r]) = NoRow
        BY <2>4 DEF IInv, HolderAlone, MutateReserved, At
      <3> QED
        BY <2>2, <2>4, <3>1 DEF MutateReserved, Commit, CommitAsIs, Served, server
    <2>5. ASSUME NEW r \in Req, MutateStored(r)
          PROVE  Register!Next \/ (row' = row /\ told' = told)
      BY <2>2, <2>5 DEF MutateStored, Commit, Served, server
    <2>6. ASSUME NEW r \in Req,
                 \/ Lookup(r) \/ Insert(r) \/ Canonical(r) \/ Die(r) \/ Timeout(r) \/ Drop(r)
                 \/ \E c \in Call : Send(r, c)
          PROVE  row' = row /\ told' = told
      BY <2>6 DEF Lookup, Insert, Canonical, Die, Timeout, Drop, Send, Served, server
    <2>7. UNCHANGED vars \/ (\E o \in Order : SettleElsewhere(o)) => row' = row /\ told' = told
      BY DEF vars, SettleElsewhere
    <2> QED
      BY <2>1, <2>3, <2>4, <2>5, <2>6, <2>7 DEF Next, Serve
  <1> QED
    BY <1>1, <1>2, Invariance, PTL DEF Spec, ImplementsRegister, Register!Spec

=============================================================================
