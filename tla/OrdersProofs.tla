---------------------------- MODULE OrdersProofs ----------------------------
(* Theorems about Orders, for every set of orders, tables and requests, every *)
(* bound and, where a theorem does not name one, for both databases.          *)
EXTENDS Orders, TLAPS

LEMMA BlankType == Blank \in Local
<1>1. (CHOOSE o \in Order : TRUE) \in Order
  BY OrdersAssumption
<1>2. 1 \in Versions /\ 0 \in 0..MaxVersion /\ 0 \in 0..MaxItems
  BY OrdersAssumption DEF Versions
<1>3. QED
  BY <1>1, <1>2 DEF Blank, Local, Notices

\* A call starts a request that has carried out nothing and read nothing.
LEMMA SubmitType ==
    ASSUME TypeOK, NEW r \in Req, Submit(r)
    PROVE  /\ pc' \in [Req -> Steps] /\ loc' \in [Req -> Local]
           /\ pc'[r] \notin TxSteps \cup {"chargeInsert", "chargeMark", "chargeCheck"}
           /\ pc'[r] = "transferRead" => loc'[r].table \in Table
           /\ \A q \in Req \ {r} : pc'[q] = pc[q] /\ loc'[q] = loc[q]
<1>. DEFINE Goal == /\ pc' \in [Req -> Steps] /\ loc' \in [Req -> Local]
                    /\ pc'[r] \notin TxSteps \cup {"chargeInsert", "chargeMark", "chargeCheck"}
                    /\ pc'[r] = "transferRead" => loc'[r].table \in Table
                    /\ \A q \in Req \ {r} : pc'[q] = pc[q] /\ loc'[q] = loc[q]
<1>1. ASSUME NEW op \in Handlers, NEW body \in Local, Begin(r, op, body),
             op = "transferTable" => body.table \in Table
      PROVE  Goal
  <2>1. FirstStep[op] \in Steps \ (TxSteps \cup {"chargeInsert", "chargeMark", "chargeCheck"})
    BY DEF FirstStep, Steps, TxSteps, Handlers
  <2>2. FirstStep[op] = "transferRead" => op = "transferTable"
    BY DEF FirstStep, Handlers
  <2>3. QED
    BY <2>1, <2>2, <1>1 DEF TypeOK, Begin
<1>. HIDE DEF Goal
<1>2. ASSUME NEW t \in Table \cup {NoTable},
             Begin(r, "createOrder", [Blank EXCEPT !.table = t])
      PROVE  Goal
  <2>1. [Blank EXCEPT !.table = t] \in Local BY BlankType DEF Local
  <2>2. QED BY <2>1, <1>1, <1>2 DEF Handlers
<1>3. ASSUME NEW o \in Existing, NEW v \in ExpectedVersions(o),
             NEW op \in {"addItem", "settleOrder", "closeOrder", "createCharge"},
             Begin(r, op, [Blank EXCEPT !.order = o, !.expected = v])
      PROVE  Goal
  <2>1. o \in Order /\ v \in 0..MaxVersion
    BY OrdersAssumption DEF Existing, ExpectedVersions, TypeOK
  <2>2. [Blank EXCEPT !.order = o, !.expected = v] \in Local BY <2>1, BlankType DEF Local
  <2>3. QED BY <2>2, <1>1, <1>3 DEF Handlers
<1>4. ASSUME NEW o \in Existing, NEW v \in ExpectedVersions(o),
             NEW s \in {"sentToKitchen", "delivered"},
             Begin(r, "updateOrderStatus",
                   [Blank EXCEPT !.order = o, !.expected = v, !.to = s])
      PROVE  Goal
  <2>1. o \in Order /\ v \in 0..MaxVersion
    BY OrdersAssumption DEF Existing, ExpectedVersions, TypeOK
  <2>2. [Blank EXCEPT !.order = o, !.expected = v, !.to = s] \in Local
    BY <2>1, BlankType DEF Local
  <2>3. QED BY <2>2, <1>1, <1>4 DEF Handlers
<1>5. ASSUME NEW o \in Existing, NEW t \in Table,
             Begin(r, "transferTable", [Blank EXCEPT !.order = o, !.table = t])
      PROVE  Goal
  <2>1. /\ [Blank EXCEPT !.order = o, !.table = t] \in Local
        /\ [Blank EXCEPT !.order = o, !.table = t].table = t
    BY BlankType DEF Local, Existing
  <2>2. QED BY <2>1, <1>1, <1>5 DEF Handlers
<1>6. ASSUME NEW o \in Existing, NEW v \in Versions, NEW n \in Notices,
             Begin(r, "receive", [Blank EXCEPT !.order = o, !.charge = v, !.notice = n])
      PROVE  Goal
  <2>1. [Blank EXCEPT !.order = o, !.charge = v, !.notice = n] \in Local
    BY BlankType DEF Local, Existing
  <2>2. QED BY <2>1, <1>1, <1>6 DEF Handlers
<1>7. ASSUME NEW t \in Table, Begin(r, "deleteTable", [Blank EXCEPT !.table = t])
      PROVE  Goal
  <2>1. [Blank EXCEPT !.table = t] \in Local BY BlankType DEF Local
  <2>2. QED BY <2>1, <1>1, <1>7 DEF Handlers
<1>8. ASSUME NEW t \in Table, NEW e \in BOOLEAN,
             Begin(r, "updateTable", [Blank EXCEPT !.table = t, !.enable = e])
      PROVE  Goal
  <2>1. [Blank EXCEPT !.table = t, !.enable = e] \in Local BY BlankType DEF Local
  <2>2. QED BY <2>1, <1>1, <1>8 DEF Handlers
<1>9. Goal
  BY <1>2, <1>3, <1>4, <1>5, <1>6, <1>7, <1>8, ZenonT(60) DEF Submit
<1>10. QED BY <1>9 DEF Goal

LEMMA RememberType ==
    ASSUME loc \in [Req -> Local], NEW r \in Req,
           NEW seen \in 0..MaxVersion, NEW bill \in 0..MaxItems, Remember(r, seen, bill)
    PROVE  /\ loc' \in [Req -> Local]
           /\ loc'[r].order = loc[r].order /\ loc'[r].charge = loc[r].charge
           /\ loc'[r].seen = seen /\ loc'[r].bill = bill
           /\ \A q \in Req \ {r} : loc'[q] = loc[q]
<1>. DEFINE b == loc[r]
            c == [b EXCEPT !.seen = seen, !.bill = bill]
<1>1. b \in Local
  OBVIOUS
<1>2. loc' = [loc EXCEPT ![r] = c]
  BY DEF Remember
<1>. HIDE DEF b
<1>3. /\ c \in Local /\ c.order = b.order /\ c.charge = b.charge
      /\ c.seen = seen /\ c.bill = bill
  BY <1>1 DEF Local
<1>. HIDE DEF c
<1>4. QED
  BY <1>2, <1>3 DEF b

LEMMA FinishType ==
    ASSUME TypeOK, NEW r \in Req, Finish(r)
    PROVE  /\ pc' \in [Req -> Steps] /\ loc' \in [Req -> Local]
           /\ pc'[r] = "idle"
           /\ \A q \in Req \ {r} : pc'[q] = pc[q] /\ loc'[q] = loc[q]
BY BlankType DEF Finish, TypeOK, Steps

LEMMA GotoType ==
    ASSUME TypeOK, NEW r \in Req, NEW step \in Steps, Goto(r, step)
    PROVE  /\ pc' \in [Req -> Steps] /\ pc'[r] = step
           /\ \A q \in Req \ {r} : pc'[q] = pc[q]
BY DEF Goto, TypeOK

-----------------------------------------------------------------------------
(* Type correctness *)

LEMMA LocType ==
    ASSUME TypeOK, NEW r \in Req
    PROVE  /\ loc[r].order \in Order /\ loc[r].expected \in 0..MaxVersion
           /\ loc[r].to \in {"sentToKitchen", "delivered"}
           /\ loc[r].table \in Table \cup {NoTable} /\ loc[r].charge \in Versions
           /\ loc[r].notice \in Notices /\ loc[r].enable \in BOOLEAN
           /\ loc[r].seen \in 0..MaxVersion /\ loc[r].bill \in 0..MaxItems
BY DEF TypeOK, Local

LEMMA IncrementType ==
    ASSUME TypeOK, NEW o \in Order, Increment(o)
    PROVE  /\ version' \in [Order -> 0..MaxVersion]
           /\ version'[o] = version[o] + 1 /\ version[o] + 1 \in Versions
           /\ \A p \in Order \ {o} : version'[p] = version[p]
BY OrdersAssumption DEF Increment, TypeOK, Versions

LEMMA AddPaymentType ==
    ASSUME TypeOK, NEW o \in Order, Increment(o),
           NEW v \in 0..MaxVersion, NEW n \in 0..MaxItems, AddPayment(o, v, n)
    PROVE  /\ payments' \in [Order -> SUBSET Payment]
           /\ payments'[o] = payments[o] \cup
                 {[charge |-> v, at |-> version[o] + 1, amount |-> n]}
           /\ \A p \in Order \ {o} : payments'[p] = payments[p]
<1>1. [charge |-> v, at |-> version[o] + 1, amount |-> n] \in Payment
  BY IncrementType DEF Payment
<1>2. QED
  BY <1>1 DEF AddPayment, TypeOK

LEMMA BookSaleType ==
    ASSUME TypeOK, NEW o \in Order, NEW n \in 0..MaxItems, BookSale(o, n)
    PROVE  sold' \in [Order -> 0..MaxItems]
BY DEF BookSale, TypeOK

LEMMA InitType == Init => TypeOK
<1>1. 0 \in 0..MaxVersion /\ 0 \in 0..MaxItems
  BY OrdersAssumption
<1>2. QED
  BY <1>1, BlankType DEF Init, TypeOK, Statuses, ChargeStatuses, Steps

LEMMA StepType ==
    ASSUME TypeOK, NEW r \in Req, Step(r)
    PROVE  TypeOK'
<1>. USE DEF orderVars, chargeVars
<1>1. CASE Submit(r)
  BY <1>1, SubmitType DEF TypeOK, Submit
<1>2. CASE Reject(r)
  BY <1>2, FinishType DEF TypeOK, Reject
<1>3. CASE CreateLookup(r)
  BY <1>3, GotoType DEF TypeOK, CreateLookup, Steps
<1>4. CASE CreateCheck(r)
  BY <1>4, GotoType DEF TypeOK, CreateCheck, Steps, TxSteps
<1>5. CASE CreateInsert(r)
  <2>1. 1 \in 0..MaxVersion
    BY OrdersAssumption
  <2>2. QED
    BY <1>5, <2>1, FinishType, LocType DEF TypeOK, CreateInsert, Statuses
<1>6. CASE StatusCheck(r)
  BY <1>6, GotoType DEF TypeOK, StatusCheck, Steps, TxSteps
<1>7. CASE StatusWrite(r)
  BY <1>7, FinishType, LocType, IncrementType DEF TypeOK, StatusWrite, Statuses
<1>8. CASE ItemCheck(r)
  BY <1>8, GotoType DEF TypeOK, ItemCheck, Steps, TxSteps
<1>9. CASE ItemWrite(r)
  <2>1. items' \in [Order -> 0..MaxItems]
    BY <1>9, OrdersAssumption, LocType DEF TypeOK, ItemWrite
  <2>2. QED
    BY <1>9, <2>1, FinishType, LocType, IncrementType DEF TypeOK, ItemWrite
<1>10. CASE SettleRead(r)
  <2>1. loc' \in [Req -> Local]
    BY <1>10, RememberType, LocType DEF TypeOK, SettleRead
  <2>2. QED
    BY <1>10, <2>1, GotoType DEF TypeOK, SettleRead, Steps, TxSteps
<1>11. CASE SettleWrite(r)
  <2>1. payments' \in [Order -> SUBSET Payment]
    BY <1>11, OrdersAssumption, AddPaymentType, LocType DEF SettleWrite
  <2>2. QED
    BY <1>11, <2>1, FinishType, LocType, IncrementType, BookSaleType
       DEF TypeOK, SettleWrite, Statuses, Finished
<1>12. CASE TransferRead(r)
  BY <1>12, GotoType DEF TypeOK, TransferRead, Steps, TxSteps
<1>13. CASE TransferWrite(r)
  BY <1>13, FinishType, LocType, IncrementType DEF TypeOK, TransferWrite
<1>14. CASE CloseWrite(r)
  BY <1>14, FinishType, LocType, IncrementType DEF TypeOK, CloseWrite, Statuses, Finished
<1>15. CASE ChargeRead(r)
  <2>1. loc' \in [Req -> Local]
    BY <1>15, RememberType, LocType DEF TypeOK, ChargeRead
  <2>2. QED
    BY <1>15, <2>1, GotoType DEF TypeOK, ChargeRead, Steps
<1>16. CASE ChargeInsert(r)
  BY <1>16, FinishType, LocType DEF TypeOK, ChargeInsert, ChargeStatuses
<1>17. CASE ReceiveRead(r)
  BY <1>17, GotoType DEF TypeOK, ReceiveRead, Steps
<1>18. CASE ChargeMark(r)
  BY <1>18, FinishType, LocType DEF TypeOK, ChargeMark, ChargeStatuses
<1>19. CASE ChargeCheck(r)
  <2>1. loc' \in [Req -> Local]
    BY <1>19, RememberType, LocType DEF TypeOK, ChargeCheck
  <2>2. QED
    BY <1>19, <2>1, GotoType DEF TypeOK, ChargeCheck, Steps, TxSteps
<1>20. CASE ChargeSettle(r)
  <2>1. payments' \in [Order -> SUBSET Payment]
    BY <1>20, OrdersAssumption, AddPaymentType, LocType DEF ChargeSettle, Versions
  <2>2. chargeStatus' \in [Order -> [Versions -> ChargeStatuses]]
    BY <1>20, LocType DEF TypeOK, ChargeSettle, ChargeStatuses, Notices
  <2>3. QED
    BY <1>20, <2>1, <2>2, FinishType, LocType, IncrementType, BookSaleType
       DEF TypeOK, ChargeSettle, Statuses, Finished
<1>21. CASE TableCheck(r)
  BY <1>21, GotoType DEF TypeOK, TableCheck, Steps
<1>22. CASE TableDelete(r)
  BY <1>22, FinishType, LocType DEF TypeOK, TableDelete
<1>23. CASE TablePatch(r)
  BY <1>23, FinishType, LocType DEF TypeOK, TablePatch
<1>24. QED
  BY <1>1, <1>2, <1>3, <1>4, <1>5, <1>6, <1>7, <1>8, <1>9, <1>10, <1>11, <1>12,
     <1>13, <1>14, <1>15, <1>16, <1>17, <1>18, <1>19, <1>20, <1>21, <1>22, <1>23
     DEF Step

\* Type correctness of every reachable state: the rows stay in their columns'
\* ranges and every request is at a step of its handler with the data it carries.
THEOREM TypeCorrect == Spec => []TypeOK
<1>1. TypeOK /\ [Next]_vars => TypeOK'
  <2>1. ASSUME TypeOK, UNCHANGED vars
        PROVE  TypeOK'
    BY <2>1 DEF TypeOK, vars, orderVars, chargeVars
  <2>2. QED
    BY <2>1, StepType DEF Next
<1>2. QED
  BY <1>1, InitType, PTL DEF Spec

-----------------------------------------------------------------------------
(* The inductive invariants *)

AbsentIsBlank ==
    \A o \in Order : status[o] = "absent" =>
        version[o] = 0 /\ items[o] = 0 /\ payments[o] = {}

ClosedWhenPaid == \A o \in Order : payments[o] # {} => status[o] = "closed"

NeverCanceled == \A o \in Order : status[o] # "canceled"

\* As long as the version is the one read, the bill is the one read.
SettleReadHolds ==
    \A r \in Req : pc[r] = "settleWrite" =>
        /\ loc[r].seen <= version[loc[r].order]
        /\ loc[r].seen = version[loc[r].order] => loc[r].bill = items[loc[r].order]

OnlyUnpaidIsMarked == \A r \in Req : pc[r] = "chargeMark" => loc[r].notice = "expired"

\* What both databases guarantee.
CommonInv ==
    /\ TypeOK
    /\ AbsentIsBlank /\ ClosedWhenPaid /\ NeverCanceled
    /\ SettleReadHolds /\ OnlyUnpaidIsMarked
    /\ PaidChargeIsSettled /\ ChargePaysOnce /\ PaidTheBillByHand

OneTransaction ==
    \A q, r \in Req : pc[q] \in TxSteps /\ pc[r] \in TxSteps => q = r

\* What an open transaction has read is still so when it writes.
OpenReadsHold ==
    \A r \in Req :
        /\ pc[r] = "chargeSettle" => /\ status[loc[r].order] \notin Finished
                                     /\ loc[r].bill = items[loc[r].order]
        /\ pc[r] = "transferWrite" => status[loc[r].order] \notin Finished

\* What transactions that run alone guarantee on top of it.
SerialInv ==
    /\ CommonInv
    /\ OneTransaction /\ OpenReadsHold
    /\ SettledOnce /\ PaidTheBill /\ StockFollowsSettlement
    /\ FinishedFreesTable /\ OneOrderPerTable

-----------------------------------------------------------------------------
(* Steps, and what they leave alone *)

Quiet == UNCHANGED <<orderVars, chargeVars>>

LEMMA WriteOrQuiet ==
    ASSUME NEW r \in Req, Step(r)
    PROVE  \/ CreateInsert(r) \/ StatusWrite(r) \/ ItemWrite(r) \/ SettleWrite(r)
           \/ TransferWrite(r) \/ CloseWrite(r)
           \/ ChargeInsert(r) \/ ChargeMark(r) \/ ChargeSettle(r)
           \/ Quiet
<1>1. CASE Submit(r) \/ Reject(r)
  BY <1>1 DEF Submit, Reject, Quiet
<1>2. CASE CreateLookup(r) \/ CreateCheck(r) \/ StatusCheck(r) \/ ItemCheck(r)
  BY <1>2 DEF CreateLookup, CreateCheck, StatusCheck, ItemCheck, Quiet
<1>3. CASE SettleRead(r) \/ TransferRead(r) \/ ChargeRead(r)
  BY <1>3 DEF SettleRead, TransferRead, ChargeRead, Quiet
<1>4. CASE ReceiveRead(r) \/ ChargeCheck(r)
  BY <1>4 DEF ReceiveRead, ChargeCheck, Quiet
<1>5. CASE TableCheck(r) \/ TableDelete(r) \/ TablePatch(r)
  BY <1>5 DEF TableCheck, TableDelete, TablePatch, Quiet
<1>6. QED
  BY <1>1, <1>2, <1>3, <1>4, <1>5 DEF Step

\* Where a step leaves the control of the requests.
LEMMA ControlStep ==
    ASSUME TypeOK, NEW r \in Req, Step(r)
    PROVE  /\ \A q \in Req \ {r} : pc'[q] = pc[q] /\ loc'[q] = loc[q]
           /\ pc'[r] = "settleWrite" => SettleRead(r)
           /\ pc'[r] = "chargeMark" => ReceiveRead(r) /\ loc[r].notice # "paid"
           /\ pc'[r] = "chargeSettle" => ChargeCheck(r)
           /\ pc'[r] = "transferWrite" => TransferRead(r)
           /\ pc'[r] = "statusWrite" => StatusCheck(r)
           /\ pc'[r] = "itemWrite" => ItemCheck(r)
           /\ pc'[r] = "chargeInsert" => ChargeRead(r)
           /\ pc'[r] = "chargeCheck" => ReceiveRead(r)
           /\ pc'[r] = "transferRead" => loc'[r].table \in Table
           /\ pc'[r] \in TxSteps => MayUseDb(r)
<1>1. CASE Submit(r)
  BY <1>1, SubmitType DEF TxSteps, Submit, TypeOK
<1>2. CASE Reject(r)
  BY <1>2, FinishType DEF Reject, TxSteps
<1>3. CASE CreateLookup(r) \/ CreateCheck(r) \/ StatusCheck(r) \/ ItemCheck(r)
  BY <1>3, GotoType DEF CreateLookup, CreateCheck, StatusCheck, ItemCheck, TxSteps, Steps
<1>4. CASE CreateInsert(r) \/ StatusWrite(r) \/ ItemWrite(r)
  BY <1>4, FinishType DEF CreateInsert, StatusWrite, ItemWrite, TxSteps
<1>5. CASE SettleRead(r)
  BY <1>5, GotoType, RememberType, LocType DEF SettleRead, TxSteps, Steps, TypeOK
<1>6. CASE SettleWrite(r) \/ TransferWrite(r) \/ CloseWrite(r)
  BY <1>6, FinishType DEF SettleWrite, TransferWrite, CloseWrite, TxSteps
<1>7. CASE TransferRead(r)
  BY <1>7, GotoType DEF TransferRead, TxSteps, Steps
<1>8. CASE ChargeRead(r)
  <2>1. pc'[r] = "chargeInsert" /\ \A q \in Req \ {r} : pc'[q] = pc[q]
    BY <1>8, GotoType DEF ChargeRead, Steps
  <2>2. \A q \in Req \ {r} : loc'[q] = loc[q]
    BY <1>8, RememberType, LocType DEF ChargeRead, TypeOK
  <2>3. QED
    BY <1>8, <2>1, <2>2 DEF TxSteps
<1>9. CASE ChargeInsert(r) \/ ChargeMark(r) \/ ChargeSettle(r)
  BY <1>9, FinishType DEF ChargeInsert, ChargeMark, ChargeSettle, TxSteps
<1>10. CASE ReceiveRead(r)
  BY <1>10, GotoType DEF ReceiveRead, TxSteps, Steps
<1>11. CASE ChargeCheck(r)
  BY <1>11, GotoType, RememberType, LocType DEF ChargeCheck, TxSteps, Steps, TypeOK
<1>12. CASE TableCheck(r) \/ TableDelete(r) \/ TablePatch(r)
  BY <1>12, GotoType, FinishType DEF TableCheck, TableDelete, TablePatch, TxSteps, Steps
<1>13. QED
  BY <1>1, <1>2, <1>3, <1>4, <1>5, <1>6, <1>7, <1>8, <1>9, <1>10, <1>11, <1>12 DEF Step

\* A version never falls, and an unchanged version vouches for unchanged items.
LEMMA VersionVouches ==
    ASSUME TypeOK, AbsentIsBlank, NEW r \in Req, Step(r), NEW o \in Order
    PROVE  /\ version[o] <= version'[o]
           /\ version'[o] = version[o] => items'[o] = items[o]
<1>. DEFINE Goal == /\ version[o] <= version'[o]
                    /\ version'[o] = version[o] => items'[o] = items[o]
<1>1. CASE CreateInsert(r)
  BY <1>1, OrdersAssumption DEF CreateInsert, AbsentIsBlank, TypeOK
<1>2. ASSUME NEW w \in Order, Increment(w), \A p \in Order \ {w} : items'[p] = items[p]
      PROVE  Goal
  <2>1. \A p \in Order : version[p] \in Nat
    BY OrdersAssumption DEF TypeOK
  <2>2. QED
    BY <1>2, <2>1, IncrementType
<1>3. CASE StatusWrite(r) \/ SettleWrite(r) \/ TransferWrite(r) \/ CloseWrite(r) \/ ChargeSettle(r)
  BY <1>3, <1>2, LocType DEF StatusWrite, SettleWrite, TransferWrite, CloseWrite, ChargeSettle
<1>4. CASE ItemWrite(r)
  BY <1>4, <1>2, LocType DEF ItemWrite, TypeOK
<1>5. CASE ChargeInsert(r) \/ ChargeMark(r) \/ Quiet
  BY <1>5, OrdersAssumption DEF ChargeInsert, ChargeMark, Quiet, orderVars, TypeOK
<1>6. QED
  BY <1>1, <1>3, <1>4, <1>5, WriteOrQuiet

-----------------------------------------------------------------------------
(* The common invariant *)

\* The part of it that is about rows.
RowInv ==
    /\ AbsentIsBlank /\ ClosedWhenPaid /\ NeverCanceled
    /\ PaidChargeIsSettled /\ ChargePaysOnce /\ PaidTheBillByHand

\* A settlement writes its payment on an order without one for its charge.
LEMMA SettlementKeepsRows ==
    ASSUME CommonInv, NEW w \in Order, NEW v \in 0..MaxVersion, NEW n \in 0..MaxItems,
           status[w] # "absent", \A p \in payments[w] : p.charge # v,
           v = 0 => n = items[w],
           status' = [status EXCEPT ![w] = "closed"], Increment(w),
           AddPayment(w, v, n), UNCHANGED items,
           \A o \in Order, u \in Versions :
               chargeStatus'[o][u] = "paid" => chargeStatus[o][u] = "paid" \/ (o = w /\ u = v)
    PROVE  RowInv'
<1>1. TypeOK
  BY DEF CommonInv
<1>. DEFINE new == [charge |-> v, at |-> version[w] + 1, amount |-> n]
<1>2. /\ payments'[w] = payments[w] \cup {new}
      /\ \A o \in Order \ {w} : payments'[o] = payments[o]
  BY <1>1, AddPaymentType
<1>3. new.charge = v /\ new.amount = n
  OBVIOUS
<1>. HIDE DEF new
<1>4. status'[w] = "closed" /\ \A o \in Order \ {w} : status'[o] = status[o]
  BY <1>1 DEF TypeOK
<1>5. AbsentIsBlank'
  BY <1>1, <1>2, <1>4, IncrementType DEF CommonInv, AbsentIsBlank
<1>6. ClosedWhenPaid' /\ NeverCanceled'
  BY <1>2, <1>4 DEF CommonInv, ClosedWhenPaid, NeverCanceled
<1>7. PaidChargeIsSettled'
  <2>1. SUFFICES ASSUME NEW o \in Order, NEW u \in Versions, chargeStatus'[o][u] = "paid"
                 PROVE  status'[o] = "closed" /\ \E p \in payments'[o] : p.charge = u
    BY DEF PaidChargeIsSettled
  <2>2. CASE o = w /\ u = v
    BY <2>2, <1>2, <1>3, <1>4
  <2>3. CASE chargeStatus[o][u] = "paid"
    <3>1. status[o] = "closed" /\ \E p \in payments[o] : p.charge = u
      BY <2>3 DEF CommonInv, PaidChargeIsSettled
    <3>2. QED
      BY <3>1, <1>2, <1>4
  <2>4. QED
    BY <2>1, <2>2, <2>3
<1>8. ChargePaysOnce'
  BY <1>2, <1>3 DEF CommonInv, ChargePaysOnce
<1>9. PaidTheBillByHand'
  BY <1>2, <1>3 DEF CommonInv, PaidTheBillByHand
<1>10. QED
  BY <1>5, <1>6, <1>7, <1>8, <1>9 DEF RowInv

LEMMA RowStep ==
    ASSUME CommonInv, NEW r \in Req, Step(r)
    PROVE  RowInv'
<1>1. TypeOK /\ RowInv
  BY DEF CommonInv, RowInv
<1>2. loc[r].order \in Order /\ loc[r].charge \in Versions /\ loc[r].bill \in 0..MaxItems
  BY <1>1, LocType
<1>3. CASE CreateInsert(r)
  BY <1>3, <1>1 DEF CreateInsert, chargeVars, RowInv, TypeOK, AbsentIsBlank, ClosedWhenPaid,
        NeverCanceled, PaidChargeIsSettled, ChargePaysOnce, PaidTheBillByHand
<1>4. CASE StatusWrite(r)
  <2>. DEFINE w == loc[r].order
  <2>1. /\ status[w] \in {"open", "sentToKitchen"}
        /\ loc[r].to \in {"sentToKitchen", "delivered"}
    BY <1>4, <1>1, LocType DEF StatusWrite, StatusWhere, Previous
  <2>2. /\ status'[w] \in {"sentToKitchen", "delivered"}
        /\ \A o \in Order \ {w} : status'[o] = status[o]
    BY <1>4, <1>1, <1>2, <2>1 DEF StatusWrite, TypeOK
  <2>3. /\ \A o \in Order \ {w} : version'[o] = version[o]
        /\ items' = items /\ payments' = payments /\ chargeStatus' = chargeStatus
    BY <1>4, <1>1, <1>2, IncrementType DEF StatusWrite, chargeVars
  <2>. HIDE DEF w
  <2>4. QED
    BY <1>1, <2>1, <2>2, <2>3 DEF RowInv, AbsentIsBlank, ClosedWhenPaid, NeverCanceled,
        PaidChargeIsSettled, ChargePaysOnce, PaidTheBillByHand
<1>5. CASE ItemWrite(r)
  BY <1>5, <1>1, <1>2, IncrementType DEF ItemWrite, ItemWhere, chargeVars, RowInv, TypeOK, AbsentIsBlank,
        ClosedWhenPaid, NeverCanceled, PaidChargeIsSettled, ChargePaysOnce, PaidTheBillByHand
<1>6. CASE SettleWrite(r)
  <2>1. loc[r].bill = items[loc[r].order]
    BY <1>6, <1>1, <1>2 DEF SettleWrite, SettleWhere, At, CommonInv, SettleReadHolds
  <2>2. payments[loc[r].order] = {} /\ status[loc[r].order] # "absent"
    BY <1>6, <1>1, <1>2 DEF SettleWrite, SettleWhere, Unfinished, RowInv, ClosedWhenPaid
  <2>3. 0 \in 0..MaxVersion
    BY OrdersAssumption
  <2>4. QED
    BY <1>6, <1>2, <2>1, <2>2, <2>3, SettlementKeepsRows DEF SettleWrite, chargeVars
<1>7. CASE TransferWrite(r)
  BY <1>7, <1>1, <1>2, IncrementType DEF TransferWrite, chargeVars, RowInv, TypeOK,
        AbsentIsBlank, ClosedWhenPaid, NeverCanceled, PaidChargeIsSettled, ChargePaysOnce,
        PaidTheBillByHand
<1>8. CASE CloseWrite(r)
  BY <1>8, <1>1, <1>2, IncrementType DEF CloseWrite, Unfinished, chargeVars, RowInv, TypeOK,
        AbsentIsBlank, ClosedWhenPaid, NeverCanceled, PaidChargeIsSettled, ChargePaysOnce,
        PaidTheBillByHand
<1>9. CASE ChargeInsert(r)
  <2>1. \A o \in Order, u \in Versions :
            chargeStatus'[o][u] = "paid" => chargeStatus[o][u] = "paid"
    BY <1>9, <1>1, <1>2 DEF ChargeInsert, TypeOK
  <2>2. QED
    BY <1>9, <1>1, <2>1 DEF ChargeInsert, orderVars, RowInv, AbsentIsBlank, ClosedWhenPaid,
        NeverCanceled, PaidChargeIsSettled, ChargePaysOnce, PaidTheBillByHand
<1>10. CASE ChargeMark(r)
  <2>1. loc[r].notice = "expired"
    BY <1>10 DEF ChargeMark, At, CommonInv, OnlyUnpaidIsMarked
  <2>2. \A o \in Order, u \in Versions :
            chargeStatus'[o][u] = "paid" => chargeStatus[o][u] = "paid"
    BY <1>10, <1>1, <1>2, <2>1 DEF ChargeMark, TypeOK
  <2>3. QED
    BY <1>10, <1>1, <2>2 DEF ChargeMark, orderVars, RowInv, AbsentIsBlank, ClosedWhenPaid,
        NeverCanceled, PaidChargeIsSettled, ChargePaysOnce, PaidTheBillByHand
<1>11. CASE ChargeSettle(r)
  <2>1. \A o \in Order, u \in Versions :
            chargeStatus'[o][u] = "paid" =>
                chargeStatus[o][u] = "paid" \/ (o = loc[r].order /\ u = loc[r].charge)
    BY <1>11, <1>1, <1>2 DEF ChargeSettle, TypeOK
  <2>2. loc[r].charge \in 0..MaxVersion /\ loc[r].charge # 0
    BY <1>2, OrdersAssumption DEF Versions
  <2>3. QED
    BY <1>11, <1>2, <2>1, <2>2, SettlementKeepsRows DEF ChargeSettle, ChargeIndexAdmits
<1>12. CASE Quiet
  BY <1>12, <1>1 DEF Quiet, orderVars, chargeVars, RowInv, AbsentIsBlank, ClosedWhenPaid,
        NeverCanceled, PaidChargeIsSettled, ChargePaysOnce, PaidTheBillByHand
<1>13. QED
  BY <1>3, <1>4, <1>5, <1>6, <1>7, <1>8, <1>9, <1>10, <1>11, <1>12, WriteOrQuiet

LEMMA ReadStep ==
    ASSUME CommonInv, NEW r \in Req, Step(r)
    PROVE  SettleReadHolds' /\ OnlyUnpaidIsMarked'
<1>1. TypeOK /\ AbsentIsBlank
  BY DEF CommonInv
<1>2. SettleReadHolds'
  <2>1. SUFFICES ASSUME NEW q \in Req, pc'[q] = "settleWrite"
                 PROVE  /\ loc'[q].seen <= version'[loc'[q].order]
                        /\ loc'[q].seen = version'[loc'[q].order]
                             => loc'[q].bill = items'[loc'[q].order]
    BY DEF SettleReadHolds
  <2>2. CASE q = r
    <3>1. SettleRead(r)
      BY <1>1, <2>1, <2>2, ControlStep
    <3>2. /\ loc'[r].order = loc[r].order
          /\ loc'[r].seen = version[loc[r].order] /\ loc'[r].bill = items[loc[r].order]
      BY <3>1, <1>1, RememberType, LocType DEF SettleRead, TypeOK
    <3>3. version' = version /\ items' = items
      BY <3>1 DEF SettleRead, orderVars
    <3>4. version[loc[r].order] \in Nat
      BY <1>1, LocType, OrdersAssumption DEF TypeOK
    <3>5. QED
      BY <2>2, <3>2, <3>3, <3>4
  <2>3. CASE q # r
    <3>1. pc[q] = "settleWrite" /\ loc'[q] = loc[q]
      BY <1>1, <2>1, <2>3, ControlStep
    <3>. DEFINE o == loc[q].order
    <3>2. o \in Order /\ loc[q].seen \in Nat
      BY <1>1, LocType, OrdersAssumption
    <3>3. loc[q].seen <= version[o] /\ (loc[q].seen = version[o] => loc[q].bill = items[o])
      BY <3>1 DEF CommonInv, SettleReadHolds
    <3>4. version[o] <= version'[o] /\ (version'[o] = version[o] => items'[o] = items[o])
      BY <1>1, <3>2, VersionVouches
    <3>5. version[o] \in Nat /\ version'[o] \in Nat
      BY <1>1, <3>2, StepType, OrdersAssumption DEF TypeOK
    <3>. HIDE DEF o
    <3>6. QED
      BY <3>1, <3>2, <3>3, <3>4, <3>5 DEF o
  <2>4. QED
    BY <2>1, <2>2, <2>3
<1>3. OnlyUnpaidIsMarked'
  <2>1. SUFFICES ASSUME NEW q \in Req, pc'[q] = "chargeMark"
                 PROVE  loc'[q].notice = "expired"
    BY DEF OnlyUnpaidIsMarked
  <2>2. CASE q = r
    <3>1. ReceiveRead(r) /\ loc[r].notice # "paid"
      BY <1>1, <2>1, <2>2, ControlStep
    <3>2. QED
      BY <1>1, <2>2, <3>1, LocType DEF ReceiveRead, Notices
  <2>3. CASE q # r
    BY <1>1, <2>1, <2>3, ControlStep DEF CommonInv, OnlyUnpaidIsMarked
  <2>4. QED
    BY <2>2, <2>3
<1>4. QED
  BY <1>2, <1>3

LEMMA CommonInit == Init => CommonInv
BY InitType DEF Init, CommonInv, AbsentIsBlank, ClosedWhenPaid, NeverCanceled,
   SettleReadHolds, OnlyUnpaidIsMarked, PaidChargeIsSettled, ChargePaysOnce,
   PaidTheBillByHand

LEMMA CommonStep ==
    ASSUME CommonInv, NEW r \in Req, Step(r)
    PROVE  CommonInv'
BY StepType, RowStep, ReadStep DEF CommonInv, RowInv

LEMMA CommonStutter == ASSUME CommonInv, UNCHANGED vars PROVE CommonInv'
BY DEF vars, orderVars, chargeVars, CommonInv, TypeOK, AbsentIsBlank, ClosedWhenPaid,
   NeverCanceled, SettleReadHolds, OnlyUnpaidIsMarked, PaidChargeIsSettled,
   ChargePaysOnce, PaidTheBillByHand

LEMMA CommonInvariant == Spec => []CommonInv
<1>1. CommonInv /\ [Next]_vars => CommonInv'
  BY CommonStep, CommonStutter DEF Next
<1>2. QED
  BY <1>1, CommonInit, PTL DEF Spec

\* A charge marked paid has its payment on a closed order, whatever notices of it or
\* of other charges were handled meanwhile; on both databases.
THEOREM PaymentsAreSound == Spec => []PaidChargeIsSettled
BY CommonInvariant, PTL DEF CommonInv

\* Repeated and concurrent notices of one charge add one payment; on both databases.
THEOREM ChargesPayOnce == Spec => []ChargePaysOnce
BY CommonInvariant, PTL DEF CommonInv

\* A settlement by hand pays the bill of the order as it is when the order closes,
\* though the bill was computed in an earlier read; on both databases.
THEOREM HandPaysTheBill == Spec => []PaidTheBillByHand
BY CommonInvariant, PTL DEF CommonInv

-----------------------------------------------------------------------------
(* The status of an order *)

LEMMA StatusStep ==
    ASSUME CommonInv, NEW r \in Req, Step(r), NEW o \in Order, status'[o] # status[o]
    PROVE  Rank[status[o]] < Rank[status'[o]]
<1>1. TypeOK /\ status[o] # "canceled"
  BY DEF CommonInv, NeverCanceled
<1>2. status[o] \in {"absent", "open", "sentToKitchen", "delivered", "closed"}
  BY <1>1 DEF TypeOK, Statuses, Finished
<1>3. ASSUME NEW w \in Order, status' = [status EXCEPT ![w] = "closed"]
      PROVE  Rank[status[o]] < Rank[status'[o]]
  <2>1. status'[o] = "closed"
    BY <1>3, <1>1 DEF TypeOK
  <2>2. QED
    BY <1>2, <2>1 DEF Rank
<1>4. CASE CreateInsert(r)
  <2>1. status[o] = "absent" /\ status'[o] = "open"
    BY <1>4, <1>1 DEF CreateInsert, TypeOK
  <2>2. QED
    BY <2>1 DEF Rank
<1>5. CASE StatusWrite(r)
  <2>1. status[o] = Previous(loc[r].to) /\ status'[o] = loc[r].to
    BY <1>5, <1>1, LocType DEF StatusWrite, StatusWhere, TypeOK
  <2>2. loc[r].to \in {"sentToKitchen", "delivered"}
    BY <1>1, LocType
  <2>3. QED
    BY <2>1, <2>2 DEF Rank, Previous
<1>6. CASE SettleWrite(r) \/ CloseWrite(r) \/ ChargeSettle(r)
  BY <1>1, <1>3, <1>6, LocType DEF SettleWrite, CloseWrite, ChargeSettle
<1>7. CASE ItemWrite(r) \/ TransferWrite(r) \/ ChargeInsert(r) \/ ChargeMark(r) \/ Quiet
  BY <1>7 DEF ItemWrite, TransferWrite, ChargeInsert, ChargeMark, Quiet, orderVars
<1>8. QED
  BY <1>4, <1>5, <1>6, <1>7, WriteOrQuiet

\* On both databases the status of an order only advances: no pair of requests that
\* read the order open makes one undo the step of the other, and closed is final.
THEOREM StatusAdvances == Spec => StatusOnlyAdvances
<1>. DEFINE A == \A o \in Order : status'[o] # status[o] => Rank[status[o]] < Rank[status'[o]]
<1>1. CommonInv /\ [Next]_vars => [A]_vars
  BY StatusStep DEF Next
<1>2. QED
  BY <1>1, CommonInvariant, PTL DEF Spec, StatusOnlyAdvances

-----------------------------------------------------------------------------
(* Transactions that run alone *)

LEMMA OneTransactionStep ==
    ASSUME Database = "sqlite", TypeOK, OneTransaction, NEW r \in Req, Step(r)
    PROVE  OneTransaction'
<1>1. SUFFICES ASSUME NEW q \in Req, NEW s \in Req, pc'[q] \in TxSteps, pc'[s] \in TxSteps
               PROVE  q = s
  BY DEF OneTransaction
<1>2. \A p \in Req \ {r} : pc'[p] = pc[p]
  BY ControlStep
<1>3. pc'[r] \in TxSteps => \A p \in Req \ {r} : pc[p] \notin TxSteps
  BY ControlStep DEF MayUseDb
<1>4. QED
  BY <1>1, <1>2, <1>3 DEF OneTransaction

\* While another request has a transaction open, nothing it may have read changes.
LEMMA OpenTransactionShields ==
    ASSUME Database = "sqlite", NEW r \in Req, Step(r),
           NEW q \in Req \ {r}, pc[q] \in TxSteps
    PROVE  Quiet
<1>1. ~MayUseDb(r)
  BY DEF MayUseDb
<1>2. QED
  BY <1>1, WriteOrQuiet DEF CreateInsert, StatusWrite, ItemWrite, SettleWrite, TransferWrite,
     CloseWrite, ChargeInsert, ChargeMark, ChargeSettle

LEMMA OpenReadsStep ==
    ASSUME Database = "sqlite", TypeOK, OpenReadsHold, NEW r \in Req, Step(r)
    PROVE  OpenReadsHold'
<1>1. ASSUME NEW q \in Req, pc'[q] = "chargeSettle"
      PROVE  status'[loc'[q].order] \notin Finished /\ loc'[q].bill = items'[loc'[q].order]
  <2>1. CASE q = r
    <3>1. ChargeCheck(r)
      BY <1>1, <2>1, ControlStep
    <3>2. loc'[r].order = loc[r].order /\ loc'[r].bill = items[loc[r].order]
      BY <3>1, RememberType, LocType DEF ChargeCheck, TypeOK
    <3>3. QED
      BY <2>1, <3>1, <3>2 DEF ChargeCheck, orderVars
  <2>2. CASE q # r
    <3>1. pc[q] = "chargeSettle" /\ loc'[q] = loc[q]
      BY <1>1, <2>2, ControlStep
    <3>2. Quiet
      BY <2>2, <3>1, OpenTransactionShields DEF TxSteps
    <3>3. QED
      BY <3>1, <3>2 DEF Quiet, orderVars, OpenReadsHold
  <2>3. QED
    BY <2>1, <2>2
<1>2. ASSUME NEW q \in Req, pc'[q] = "transferWrite"
      PROVE  status'[loc'[q].order] \notin Finished
  <2>1. CASE q = r
    <3>1. TransferRead(r)
      BY <1>2, <2>1, ControlStep
    <3>2. QED
      BY <2>1, <3>1 DEF TransferRead, orderVars
  <2>2. CASE q # r
    <3>1. pc[q] = "transferWrite" /\ loc'[q] = loc[q]
      BY <1>2, <2>2, ControlStep
    <3>2. Quiet
      BY <2>2, <3>1, OpenTransactionShields DEF TxSteps
    <3>3. QED
      BY <3>1, <3>2 DEF Quiet, orderVars, OpenReadsHold
  <2>3. QED
    BY <2>1, <2>2
<1>3. QED
  BY <1>1, <1>2 DEF OpenReadsHold

\* The part of the serial invariant that is about rows.
SerialRows ==
    /\ SettledOnce /\ PaidTheBill /\ StockFollowsSettlement
    /\ FinishedFreesTable /\ OneOrderPerTable

\* A settlement of an order that has none, for what is on it, that frees its table.
LEMMA SettlementIsSerial ==
    ASSUME CommonInv, SerialRows, NEW w \in Order, NEW v \in 0..MaxVersion,
           payments[w] = {},
           status' = [status EXCEPT ![w] = "closed"], Increment(w),
           tableId' = [tableId EXCEPT ![w] = NoTable],
           AddPayment(w, v, items[w]), BookSale(w, items[w]), UNCHANGED items
    PROVE  SerialRows'
<1>1. TypeOK
  BY DEF CommonInv
<1>. DEFINE new == [charge |-> v, at |-> version[w] + 1, amount |-> items[w]]
<1>2. items[w] \in 0..MaxItems
  BY <1>1 DEF TypeOK
<1>3. payments'[w] = {new} /\ \A o \in Order \ {w} : payments'[o] = payments[o]
  BY <1>1, <1>2, AddPaymentType
<1>4. new.amount = items[w]
  OBVIOUS
<1>. HIDE DEF new
<1>5. SettledOnce' /\ PaidTheBill'
  BY <1>3, <1>4 DEF SerialRows, SettledOnce, PaidTheBill
<1>6. StockFollowsSettlement'
  <2>1. sold[w] = 0 /\ items[w] \in Nat
    BY <1>2, OrdersAssumption DEF SerialRows, StockFollowsSettlement
  <2>2. sold'[w] = (IF StockControlled THEN items[w] ELSE 0)
    BY <1>1, <2>1 DEF BookSale, TypeOK
  <2>3. \A o \in Order \ {w} : sold'[o] = sold[o]
    BY <1>1 DEF BookSale, TypeOK
  <2>4. QED
    BY <1>3, <2>2, <2>3 DEF SerialRows, StockFollowsSettlement
<1>7. tableId'[w] = NoTable /\ \A o \in Order \ {w} : tableId'[o] = tableId[o]
  BY <1>1 DEF TypeOK
<1>8. status'[w] = "closed" /\ \A o \in Order \ {w} : status'[o] = status[o]
  BY <1>1 DEF TypeOK
<1>9. FinishedFreesTable' /\ OneOrderPerTable'
  BY <1>7, <1>8 DEF SerialRows, FinishedFreesTable, OneOrderPerTable
<1>10. QED
  BY <1>5, <1>6, <1>9 DEF SerialRows

LEMMA SerialRowsStep ==
    ASSUME Database = "sqlite", SerialInv, NEW r \in Req, Step(r)
    PROVE  SerialRows'
<1>1. TypeOK /\ CommonInv /\ SerialRows /\ ClosedWhenPaid
  BY DEF SerialInv, CommonInv, SerialRows
<1>2. /\ loc[r].order \in Order /\ loc[r].charge \in 0..MaxVersion
      /\ loc[r].table \in Table \cup {NoTable}
  BY <1>1, LocType DEF Versions
<1>. DEFINE w == loc[r].order
<1>3. CASE CreateInsert(r)
  <2>1. PICK o \in Order : /\ status[o] = "absent"
                           /\ TableIndexAdmits(o, loc[r].table)
                           /\ status' = [status EXCEPT ![o] = "open"]
                           /\ tableId' = [tableId EXCEPT ![o] = loc[r].table]
    BY <1>3 DEF CreateInsert
  <2>2. UNCHANGED <<items, payments, sold>>
    BY <1>3 DEF CreateInsert
  <2>3. /\ status'[o] = "open" /\ tableId'[o] = loc[r].table
        /\ \A p \in Order \ {o} : status'[p] = status[p] /\ tableId'[p] = tableId[p]
    BY <2>1, <1>1 DEF TypeOK
  <2>4. OneOrderPerTable'
    BY <2>1, <2>3, <1>1 DEF SerialRows, OneOrderPerTable, TableIndexAdmits, ActiveOn
  <2>5. FinishedFreesTable'
    BY <2>3, <1>1 DEF SerialRows, FinishedFreesTable, Finished
  <2>6. QED
    BY <2>2, <2>4, <2>5, <1>1 DEF SerialRows, SettledOnce, PaidTheBill, StockFollowsSettlement
<1>4. CASE StatusWrite(r)
  <2>1. status[w] \notin Finished
    BY <1>4, <1>1, LocType DEF StatusWrite, StatusWhere, Previous, Finished
  <2>2. status'[w] \notin Finished /\ \A o \in Order \ {w} : status'[o] = status[o]
    BY <1>4, <1>1, <1>2, LocType DEF StatusWrite, Finished, TypeOK
  <2>3. UNCHANGED <<tableId, items, payments, sold>>
    BY <1>4 DEF StatusWrite
  <2>. HIDE DEF w
  <2>4. QED
    BY <2>1, <2>2, <2>3, <1>1 DEF SerialRows, SettledOnce, PaidTheBill,
       StockFollowsSettlement, FinishedFreesTable, OneOrderPerTable
<1>5. CASE ItemWrite(r)
  <2>1. payments[w] = {}
    BY <1>5, <1>1, <1>2 DEF ItemWrite, ItemWhere, ClosedWhenPaid
  <2>2. /\ UNCHANGED <<status, tableId, payments, sold>>
        /\ \A o \in Order \ {w} : items'[o] = items[o]
    BY <1>5, <1>1, <1>2 DEF ItemWrite, TypeOK
  <2>. HIDE DEF w
  <2>3. QED
    BY <2>1, <2>2, <1>1 DEF SerialRows, SettledOnce, PaidTheBill,
       StockFollowsSettlement, FinishedFreesTable, OneOrderPerTable
<1>6. CASE SettleWrite(r)
  <2>1. loc[r].bill = items[w]
    BY <1>6, <1>1, <1>2 DEF SettleWrite, SettleWhere, At, CommonInv, SettleReadHolds
  <2>2. payments[w] = {}
    BY <1>6, <1>1, <1>2 DEF SettleWrite, SettleWhere, Unfinished, ClosedWhenPaid
  <2>3. 0 \in 0..MaxVersion
    BY OrdersAssumption
  <2>4. QED
    BY <1>6, <1>1, <1>2, <2>1, <2>2, <2>3, SettlementIsSerial DEF SettleWrite
<1>7. CASE TransferWrite(r)
  <2>1. status[w] \notin Finished /\ TableIndexAdmits(w, loc[r].table)
    BY <1>7 DEF TransferWrite, At, SerialInv, OpenReadsHold
  <2>2. /\ tableId'[w] = loc[r].table
        /\ \A o \in Order \ {w} : tableId'[o] = tableId[o]
        /\ UNCHANGED <<status, items, payments, sold>>
    BY <1>7, <1>1, <1>2 DEF TransferWrite, TypeOK
  <2>. HIDE DEF w
  <2>3. OneOrderPerTable' /\ FinishedFreesTable'
    BY <2>1, <2>2, <1>1 DEF SerialRows, OneOrderPerTable, FinishedFreesTable,
       TableIndexAdmits, ActiveOn
  <2>4. QED
    BY <2>2, <2>3, <1>1 DEF SerialRows, SettledOnce, PaidTheBill, StockFollowsSettlement
<1>8. CASE CloseWrite(r)
  <2>1. /\ tableId'[w] = NoTable /\ status'[w] = "closed"
        /\ \A o \in Order \ {w} : tableId'[o] = tableId[o] /\ status'[o] = status[o]
        /\ UNCHANGED <<items, payments, sold>>
    BY <1>8, <1>1, <1>2 DEF CloseWrite, TypeOK
  <2>. HIDE DEF w
  <2>2. QED
    BY <2>1, <1>1 DEF SerialRows, SettledOnce, PaidTheBill,
       StockFollowsSettlement, FinishedFreesTable, OneOrderPerTable
<1>9. CASE ChargeSettle(r)
  <2>1. status[w] \notin Finished /\ loc[r].bill = items[w]
    BY <1>9 DEF ChargeSettle, At, SerialInv, OpenReadsHold
  <2>2. payments[w] = {}
    BY <2>1, <1>1, <1>2 DEF ClosedWhenPaid, Finished
  <2>3. QED
    BY <1>9, <1>1, <1>2, <2>1, <2>2, SettlementIsSerial DEF ChargeSettle
<1>10. CASE ChargeInsert(r) \/ ChargeMark(r) \/ Quiet
  BY <1>10, <1>1 DEF ChargeInsert, ChargeMark, Quiet, orderVars, SerialRows, SettledOnce,
     PaidTheBill, StockFollowsSettlement, FinishedFreesTable, OneOrderPerTable
<1>11. QED
  BY <1>3, <1>4, <1>5, <1>6, <1>7, <1>8, <1>9, <1>10, WriteOrQuiet

LEMMA SerialInvariant == ASSUME Database = "sqlite" PROVE Spec => []SerialInv
<1>1. Init => CommonInv
  BY CommonInit
<1>2. Init => SerialInv
  BY <1>1 DEF Init, SerialInv, OneTransaction, TxSteps, OpenReadsHold, SettledOnce,
     PaidTheBill, StockFollowsSettlement, FinishedFreesTable, OneOrderPerTable, Finished
<1>3. SerialInv /\ [Next]_vars => SerialInv'
  <2>1. ASSUME SerialInv, NEW r \in Req, Step(r)
        PROVE  SerialInv'
    <3>1. TypeOK /\ CommonInv
      BY <2>1 DEF SerialInv, CommonInv
    <3>2. CommonInv'
      BY <2>1, <3>1, CommonStep
    <3>3. OneTransaction' /\ OpenReadsHold'
      BY <2>1, <3>1, OneTransactionStep, OpenReadsStep DEF SerialInv
    <3>4. SerialRows'
      BY <2>1, SerialRowsStep
    <3>5. QED
      BY <3>2, <3>3, <3>4 DEF SerialInv, SerialRows
  <2>2. ASSUME SerialInv, UNCHANGED vars
        PROVE  SerialInv'
    <3>1. CommonInv'
      BY <2>2, CommonStutter DEF SerialInv
    <3>2. QED
      BY <2>2, <3>1 DEF vars, orderVars, chargeVars, SerialInv, OneTransaction,
         OpenReadsHold, SettledOnce, PaidTheBill, StockFollowsSettlement,
         FinishedFreesTable, OneOrderPerTable
  <2>3. QED
    BY <2>1, <2>2 DEF Next
<1>4. QED
  BY <1>2, <1>3, PTL DEF Spec

\* Where transactions run alone, an order has one settlement at most, by hand or by Pix.
THEOREM SettlementIsSingle ==
    ASSUME Database = "sqlite"
    PROVE  Spec => []SettledOnce
BY SerialInvariant, PTL DEF SerialInv

\* Where transactions run alone, an order is settled for exactly its units, by hand
\* or by Pix.
THEOREM SettlementIsExact ==
    ASSUME Database = "sqlite"
    PROVE  Spec => []PaidTheBill
BY SerialInvariant, PTL DEF SerialInv

\* Where transactions run alone, the stock falls by the units of the orders that were
\* settled and by nothing else.
THEOREM StockIsExact ==
    ASSUME Database = "sqlite"
    PROVE  Spec => []StockFollowsSettlement
BY SerialInvariant, PTL DEF SerialInv

\* Where transactions run alone and the partial unique index exists, a table has at
\* most one unfinished order.
THEOREM TablesAreExclusive ==
    ASSUME Database = "sqlite"
    PROVE  Spec => []OneOrderPerTable
BY SerialInvariant, PTL DEF SerialInv

\* Where transactions run alone, no transfer gives a table to an order that has been
\* closed since the transfer read it.
THEOREM FinishedOrdersLeave ==
    ASSUME Database = "sqlite"
    PROVE  Spec => []FinishedFreesTable
BY SerialInvariant, PTL DEF SerialInv

-----------------------------------------------------------------------------
(* A pending charge *)

\* A charge is of an order that exists, and a transaction that has found no pending
\* charge is still right when it writes.
ChargesChecked ==
    /\ \A o \in Order : PendingPix(o) => status[o] # "absent"
    /\ \A r \in Req :
          /\ pc[r] = "chargeInsert" => status[loc[r].order] # "absent"
          /\ pc[r] \in {"statusWrite", "itemWrite"} => ~PendingPix(loc[r].order)

LEMMA OrdersStayCreated ==
    ASSUME CommonInv, NEW r \in Req, Step(r), NEW o \in Order, status[o] # "absent"
    PROVE  status'[o] # "absent"
<1>1. SUFFICES ASSUME status'[o] = "absent" PROVE FALSE
  OBVIOUS
<1>2. Rank[status[o]] < Rank["absent"]
  BY <1>1, StatusStep
<1>3. status[o] \in {"absent", "open", "sentToKitchen", "delivered", "closed", "canceled"}
  BY DEF CommonInv, TypeOK, Statuses, Finished
<1>4. QED
  BY <1>2, <1>3 DEF Rank

\* Only the insertion makes a charge pending.
LEMMA PendingStep ==
    ASSUME TypeOK, NEW r \in Req, Step(r), NEW o \in Order, PendingPix(o)', ~PendingPix(o)
    PROVE  ChargeInsert(r) /\ o = loc[r].order
<1>1. PICK v \in Versions : chargeStatus'[o][v] = "pending"
  BY DEF PendingPix
<1>2. chargeStatus[o][v] # "pending"
  BY DEF PendingPix
<1>3. chargeStatus \in [Order -> [Versions -> ChargeStatuses]]
  BY DEF TypeOK
<1>4. /\ loc[r].order \in Order /\ loc[r].charge \in Versions
      /\ loc[r].notice \in {"paid", "expired"}
  BY LocType DEF Notices
<1>5. CASE ChargeInsert(r)
  BY <1>1, <1>2, <1>3, <1>4, <1>5 DEF ChargeInsert
<1>6. CASE ChargeMark(r)
  BY <1>1, <1>2, <1>3, <1>4, <1>6 DEF ChargeMark
<1>7. CASE ChargeSettle(r)
  BY <1>1, <1>2, <1>3, <1>4, <1>7 DEF ChargeSettle
<1>8. CASE \/ CreateInsert(r) \/ StatusWrite(r) \/ ItemWrite(r) \/ SettleWrite(r)
           \/ TransferWrite(r) \/ CloseWrite(r) \/ Quiet
  BY <1>1, <1>2, <1>8 DEF CreateInsert, StatusWrite, ItemWrite, SettleWrite, TransferWrite,
     CloseWrite, Quiet, chargeVars
<1>9. QED
  BY <1>5, <1>6, <1>7, <1>8, WriteOrQuiet

LEMMA ChargesCheckedStep ==
    ASSUME Database = "sqlite", CommonInv, ChargesChecked, NEW r \in Req, Step(r)
    PROVE  ChargesChecked'
<1>1. TypeOK /\ loc[r].order \in Order
  BY LocType DEF CommonInv
<1>2. ASSUME NEW o \in Order, PendingPix(o)'
      PROVE  status'[o] # "absent"
  <2>1. status[o] # "absent"
    <3>1. CASE PendingPix(o)
      BY <3>1 DEF ChargesChecked
    <3>2. CASE ~PendingPix(o)
      <4>1. ChargeInsert(r) /\ o = loc[r].order
        BY <1>1, <1>2, <3>2, PendingStep
      <4>2. QED
        BY <4>1 DEF ChargesChecked, ChargeInsert, At
    <3>3. QED
      BY <3>1, <3>2
  <2>2. QED
    BY <2>1, OrdersStayCreated
<1>3. ASSUME NEW q \in Req, pc'[q] = "chargeInsert"
      PROVE  status'[loc'[q].order] # "absent"
  <2>1. CASE q = r
    <3>1. ChargeRead(r)
      BY <1>1, <1>3, <2>1, ControlStep
    <3>2. loc'[r].order = loc[r].order
      BY <3>1, <1>1, RememberType DEF ChargeRead, TypeOK
    <3>3. status[loc[r].order] # "absent"
      BY <3>1, <1>1 DEF ChargeRead, CommonInv, AbsentIsBlank
    <3>4. QED
      BY <2>1, <3>2, <3>3, <1>1, OrdersStayCreated
  <2>2. CASE q # r
    <3>1. pc[q] = "chargeInsert" /\ loc'[q] = loc[q] /\ loc[q].order \in Order
      BY <1>1, <1>3, <2>2, ControlStep, LocType
    <3>2. QED
      BY <3>1, OrdersStayCreated DEF ChargesChecked
  <2>3. QED
    BY <2>1, <2>2
<1>4. ASSUME NEW q \in Req, pc'[q] \in {"statusWrite", "itemWrite"}
      PROVE  ~PendingPix(loc[q].order)' /\ loc'[q].order = loc[q].order
  <2>1. CASE q = r
    <3>1. StatusCheck(r) \/ ItemCheck(r)
      BY <1>1, <1>4, <2>1, ControlStep
    <3>2. QED
      BY <2>1, <3>1 DEF StatusCheck, ItemCheck, PendingPix, chargeVars
  <2>2. CASE q # r
    <3>1. pc[q] \in {"statusWrite", "itemWrite"} /\ loc'[q] = loc[q]
      BY <1>1, <1>4, <2>2, ControlStep
    <3>2. Quiet
      BY <2>2, <3>1, OpenTransactionShields DEF TxSteps
    <3>3. QED
      BY <3>1, <3>2 DEF Quiet, chargeVars, ChargesChecked, PendingPix
  <2>3. QED
    BY <2>1, <2>2
<1>5. QED
  BY <1>2, <1>3, <1>4 DEF ChargesChecked, PendingPix

\* Where transactions run alone, no unit is added to an order and no status step but
\* closing is taken while a charge of it is pending.
THEOREM PixFreezes ==
    ASSUME Database = "sqlite"
    PROVE  Spec => PendingPixFreezesBill
<1>. DEFINE A == \A o \in Order :
                    PendingPix(o) => /\ items'[o] = items[o]
                                     /\ status'[o] \in {status[o], "closed"}
<1>1. Init => ChargesChecked
  BY DEF Init, ChargesChecked, PendingPix
<1>2. CommonInv /\ ChargesChecked /\ [Next]_vars => ChargesChecked'
  <2>1. ASSUME CommonInv, ChargesChecked, UNCHANGED vars
        PROVE  ChargesChecked'
    BY <2>1 DEF vars, orderVars, chargeVars, ChargesChecked, PendingPix
  <2>2. QED
    BY <2>1, ChargesCheckedStep DEF Next
<1>3. ASSUME CommonInv, ChargesChecked, NEW r \in Req, Step(r), NEW o \in Order, PendingPix(o)
      PROVE  items'[o] = items[o] /\ status'[o] \in {status[o], "closed"}
  <2>1. TypeOK /\ loc[r].order \in Order /\ status[o] # "absent"
    BY <1>3, LocType DEF CommonInv, ChargesChecked
  <2>2. CASE CreateInsert(r)
    BY <2>1, <2>2 DEF CreateInsert, TypeOK
  <2>3. CASE StatusWrite(r)
    BY <1>3, <2>1, <2>3 DEF StatusWrite, At, ChargesChecked, TypeOK
  <2>4. CASE ItemWrite(r)
    BY <1>3, <2>1, <2>4 DEF ItemWrite, At, ChargesChecked, TypeOK
  <2>5. CASE SettleWrite(r) \/ CloseWrite(r) \/ ChargeSettle(r)
    BY <2>1, <2>5 DEF SettleWrite, CloseWrite, ChargeSettle, TypeOK
  <2>6. CASE TransferWrite(r) \/ ChargeInsert(r) \/ ChargeMark(r) \/ Quiet
    BY <2>6 DEF TransferWrite, ChargeInsert, ChargeMark, Quiet, orderVars
  <2>7. QED
    BY <1>3, <2>2, <2>3, <2>4, <2>5, <2>6, WriteOrQuiet
<1>4. CommonInv /\ ChargesChecked /\ [Next]_vars => [A]_vars
  BY <1>3 DEF Next
<1>5. QED
  BY <1>1, <1>2, <1>4, CommonInvariant, PTL DEF Spec, PendingPixFreezesBill

-----------------------------------------------------------------------------
(* The version of an order *)

\* What is stored of an order, its version aside.
Row(o) == <<status[o], tableId[o], items[o], payments[o], sold[o]>>

\* Two reads of an order that show the same version show the same order: every write
\* of the order, whichever handler makes it, increments the version by one.
VersionCountsChanges ==
    [][\A o \in Order :
         /\ version'[o] \in {version[o], version[o] + 1}
         /\ Row(o)' # Row(o) => version'[o] = version[o] + 1]_vars

\* A change that was asked for with an expected_version is made to the order as the
\* client saw it, also when the write comes a read and other requests later.
ExpectedVersionHeld ==
    [][\A r \in Req :
         /\ pc[r] \in {"statusWrite", "itemWrite", "settleWrite", "closeWrite"}
         /\ pc'[r] # pc[r] /\ version' # version
         => loc[r].expected \in {0, version[loc[r].order]}]_vars

\* What settleOrder read was the version that the client expects.
ExpectedSeen ==
    \A r \in Req : pc[r] = "settleWrite" => loc[r].expected \in {0, loc[r].seen}

LEMMA ExpectedSeenStep ==
    ASSUME TypeOK, ExpectedSeen, NEW r \in Req, Step(r)
    PROVE  ExpectedSeen'
<1>1. SUFFICES ASSUME NEW q \in Req, pc'[q] = "settleWrite"
               PROVE  loc'[q].expected \in {0, loc'[q].seen}
  BY DEF ExpectedSeen
<1>2. CASE q # r
  BY <1>1, <1>2, ControlStep DEF ExpectedSeen
<1>3. CASE q = r
  <2>1. SettleRead(r)
    BY <1>1, <1>3, ControlStep
  <2>2. PICK o : o = loc[r].order
    OBVIOUS
  <2>3. loc[r].expected \in {0, version[o]} /\ Remember(r, version[o], items[o])
    BY <2>1, <2>2 DEF SettleRead, VersionMatches
  <2>4. loc'[r].seen = version[o] /\ loc'[r].expected = loc[r].expected
    BY <2>3 DEF Remember, TypeOK, Local
  <2>5. QED
    BY <1>3, <2>3, <2>4
<1>4. QED
  BY <1>2, <1>3

\* A request that increments the version of one order changes no other.
LEMMA RowCounted ==
    ASSUME TypeOK, AbsentIsBlank, NEW r \in Req, Step(r), NEW o \in Order
    PROVE  \/ version'[o] = version[o] /\ Row(o)' = Row(o)
           \/ version'[o] = version[o] + 1
<1>. DEFINE Goal == \/ version'[o] = version[o] /\ Row(o)' = Row(o)
                    \/ version'[o] = version[o] + 1
<1>1. ASSUME NEW w \in Order, Increment(w),
             \A p \in Order \ {w} : Row(p)' = Row(p)
      PROVE  Goal
  BY <1>1, IncrementType
<1>2. CASE CreateInsert(r)
  <2>1. PICK w \in Order :
           /\ status[w] = "absent"
           /\ status' = [status EXCEPT ![w] = "open"]
           /\ version' = [version EXCEPT ![w] = 1]
           /\ tableId' = [tableId EXCEPT ![w] = loc[r].table]
           /\ UNCHANGED <<items, payments, sold>>
    BY <1>2 DEF CreateInsert
  <2>2. CASE o = w
    BY <2>1, <2>2 DEF AbsentIsBlank, TypeOK
  <2>3. CASE o # w
    BY <2>1, <2>3 DEF TypeOK, Row
  <2>4. QED
    BY <2>2, <2>3
<1>3. CASE StatusWrite(r) \/ ItemWrite(r) \/ TransferWrite(r) \/ CloseWrite(r)
  <2>1. PICK w \in Order : w = loc[r].order
    BY LocType
  <2>2. /\ Increment(w)
        /\ \A p \in Order \ {w} : /\ status'[p] = status[p] /\ tableId'[p] = tableId[p]
                                 /\ items'[p] = items[p]
        /\ UNCHANGED <<payments, sold>>
    BY <1>3, <2>1 DEF StatusWrite, ItemWrite, TransferWrite, CloseWrite, TypeOK
  <2>3. QED
    BY <1>1, <2>2 DEF Row
<1>4. CASE SettleWrite(r) \/ ChargeSettle(r)
  <2>1. PICK w \in Order : w = loc[r].order
    BY LocType
  <2>2. /\ Increment(w)
        /\ \A p \in Order \ {w} : /\ status'[p] = status[p] /\ tableId'[p] = tableId[p]
                                 /\ payments'[p] = payments[p] /\ sold'[p] = sold[p]
        /\ UNCHANGED items
    BY <1>4, <2>1 DEF SettleWrite, ChargeSettle, AddPayment, BookSale, TypeOK
  <2>3. QED
    BY <1>1, <2>2 DEF Row
<1>5. CASE ChargeInsert(r) \/ ChargeMark(r) \/ Quiet
  BY <1>5 DEF ChargeInsert, ChargeMark, Quiet, orderVars, Row
<1>6. QED
  BY <1>2, <1>3, <1>4, <1>5, WriteOrQuiet

\* On both databases the version counts the changes of an order one by one, so that
\* comparing it is enough to know whether anything has changed.
THEOREM VersionsCount == Spec => VersionCountsChanges
<1>. DEFINE A == \A o \in Order :
                    /\ version'[o] \in {version[o], version[o] + 1}
                    /\ Row(o)' # Row(o) => version'[o] = version[o] + 1
<1>1. CommonInv /\ [Next]_vars => [A]_vars
  <2>1. SUFFICES ASSUME CommonInv, NEW r \in Req, Step(r) PROVE A
    BY DEF Next
  <2>2. QED
    BY <2>1, RowCounted DEF CommonInv
<1>2. QED
  BY <1>1, CommonInvariant, PTL DEF Spec, VersionCountsChanges

\* On both databases a status step, an item, a settlement and a closing that name a
\* version are made to the order of that version (the where clauses of the
\* updateMany calls, and in settleOrder the version it has read).
THEOREM VersionsAreHeld == Spec => ExpectedVersionHeld
<1>. DEFINE A == \A r \in Req :
                    /\ pc[r] \in {"statusWrite", "itemWrite", "settleWrite", "closeWrite"}
                    /\ pc'[r] # pc[r] /\ version' # version
                    => loc[r].expected \in {0, version[loc[r].order]}
<1>1. Init => ExpectedSeen
  BY DEF Init, ExpectedSeen
<1>2. CommonInv /\ ExpectedSeen /\ [Next]_vars => ExpectedSeen'
  <2>1. ASSUME ExpectedSeen, UNCHANGED vars
        PROVE  ExpectedSeen'
    BY <2>1 DEF ExpectedSeen, vars
  <2>2. QED
    BY <2>1, ExpectedSeenStep DEF Next, CommonInv
<1>3. CommonInv /\ ExpectedSeen /\ [Next]_vars => [A]_vars
  <2>1. SUFFICES ASSUME CommonInv, ExpectedSeen, NEW q \in Req, Step(q), NEW r \in Req,
                        pc[r] \in {"statusWrite", "itemWrite", "settleWrite", "closeWrite"},
                        pc'[r] # pc[r], version' # version
                 PROVE  loc[r].expected \in {0, version[loc[r].order]}
    BY DEF Next
  <2>2. TypeOK
    BY <2>1 DEF CommonInv
  <2>3. q = r
    BY <2>1, <2>2, ControlStep
  <2>4. StatusWrite(r) \/ ItemWrite(r) \/ SettleWrite(r) \/ CloseWrite(r)
    <3>1. ~Quiet /\ ~ChargeInsert(r) /\ ~ChargeMark(r)
      BY <2>1 DEF Quiet, ChargeInsert, ChargeMark, orderVars
    <3>2. ~CreateInsert(r) /\ ~TransferWrite(r) /\ ~ChargeSettle(r)
      BY <2>1 DEF CreateInsert, TransferWrite, ChargeSettle, At
    <3>3. QED
      BY <2>1, <2>3, <3>1, <3>2, WriteOrQuiet
  <2>5. CASE StatusWrite(r) \/ ItemWrite(r) \/ CloseWrite(r)
    BY <2>5 DEF StatusWrite, ItemWrite, CloseWrite, VersionMatches
  <2>6. CASE SettleWrite(r)
    BY <2>1, <2>6 DEF SettleWrite, SettleWhere, At, ExpectedSeen
  <2>7. QED
    BY <2>4, <2>5, <2>6
<1>4. QED
  BY <1>1, <1>2, <1>3, CommonInvariant, PTL DEF Spec, ExpectedVersionHeld
=============================================================================
