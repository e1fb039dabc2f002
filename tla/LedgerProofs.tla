---------------------------- MODULE LedgerProofs ----------------------------
(* On SQLite the handlers of orders, tables and Pix implement the ledger, for *)
(* every set of orders, tables and requests and every bound.                  *)
EXTENDS OrdersRefinement, OrdersProofs

\* Nothing is charged or settled that costs nothing.
PositiveAmounts ==
    /\ \A o \in Order, v \in Versions : chargeStatus[o][v] # "none" => chargeAmount[o][v] > 0
    /\ \A r \in Req :
          /\ pc[r] \in {"settleWrite", "chargeInsert", "chargeSettle"} => loc[r].bill > 0
          /\ pc[r] \in {"chargeCheck", "chargeMark", "chargeSettle"} =>
                chargeStatus[loc[r].order][loc[r].charge] # "none"

\* A table is occupied by orders that exist, and a transfer names a table.
TablesOfOrders ==
    /\ \A o \in Order : status[o] = "absent" => tableId[o] = NoTable
    /\ \A r \in Req : pc[r] \in {"transferRead", "transferWrite"} => loc[r].table \in Table

LedgerInv == SerialInv /\ PositiveAmounts /\ TablesOfOrders

-----------------------------------------------------------------------------
(* The invariant *)

\* Once there is a charge its amount stays, and it never becomes "none" again.
LEMMA ChargesStay ==
    ASSUME TypeOK, PositiveAmounts, NEW r \in Req, Step(r), NEW o \in Order, NEW v \in Versions
    PROVE  /\ chargeStatus[o][v] # "none" => chargeStatus'[o][v] # "none"
           /\ chargeStatus'[o][v] # "none" => chargeAmount'[o][v] > 0
<1>1. /\ chargeStatus \in [Order -> [Versions -> ChargeStatuses]]
      /\ chargeAmount \in [Order -> [Versions -> 0..MaxItems]]
  BY DEF TypeOK
<1>2. /\ loc[r].order \in Order /\ loc[r].charge \in Versions
      /\ loc[r].notice \in {"paid", "expired"} /\ loc[r].bill \in 0..MaxItems
  BY LocType DEF TypeOK, Notices
<1>3. chargeStatus[o][v] # "none" => chargeAmount[o][v] > 0
  BY DEF PositiveAmounts
<1>4. CASE ChargeInsert(r)
  <2>1. loc[r].bill > 0
    BY <1>4 DEF ChargeInsert, At, PositiveAmounts
  <2>2. QED
    BY <1>1, <1>2, <1>3, <1>4, <2>1 DEF ChargeInsert
<1>5. CASE ChargeMark(r)
  <2>1. chargeStatus[loc[r].order][loc[r].charge] # "none"
    BY <1>5 DEF ChargeMark, At, PositiveAmounts
  <2>2. chargeAmount' = chargeAmount
    BY <1>5 DEF ChargeMark
  <2>3. chargeStatus' = [chargeStatus EXCEPT ![loc[r].order][loc[r].charge] = loc[r].notice]
    BY <1>5 DEF ChargeMark
  <2>4. QED
    BY <1>1, <1>2, <1>3, <2>1, <2>2, <2>3
<1>6. CASE ChargeSettle(r)
  <2>1. chargeStatus' = [chargeStatus EXCEPT ![loc[r].order][loc[r].charge] = "paid"]
        /\ chargeAmount' = chargeAmount
    BY <1>6 DEF ChargeSettle
  <2>2. chargeStatus[loc[r].order][loc[r].charge] # "none"
    BY <1>6 DEF ChargeSettle, At, PositiveAmounts
  <2>3. QED
    BY <1>1, <1>2, <1>3, <2>1, <2>2
<1>7. CASE \/ CreateInsert(r) \/ StatusWrite(r) \/ ItemWrite(r) \/ SettleWrite(r)
           \/ TransferWrite(r) \/ CloseWrite(r) \/ Quiet
  BY <1>3, <1>7 DEF CreateInsert, StatusWrite, ItemWrite, SettleWrite, TransferWrite,
     CloseWrite, Quiet, chargeVars
<1>8. QED
  BY <1>4, <1>5, <1>6, <1>7, WriteOrQuiet

LEMMA PositiveStep ==
    ASSUME CommonInv, PositiveAmounts, NEW r \in Req, Step(r)
    PROVE  PositiveAmounts'
<1>1. TypeOK
  BY DEF CommonInv
<1>2. ASSUME NEW q \in Req, pc'[q] \in {"settleWrite", "chargeInsert", "chargeSettle"}
      PROVE  loc'[q].bill > 0
  <2>1. CASE q = r
    <3>1. SettleRead(r) \/ ChargeRead(r) \/ ChargeCheck(r)
      BY <1>1, <1>2, <2>1, ControlStep
    <3>2. CASE SettleRead(r) \/ ChargeRead(r)
      <4>1. /\ items[loc[r].order] \in 0..MaxItems /\ items[loc[r].order] > 0
            /\ version[loc[r].order] \in 0..MaxVersion
        BY <1>1, <3>2, LocType DEF SettleRead, ChargeRead, TypeOK
      <4>2. loc'[r].bill = items[loc[r].order]
        BY <1>1, <3>2, <4>1, RememberType DEF SettleRead, ChargeRead, TypeOK
      <4>3. QED
        BY <2>1, <4>1, <4>2
    <3>3. CASE ChargeCheck(r)
      <4>1. chargeAmount[loc[r].order][loc[r].charge] > 0
        BY <1>1, <3>3, LocType DEF ChargeCheck, At, PositiveAmounts
      <4>2. /\ items[loc[r].order] \in 0..MaxItems /\ items[loc[r].order] > 0
            /\ version[loc[r].order] \in 0..MaxVersion
        BY <1>1, <3>3, <4>1, LocType DEF ChargeCheck, TypeOK
      <4>3. loc'[r].bill = items[loc[r].order]
        BY <1>1, <3>3, <4>2, RememberType DEF ChargeCheck, TypeOK
      <4>4. QED
        BY <2>1, <4>2, <4>3
    <3>4. QED
      BY <3>1, <3>2, <3>3
  <2>2. CASE q # r
    BY <1>1, <1>2, <2>2, ControlStep DEF PositiveAmounts
  <2>3. QED
    BY <2>1, <2>2
<1>3. ASSUME NEW q \in Req, pc'[q] \in {"chargeCheck", "chargeMark", "chargeSettle"}
      PROVE  chargeStatus'[loc'[q].order][loc'[q].charge] # "none"
  <2>1. loc[q].order \in Order /\ loc[q].charge \in Versions
    BY <1>1, LocType
  <2>2. /\ loc'[q].order = loc[q].order /\ loc'[q].charge = loc[q].charge
        /\ chargeStatus[loc[q].order][loc[q].charge] # "none"
    <3>1. CASE q = r /\ ReceiveRead(r)
      BY <3>1 DEF ReceiveRead
    <3>2. CASE q = r /\ ChargeCheck(r)
      <4>1. /\ items[loc[r].order] \in 0..MaxItems
            /\ version[loc[r].order] \in 0..MaxVersion
        BY <1>1, <2>1, <3>2 DEF TypeOK
      <4>2. QED
        BY <1>1, <3>2, <4>1, RememberType DEF ChargeCheck, At, PositiveAmounts, TypeOK
    <3>3. CASE q # r
      BY <1>1, <1>3, <3>3, ControlStep DEF PositiveAmounts
    <3>4. QED
      BY <1>1, <1>3, <3>1, <3>2, <3>3, ControlStep
  <2>3. QED
    BY <1>1, <2>1, <2>2, ChargesStay
<1>4. \A o \in Order, v \in Versions : chargeStatus'[o][v] # "none" => chargeAmount'[o][v] > 0
  BY <1>1, ChargesStay
<1>5. QED
  BY <1>2, <1>3, <1>4 DEF PositiveAmounts

LEMMA TablesStep ==
    ASSUME CommonInv, TablesOfOrders, NEW r \in Req, Step(r)
    PROVE  TablesOfOrders'
<1>1. TypeOK /\ loc[r].order \in Order
  BY LocType DEF CommonInv
<1>2. ASSUME NEW o \in Order, status'[o] = "absent"
      PROVE  tableId'[o] = NoTable
  <2>1. status[o] = "absent"
    BY <1>2, OrdersStayCreated
  <2>2. tableId[o] = NoTable
    BY <2>1 DEF TablesOfOrders
  <2>3. CASE CreateInsert(r)
    BY <1>1, <1>2, <2>2, <2>3 DEF CreateInsert, TypeOK
  <2>4. CASE TransferWrite(r)
    BY <1>1, <2>1, <2>2, <2>4 DEF TransferWrite, TypeOK
  <2>5. CASE SettleWrite(r) \/ CloseWrite(r) \/ ChargeSettle(r)
    BY <1>1, <2>2, <2>5 DEF SettleWrite, CloseWrite, ChargeSettle, TypeOK
  <2>6. CASE StatusWrite(r) \/ ItemWrite(r) \/ ChargeInsert(r) \/ ChargeMark(r) \/ Quiet
    BY <2>2, <2>6 DEF StatusWrite, ItemWrite, ChargeInsert, ChargeMark, Quiet, orderVars
  <2>7. QED
    BY <2>3, <2>4, <2>5, <2>6, WriteOrQuiet
<1>3. ASSUME NEW q \in Req, pc'[q] \in {"transferRead", "transferWrite"}
      PROVE  loc'[q].table \in Table
  <2>1. CASE q = r /\ pc'[r] = "transferRead"
    BY <1>1, <2>1, ControlStep
  <2>2. CASE q = r /\ pc'[r] = "transferWrite"
    <3>1. TransferRead(r)
      BY <1>1, <2>2, ControlStep
    <3>2. QED
      BY <2>2, <3>1 DEF TransferRead, At, TablesOfOrders
  <2>3. CASE q # r
    BY <1>1, <1>3, <2>3, ControlStep DEF TablesOfOrders
  <2>4. QED
    BY <1>3, <2>1, <2>2, <2>3
<1>4. QED
  BY <1>2, <1>3 DEF TablesOfOrders

LEMMA LedgerInvariant == ASSUME Database = "sqlite" PROVE Spec => []LedgerInv
<1>1. Init => PositiveAmounts /\ TablesOfOrders
  BY DEF Init, PositiveAmounts, TablesOfOrders
<1>2. SerialInv /\ PositiveAmounts /\ TablesOfOrders /\ [Next]_vars
        => PositiveAmounts' /\ TablesOfOrders'
  <2>1. ASSUME PositiveAmounts, TablesOfOrders, UNCHANGED vars
        PROVE  PositiveAmounts' /\ TablesOfOrders'
    BY <2>1 DEF vars, orderVars, chargeVars, PositiveAmounts, TablesOfOrders
  <2>2. QED
    BY <2>1, PositiveStep, TablesStep DEF Next, SerialInv
<1>3. QED
  BY <1>1, <1>2, SerialInvariant, PTL DEF Spec, LedgerInv

-----------------------------------------------------------------------------
(* What shows in the ledger *)

LEMMA PhaseIs ==
    ASSUME CommonInv, NEW o \in Order
    PROVE  /\ status[o] = "absent" => Phase(o) = "none"
           /\ status[o] \in Unfinished => Phase(o) = "open"
           /\ status[o] = "closed" => Phase(o) = IF payments[o] = {} THEN "unpaid" ELSE "settled"
           /\ status[o] \in {"absent", "closed"} \cup Unfinished
           /\ status[o] # "closed" => payments[o] = {}
<1>1. status[o] \in {"absent", "closed"} \cup Unfinished
  BY DEF CommonInv, TypeOK, NeverCanceled, Statuses, Finished, Unfinished
<1>2. QED
  BY <1>1 DEF Phase, Finished, Unfinished, CommonInv, ClosedWhenPaid

LEMMA ReceivedIs ==
    ASSUME NEW o \in Order
    PROVE  /\ payments[o] = {} => Received(o) = 0
           /\ \A p : payments[o] = {p} => Received(o) = p.amount
<1>1. ASSUME NEW p, payments[o] = {p}
      PROVE  (CHOOSE q \in payments[o] : TRUE) = p
  BY <1>1
<1>2. QED
  BY <1>1 DEF Received

\* A row that is left alone shows the same.
LEMMA SameShows ==
    ASSUME NEW o \in Order, status'[o] = status[o], payments'[o] = payments[o]
    PROVE  Phase(o)' = Phase(o) /\ Received(o)' = Received(o)
<1>1. Phase(o)' = Phase(o)
  BY DEF Phase
<1>2. Received(o)' = Received(o)
  <2>. DEFINE Any(S) == CHOOSE p \in S : TRUE
  <2>1. Received(o) = IF payments[o] = {} THEN 0 ELSE Any(payments[o]).amount
    BY DEF Received
  <2>2. Received(o)' = IF payments'[o] = {} THEN 0 ELSE Any(payments'[o]).amount
    BY DEF Received
  <2>. HIDE DEF Any
  <2>3. QED
    BY <2>1, <2>2
<1>3. QED
  BY <1>1, <1>2

\* Every settlement, by hand or by Pix, is the settlement of the ledger.
LEMMA SettlementShows ==
    ASSUME CommonInv, CommonInv', SerialRows, NEW w \in Order, NEW v \in 0..MaxVersion,
           status[w] \in Unfinished, items[w] > 0,
           status' = [status EXCEPT ![w] = "closed"], Increment(w),
           tableId' = [tableId EXCEPT ![w] = NoTable],
           AddPayment(w, v, items[w]), BookSale(w, items[w]), UNCHANGED items
    PROVE  Ledger!Settle(w)
<1>1. TypeOK /\ payments[w] = {} /\ items[w] \in 0..MaxItems
  BY PhaseIs DEF CommonInv, TypeOK, Unfinished
<1>. DEFINE new == [charge |-> v, at |-> version[w] + 1, amount |-> items[w]]
<1>2. payments'[w] = {new} /\ \A o \in Order \ {w} : payments'[o] = payments[o]
  BY <1>1, AddPaymentType
<1>3. new.amount = items[w]
  OBVIOUS
<1>. HIDE DEF new
<1>4. status'[w] = "closed" /\ \A o \in Order \ {w} : status'[o] = status[o]
  BY <1>1 DEF TypeOK
<1>5. Phase(w) = "open" /\ Phase(w)' = "settled"
  BY <1>2, <1>4, PhaseIs, <1>1 DEF Phase, Finished
<1>6. \A o \in Order \ {w} : Phase(o)' = Phase(o) /\ Received(o)' = Received(o)
  BY <1>2, <1>4, SameShows
<1>7. Received(w)' = items[w]
  BY <1>2, <1>3 DEF Received
<1>8. sold' = [sold EXCEPT ![w] = IF StockControlled THEN items[w] ELSE 0]
  <2>1. sold[w] = 0 /\ sold \in [Order -> 0..MaxItems]
    BY <1>1 DEF SerialRows, StockFollowsSettlement, TypeOK
  <2>2. QED
    BY <1>1, <2>1 DEF BookSale
<1>9. [o \in Order |-> Phase(o)'] = [[o \in Order |-> Phase(o)] EXCEPT ![w] = "settled"]
  BY <1>5, <1>6
<1>10. [o \in Order |-> Received(o)'] = [[o \in Order |-> Received(o)] EXCEPT ![w] = items[w]]
  BY <1>6, <1>7
<1>11. QED
  BY <1>5, <1>8, <1>9, <1>10 DEF Ledger!Settle

-----------------------------------------------------------------------------
(* Every step is a step of the ledger or shows nothing *)

Shown == <<[o \in Order |-> Phase(o)], items, tableId, [o \in Order |-> Received(o)], sold>>

LEMMA CreationShows ==
    ASSUME LedgerInv, Database = "sqlite", NEW r \in Req, CreateInsert(r)
    PROVE  \E o \in Order, t \in Table \cup {NoTable} : Ledger!Open(o, t)
<1>. PICK t \in Table \cup {NoTable} : t = loc[r].table
  BY LocType DEF LedgerInv, SerialInv, CommonInv
<1>1. CommonInv /\ TypeOK
  BY DEF LedgerInv, SerialInv, CommonInv
<1>2. PICK o \in Order : /\ status[o] = "absent"
                         /\ TableIndexAdmits(o, t)
                         /\ status' = [status EXCEPT ![o] = "open"]
                         /\ tableId' = [tableId EXCEPT ![o] = t]
                         /\ UNCHANGED <<items, payments, sold>>
  BY DEF CreateInsert
<1>3. status'[o] = "open" /\ \A p \in Order \ {o} : status'[p] = status[p]
  BY <1>1, <1>2 DEF TypeOK
<1>4. Phase(o) = "none" /\ Phase(o)' = "open"
  BY <1>2, <1>3 DEF Phase, Finished
<1>5. \A p \in Order \ {o} : Phase(p)' = Phase(p)
  BY <1>2, <1>3, SameShows
<1>6. \A p \in Order : Received(p)' = Received(p)
  BY <1>1, <1>2, PhaseIs, ReceivedIs, SameShows DEF Received
<1>7. t = NoTable \/ \A p \in Order : tableId[p] # t
  BY <1>1, <1>2 DEF LedgerInv, SerialInv, TablesOfOrders, FinishedFreesTable, TableIndexAdmits, ActiveOn
<1>8. Ledger!Open(o, t)
  <2>1. [p \in Order |-> Phase(p)'] = [[p \in Order |-> Phase(p)] EXCEPT ![o] = "open"]
    BY <1>4, <1>5
  <2>2. [p \in Order |-> Received(p)'] = [p \in Order |-> Received(p)]
    BY <1>6
  <2>3. QED
    BY <1>2, <1>4, <1>7, <2>1, <2>2 DEF Ledger!Open, Ledger!Free
<1>9. QED
  BY <1>1, <1>8

LEMMA TransferShows ==
    ASSUME LedgerInv, Database = "sqlite", NEW r \in Req, TransferWrite(r)
    PROVE  (\E o \in Order, t \in Table : Ledger!Move(o, t)) \/ UNCHANGED Shown
<1>. PICK o \in Order, t \in Table : o = loc[r].order /\ t = loc[r].table
  BY LocType DEF LedgerInv, SerialInv, CommonInv, TransferWrite, At, TablesOfOrders
<1>1. CommonInv /\ TypeOK
  BY DEF LedgerInv, SerialInv, CommonInv
<1>2. /\ status[o] # "absent" /\ status[o] \notin Finished
      /\ TableIndexAdmits(o, t)
      /\ tableId' = [tableId EXCEPT ![o] = t]
      /\ UNCHANGED <<status, items, payments, sold>>
  BY DEF TransferWrite, At, LedgerInv, SerialInv, OpenReadsHold
<1>3. \A p \in Order : Phase(p)' = Phase(p) /\ Received(p)' = Received(p)
  BY <1>2, SameShows
<1>4. Phase(o) = "open"
  BY <1>2 DEF Phase
<1>5. CASE tableId[o] = t
  BY <1>1, <1>2, <1>3, <1>5 DEF Shown, TypeOK
<1>6. CASE tableId[o] # t
  <2>1. \A p \in Order : tableId[p] # t
    BY <1>1, <1>2, <1>6, OrdersAssumption
       DEF LedgerInv, SerialInv, FinishedFreesTable, TableIndexAdmits, ActiveOn
  <2>2. Ledger!Move(o, t)
    BY <1>1, <1>2, <1>3, <1>4, <2>1 DEF Ledger!Move, Ledger!Free
  <2>3. QED
    BY <1>1, <2>2
<1>7. QED
  BY <1>5, <1>6

LEMMA ClosingShows ==
    ASSUME LedgerInv, NEW r \in Req, CloseWrite(r)
    PROVE  \E o \in Order : Ledger!CloseUnpaid(o)
<1>. PICK o \in Order : o = loc[r].order
  BY LocType DEF LedgerInv, SerialInv, CommonInv
<1>1. CommonInv /\ TypeOK
  BY DEF LedgerInv, SerialInv, CommonInv
<1>2. /\ status[o] \in Unfinished
      /\ status' = [status EXCEPT ![o] = "closed"]
      /\ tableId' = [tableId EXCEPT ![o] = NoTable]
      /\ UNCHANGED <<items, payments, sold>>
  BY DEF CloseWrite
<1>3. payments[o] = {} /\ Phase(o) = "open"
  BY <1>1, <1>2, PhaseIs DEF Unfinished
<1>4. status'[o] = "closed" /\ \A p \in Order \ {o} : status'[p] = status[p]
  BY <1>1, <1>2 DEF TypeOK
<1>5. Phase(o)' = "unpaid" /\ \A p \in Order \ {o} : Phase(p)' = Phase(p)
  BY <1>2, <1>3, <1>4, SameShows DEF Phase, Finished
<1>6. \A p \in Order : Received(p)' = Received(p)
  BY <1>2, <1>3, <1>4, SameShows DEF Received
<1>7. [p \in Order |-> Phase(p)'] = [[p \in Order |-> Phase(p)] EXCEPT ![o] = "unpaid"]
  BY <1>5
<1>8. [p \in Order |-> Received(p)'] = [p \in Order |-> Received(p)]
  BY <1>6
<1>9. QED
  BY <1>1, <1>2, <1>3, <1>7, <1>8 DEF Ledger!CloseUnpaid

LEMMA ItemShows ==
    ASSUME LedgerInv, NEW r \in Req, ItemWrite(r)
    PROVE  \E o \in Order : Ledger!AddUnit(o)
<1>. PICK o \in Order : o = loc[r].order
  BY LocType DEF LedgerInv, SerialInv, CommonInv
<1>1. CommonInv /\ TypeOK
  BY DEF LedgerInv, SerialInv, CommonInv
<1>2. /\ status[o] \notin {"absent", "closed"}
      /\ items' = [items EXCEPT ![o] = @ + 1]
      /\ UNCHANGED <<status, tableId, payments, sold>>
  BY DEF ItemWrite, ItemWhere
<1>3. Phase(o) = "open" /\ \A p \in Order : Phase(p)' = Phase(p) /\ Received(p)' = Received(p)
  BY <1>1, <1>2, PhaseIs, SameShows
<1>4. QED
  BY <1>1, <1>2, <1>3 DEF Ledger!AddUnit

LEMMA StatusShows ==
    ASSUME LedgerInv, NEW r \in Req, StatusWrite(r)
    PROVE  UNCHANGED Shown
<1>. PICK o \in Order : o = loc[r].order
  BY LocType DEF LedgerInv, SerialInv, CommonInv
<1>1. TypeOK /\ loc[r].to \in {"sentToKitchen", "delivered"}
  BY LocType DEF LedgerInv, SerialInv, CommonInv
<1>2. /\ status[o] \in Unfinished
      /\ status' = [status EXCEPT ![o] = loc[r].to]
      /\ UNCHANGED <<tableId, items, payments, sold>>
  BY <1>1 DEF StatusWrite, StatusWhere, Previous, Unfinished
<1>3. Phase(o)' = Phase(o)
  BY <1>1, <1>2 DEF Phase, Finished, Unfinished, TypeOK
<1>4. \A p \in Order \ {o} : Phase(p)' = Phase(p)
  BY <1>1, <1>2, SameShows DEF TypeOK
<1>5. \A p \in Order : Received(p)' = Received(p)
  BY <1>2 DEF Received
<1>6. QED
  BY <1>2, <1>3, <1>4, <1>5 DEF Shown

LEMMA StepShows ==
    ASSUME LedgerInv, LedgerInv', Database = "sqlite", NEW r \in Req, Step(r)
    PROVE  Ledger!Next \/ UNCHANGED Shown
<1>. PICK o \in Order : o = loc[r].order
  BY LocType DEF LedgerInv, SerialInv, CommonInv
<1>1. CommonInv /\ CommonInv' /\ TypeOK /\ SerialRows
  BY DEF LedgerInv, SerialInv, SerialRows, CommonInv
<1>2. CASE SettleWrite(r)
  <2>1. loc[r].bill = items[o] /\ items[o] > 0
    BY <1>2 DEF SettleWrite, SettleWhere, At, LedgerInv, PositiveAmounts, SerialInv,
       CommonInv, SettleReadHolds
  <2>2. 0 \in 0..MaxVersion
    BY OrdersAssumption
  <2>3. Ledger!Settle(o)
    BY <1>1, <1>2, <2>1, <2>2, SettlementShows DEF SettleWrite, SettleWhere
  <2>4. QED
    BY <1>1, <2>3 DEF Ledger!Next
<1>3. CASE ChargeSettle(r)
  <2>1. loc[r].bill = items[o] /\ items[o] > 0 /\ status[o] \notin Finished
    BY <1>3 DEF ChargeSettle, At, LedgerInv, PositiveAmounts, SerialInv, OpenReadsHold
  <2>2. status[o] \in Unfinished
    BY <1>1, <1>3, <2>1, PhaseIs DEF ChargeSettle, Finished
  <2>3. loc[r].charge \in 0..MaxVersion
    BY <1>1, LocType DEF Versions
  <2>4. Ledger!Settle(o)
    BY <1>1, <1>3, <2>1, <2>2, <2>3, SettlementShows DEF ChargeSettle
  <2>5. QED
    BY <1>1, <2>4 DEF Ledger!Next
<1>4. CASE CreateInsert(r) \/ TransferWrite(r)
  BY <1>4, CreationShows, TransferShows DEF Ledger!Next
<1>5. CASE CloseWrite(r) \/ ItemWrite(r)
  BY <1>5, ClosingShows, ItemShows DEF Ledger!Next
<1>6. CASE StatusWrite(r)
  BY <1>6, StatusShows
<1>7. CASE ChargeInsert(r) \/ ChargeMark(r) \/ Quiet
  <2>1. UNCHANGED orderVars
    BY <1>7 DEF ChargeInsert, ChargeMark, Quiet
  <2>2. \A p \in Order : Phase(p)' = Phase(p) /\ Received(p)' = Received(p)
    BY <2>1, SameShows DEF orderVars
  <2>3. QED
    BY <2>1, <2>2 DEF orderVars, Shown
<1>8. QED
  BY <1>2, <1>3, <1>4, <1>5, <1>6, <1>7, WriteOrQuiet

\* On SQLite whatever requests are served at once, what the database shows of the
\* orders is a behaviour of the ledger, in which every accepted call is one action.
THEOREM Implementation ==
    ASSUME Database = "sqlite"
    PROVE  Spec => ImplementsLedger
<1>1. Init => Ledger!Init
  <2>1. SUFFICES ASSUME Init PROVE Ledger!Init
    OBVIOUS
  <2>2. \A o \in Order : Phase(o) = "none" /\ Received(o) = 0
    BY <2>1, PhaseIs, CommonInit, ReceivedIs DEF Init
  <2>3. QED
    BY <2>1, <2>2 DEF Init, Ledger!Init
<1>2. LedgerInv /\ LedgerInv' /\ [Next]_vars => [Ledger!Next]_Shown
  <2>1. ASSUME UNCHANGED vars
        PROVE  UNCHANGED Shown
    <3>1. \A p \in Order : Phase(p)' = Phase(p) /\ Received(p)' = Received(p)
      BY <2>1, SameShows DEF vars, orderVars
    <3>2. QED
      BY <2>1, <3>1 DEF vars, orderVars, Shown
  <2>2. QED
    BY <2>1, StepShows DEF Next
<1>3. LedgerInv /\ LedgerInv' /\ [Next]_vars => [Ledger!Next]_(Ledger!ledger)
  BY <1>2 DEF Shown, Ledger!ledger
<1>4. QED
  BY <1>1, <1>3, LedgerInvariant, PTL DEF Spec, ImplementsLedger, Ledger!Spec
=============================================================================
