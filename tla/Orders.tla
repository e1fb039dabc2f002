------------------------------- MODULE Orders -------------------------------
(***************************************************************************)
(* The order (comanda) of one tenant: its lifecycle, its table, its items, *)
(* its Pix charges and its settlement, as orders.controller.ts,            *)
(* pix.controller.ts and the table handlers of catalog.controller.ts       *)
(* change them.                                                            *)
(*                                                                         *)
(* A request is a small process.  Its steps are the database accesses      *)
(* whose interleaving with other requests can be observed; every write of  *)
(* a transaction is one step, because nothing of it is visible before the  *)
(* commit and the order row stays locked from the first write on.          *)
(*                                                                         *)
(* The program runs on two databases.  On "sqlite" (development and CI) a  *)
(* transaction runs alone.  On "postgresql" (the Docker image) it runs at  *)
(* READ COMMITTED: other requests commit between its reads and its writes, *)
(* and the partial unique index on the occupied table does not exist.      *)
(***************************************************************************)
EXTENDS Naturals

CONSTANTS
    Order,           \* order ids
    Table,           \* dining table ids
    Req,             \* slots for requests being served at the same time
    NoTable,         \* tableId = null
    Database,        \* "sqlite" or "postgresql"
    StockControlled, \* does the sold product have stock_controlled = true?
    Ops,             \* handlers that are called
    MaxVersion,      \* bound on Order.version
    MaxItems         \* bound on the units of an order

Handlers == {"createOrder", "updateOrderStatus", "addItem", "settleOrder",
             "transferTable", "closeOrder", "createCharge", "receive",
             "deleteTable", "updateTable"}

ASSUME OrdersAssumption ==
    /\ Database \in {"sqlite", "postgresql"}
    /\ StockControlled \in BOOLEAN
    /\ Order # {}
    /\ NoTable \notin Table
    /\ Ops \subseteq Handlers
    /\ MaxVersion \in Nat \ {0}
    /\ MaxItems \in Nat

VARIABLES
    status,       \* Order.status, "absent" while no row exists
    version,      \* Order.version
    tableId,      \* Order.tableId
    items,        \* units on the order; every unit costs one
    payments,     \* OrderPayment rows, one record per settlement
    sold,         \* quantity of the "sale" StockMovement of the order, 0 for none
    chargeStatus, \* PixCharge.status, by order and version in its txid
    chargeAmount, \* PixCharge.amount_cents
    active,       \* DiningTable.active
    pc,           \* next step of each request
    loc           \* what each request was asked and has read

orderVars  == <<status, version, tableId, items, payments, sold>>
chargeVars == <<chargeStatus, chargeAmount>>
vars == <<orderVars, chargeVars, active, pc, loc>>

Versions == 1..MaxVersion
Finished == {"closed", "canceled"}
Statuses == {"absent", "open", "sentToKitchen", "delivered"} \cup Finished
Notices  == {"paid", "expired"}
ChargeStatuses == {"none", "pending"} \cup Notices

\* A payment by hand has charge 0; a Pix payment names its charge.
Payment == [charge : 0..MaxVersion, at : Versions, amount : 0..MaxItems]

\* The steps taken with a transaction open.
TxSteps == {"createInsert", "statusWrite", "itemWrite", "settleWrite",
            "transferWrite", "chargeSettle"}

Steps == {"idle", "createLookup", "createCheck", "statusCheck", "itemCheck",
          "settleRead", "transferRead", "closeWrite", "chargeRead",
          "chargeInsert", "receiveRead", "chargeMark", "chargeCheck",
          "tableCheck", "tableDelete", "tablePatch"} \cup TxSteps

FirstStep == [createOrder |-> "createLookup", updateOrderStatus |-> "statusCheck",
              addItem |-> "itemCheck", settleOrder |-> "settleRead",
              transferTable |-> "transferRead", closeOrder |-> "closeWrite",
              createCharge |-> "chargeRead", receive |-> "receiveRead",
              deleteTable |-> "tableCheck", updateTable |-> "tablePatch"]

-----------------------------------------------------------------------------
(* What a request carries.  Fields a handler does not use keep their blank *)
(* value.  expected = 0 stands for an absent expected_version.             *)

Local == [order : Order, expected : 0..MaxVersion, to : {"sentToKitchen", "delivered"},
          table : Table \cup {NoTable}, charge : Versions, notice : Notices,
          enable : BOOLEAN, seen : 0..MaxVersion, bill : 0..MaxItems]

Blank == [order |-> CHOOSE o \in Order : TRUE, expected |-> 0, to |-> "sentToKitchen",
          table |-> NoTable, charge |-> 1, notice |-> "paid", enable |-> TRUE,
          seen |-> 0, bill |-> 0]

\* A client sends no expected_version or the one it read last.  An older one
\* can only be refused, as versions grow, so it is not enumerated.
ExpectedVersions(o) == {0, version[o]}

\* Calls about an order that does not exist are answered 404 and change nothing.
Existing == {o \in Order : status[o] # "absent"}

Init ==
    /\ status = [o \in Order |-> "absent"]
    /\ version = [o \in Order |-> 0]
    /\ tableId = [o \in Order |-> NoTable]
    /\ items = [o \in Order |-> 0]
    /\ payments = [o \in Order |-> {}]
    /\ sold = [o \in Order |-> 0]
    /\ chargeStatus = [o \in Order |-> [v \in Versions |-> "none"]]
    /\ chargeAmount = [o \in Order |-> [v \in Versions |-> 0]]
    /\ active = [t \in Table |-> TRUE]
    /\ pc = [r \in Req |-> "idle"]
    /\ loc = [r \in Req |-> Blank]

-----------------------------------------------------------------------------
(* Steps of a request *)

\* SQLite: no statement of another request runs while a transaction is open.
MayUseDbAlways(r) == TRUE  \* mutant: the callbacks run without $transaction
MayUseDb(r) ==
    Database = "sqlite" => \A q \in Req \ {r} : pc[q] \notin TxSteps

At(r, step) == pc[r] = step
Goto(r, step) == pc' = [pc EXCEPT ![r] = step]
Finish(r) == /\ pc' = [pc EXCEPT ![r] = "idle"]
             /\ loc' = [loc EXCEPT ![r] = Blank]

\* What a handler keeps in its locals: the version and the bill it has read.
Remember(r, seen, bill) ==
    loc' = [loc EXCEPT ![r] = [@ EXCEPT !.seen = seen, !.bill = bill]]

Begin(r, op, body) ==
    /\ op \in Ops
    /\ pc' = [pc EXCEPT ![r] = FirstStep[op]]
    /\ loc' = [loc EXCEPT ![r] = body]

\* The calls a client, the kitchen display or the Pix provider can make now.
Submit(r) ==
    /\ pc[r] = "idle"
    /\ \/ \E t \in Table \cup {NoTable} : Begin(r, "createOrder", [Blank EXCEPT !.table = t])
       \/ \E o \in Existing : \E v \in ExpectedVersions(o) :
            \/ \E op \in {"addItem", "settleOrder", "closeOrder", "createCharge"} :
                  Begin(r, op, [Blank EXCEPT !.order = o, !.expected = v])
            \/ \E s \in {"sentToKitchen", "delivered"} :
                  Begin(r, "updateOrderStatus",
                        [Blank EXCEPT !.order = o, !.expected = v, !.to = s])
       \/ \E o \in Existing, t \in Table :
             Begin(r, "transferTable", [Blank EXCEPT !.order = o, !.table = t])
       \/ \E o \in Existing, v \in Versions, n \in Notices :
             /\ chargeStatus[o][v] # "none"
             /\ Begin(r, "receive", [Blank EXCEPT !.order = o, !.charge = v, !.notice = n])
       \/ \E t \in Table : Begin(r, "deleteTable", [Blank EXCEPT !.table = t])
       \/ \E t \in Table, e \in BOOLEAN :
             Begin(r, "updateTable", [Blank EXCEPT !.table = t, !.enable = e])
    /\ UNCHANGED <<orderVars, chargeVars, active>>

\* A request ends without effect: a guard throws or answers the present state,
\* the database or the provider fails, the process dies.  An open transaction
\* is rolled back, and no handler writes twice outside one.
Reject(r) ==
    /\ pc[r] # "idle"
    /\ Finish(r)
    /\ UNCHANGED <<orderVars, chargeVars, active>>

\* The where clause "version: expected_version" of an updateMany.
VersionMatches(o, expected) == expected \in {0, version[o]}

\* version: { increment: 1 }
Increment(o) ==
    /\ version[o] < MaxVersion
    /\ version' = [version EXCEPT ![o] = @ + 1]

PendingPix(o) == \E v \in Versions : chargeStatus[o][v] = "pending"

ActiveOnOpen(t) == {o \in Order : status[o] = "open" /\ tableId[o] = t}  \* mutant: an order the kitchen has seen no longer counts
ActiveOn(t) == {o \in Order : status[o] \notin Finished /\ tableId[o] = t}

\* Decrements the stock and inserts the "sale" movement of the order.  Its
\* unique index admits one per order and product: a second one aborts.
BookSaleTwice(o, quantity) ==  \* mutant: an item is counted for its order and for its line
    IF StockControlled /\ quantity > 0
    THEN sold[o] = 0 /\ sold' = [sold EXCEPT ![o] = 2 * quantity]
    ELSE UNCHANGED sold
BookSaleLine(o, quantity) ==  \* mutant: one unit per line, whatever its quantity
    IF StockControlled /\ quantity > 0
    THEN sold[o] = 0 /\ sold' = [sold EXCEPT ![o] = 1]
    ELSE UNCHANGED sold
BookSale(o, quantity) ==
    IF StockControlled /\ quantity > 0
    THEN sold[o] = 0 /\ sold' = [sold EXCEPT ![o] = quantity]
    ELSE UNCHANGED sold

AddPaymentNoCharge(o, charge, amount) ==  \* mutant: pixChargeId is not stored
    payments' = [payments EXCEPT
        ![o] = @ \cup {[charge |-> 0, at |-> version[o] + 1, amount |-> amount]}]
AddPayment(o, charge, amount) ==
    payments' = [payments EXCEPT
        ![o] = @ \cup {[charge |-> charge, at |-> version[o] + 1, amount |-> amount]}]

-----------------------------------------------------------------------------
(* POST /v1/orders *)

CreateLookup(r) ==
    /\ At(r, "createLookup")
    /\ loc[r].table # NoTable => active[loc[r].table]
    /\ Goto(r, "createCheck")
    /\ UNCHANGED <<orderVars, chargeVars, active, loc>>

CreateCheck(r) ==
    /\ At(r, "createCheck") /\ MayUseDb(r)
    /\ loc[r].table # NoTable => ActiveOn(loc[r].table) = {}
    /\ Goto(r, "createInsert")
    /\ UNCHANGED <<orderVars, chargeVars, active, loc>>

\* The index Order_tenantId_tableId_active_unique, in the SQLite schema only.
TableIndexAdmits(o, t) ==
    Database = "sqlite" /\ t # NoTable => ActiveOn(t) \subseteq {o}

CreateInsert(r) ==
    /\ At(r, "createInsert") /\ MayUseDb(r)
    /\ \E o \in Order :
          /\ status[o] = "absent"
          /\ TableIndexAdmits(o, loc[r].table)
          /\ status' = [status EXCEPT ![o] = "open"]
          /\ version' = [version EXCEPT ![o] = 1]
          /\ tableId' = [tableId EXCEPT ![o] = loc[r].table]
    /\ Finish(r)
    /\ UNCHANGED <<items, payments, sold, chargeVars, active>>

(* PATCH /v1/orders/:id/status *)

\* VALID_TRANSITIONS, read backwards.
Previous(to) == IF to = "sentToKitchen" THEN "open" ELSE "sentToKitchen"

StatusCheck(r) ==
    /\ At(r, "statusCheck") /\ MayUseDb(r)
    /\ ~PendingPix(loc[r].order)
    /\ Goto(r, "statusWrite")
    /\ UNCHANGED <<orderVars, chargeVars, active, loc>>

StatusWhereStale(o, to) == status[o] \notin {"absent", to}  \* mutant: the status is not in the where clause
StatusWhere(o, to) == status[o] = Previous(to)

StatusWrite(r) ==
    LET o == loc[r].order IN
    /\ At(r, "statusWrite") /\ MayUseDb(r)
    /\ StatusWhere(o, loc[r].to)
    /\ VersionMatches(o, loc[r].expected)
    /\ status' = [status EXCEPT ![o] = loc[r].to]
    /\ Increment(o)
    /\ Finish(r)
    /\ UNCHANGED <<tableId, items, payments, sold, chargeVars, active>>

(* POST /v1/orders/:id/items *)

ItemCheckNoPix(r) ==  \* mutant: pending charges are not looked up
    /\ At(r, "itemCheck") /\ MayUseDb(r)
    /\ Goto(r, "itemWrite")
    /\ UNCHANGED <<orderVars, chargeVars, active, loc>>
ItemCheck(r) ==
    /\ At(r, "itemCheck") /\ MayUseDb(r)
    /\ ~PendingPix(loc[r].order)
    /\ Goto(r, "itemWrite")
    /\ UNCHANGED <<orderVars, chargeVars, active, loc>>

ItemWhereClosed(o) == status[o] # "absent"  \* mutant: closed orders take items
ItemWhere(o) == status[o] \notin {"absent", "closed"}

ItemWrite(r) ==
    LET o == loc[r].order IN
    /\ At(r, "itemWrite") /\ MayUseDb(r)
    /\ ItemWhere(o)
    /\ VersionMatches(o, loc[r].expected)
    /\ items[o] < MaxItems
    /\ items' = [items EXCEPT ![o] = @ + 1]
    /\ Increment(o)
    /\ Finish(r)
    /\ UNCHANGED <<status, tableId, payments, sold, chargeVars, active>>

(* POST /v1/orders/:id/settle, and /close with payments *)

Unfinished == {"open", "sentToKitchen", "delivered"}

\* The order and its pending charges are read one after the other; an order that
\* changes in between is refused by the version in SettleWrite, so one step is
\* enough.  The payments must sum to the bill and each must be positive.
SettleRead(r) ==
    LET o == loc[r].order IN
    /\ At(r, "settleRead") /\ MayUseDb(r)
    /\ status[o] \in Unfinished
    /\ VersionMatches(o, loc[r].expected)
    /\ ~PendingPix(o)
    /\ items[o] > 0
    /\ Goto(r, "settleWrite")
    /\ Remember(r, version[o], items[o])
    /\ UNCHANGED <<orderVars, chargeVars, active>>

SettleWhereNoVersion(o, seen) == status[o] \in Unfinished  \* mutant
SettleWhere(o, seen) == status[o] \in Unfinished /\ version[o] = seen

SettleWrite(r) ==
    LET o == loc[r].order IN
    /\ At(r, "settleWrite") /\ MayUseDb(r)
    /\ SettleWhere(o, loc[r].seen)
    /\ status' = [status EXCEPT ![o] = "closed"]
    /\ Increment(o)
    /\ tableId' = [tableId EXCEPT ![o] = NoTable]
    /\ AddPayment(o, 0, loc[r].bill)
    /\ BookSale(o, loc[r].bill)
    /\ Finish(r)
    /\ UNCHANGED <<items, chargeVars, active>>

(* POST /v1/orders/:id/transfer *)

\* The target table's row is read between the two order reads and commutes with
\* the second of them.
TransferRead(r) ==
    LET o == loc[r].order IN
    /\ At(r, "transferRead") /\ MayUseDb(r)
    /\ status[o] \notin Finished
    /\ active[loc[r].table]
    /\ ActiveOn(loc[r].table) \subseteq {o}
    /\ Goto(r, "transferWrite")
    /\ UNCHANGED <<orderVars, chargeVars, active, loc>>

\* The update names the order by id alone.
TransferWrite(r) ==
    LET o == loc[r].order IN
    /\ At(r, "transferWrite") /\ MayUseDb(r)
    /\ status[o] # "absent"
    /\ TableIndexAdmits(o, loc[r].table)
    /\ tableId' = [tableId EXCEPT ![o] = loc[r].table]
    /\ Increment(o)
    /\ Finish(r)
    /\ UNCHANGED <<status, items, payments, sold, chargeVars, active>>

(* POST /v1/orders/:id/close without payments *)

CloseWrite(r) ==
    LET o == loc[r].order IN
    /\ At(r, "closeWrite") /\ MayUseDb(r)
    /\ status[o] \in Unfinished
    /\ VersionMatches(o, loc[r].expected)
    /\ status' = [status EXCEPT ![o] = "closed"]
    /\ Increment(o)
    /\ tableId' = [tableId EXCEPT ![o] = NoTable]
    /\ Finish(r)
    /\ UNCHANGED <<items, payments, sold, chargeVars, active>>

-----------------------------------------------------------------------------
(* POST /v1/pix/charges: no transaction around read, provider and insert *)

\* A pending charge is returned as it is.
ChargeRead(r) ==
    LET o == loc[r].order IN
    /\ At(r, "chargeRead")
    /\ status[o] \notin Finished
    /\ VersionMatches(o, loc[r].expected)
    /\ ~PendingPix(o)
    /\ items[o] > 0
    /\ Goto(r, "chargeInsert")
    /\ Remember(r, version[o], items[o])
    /\ UNCHANGED <<orderVars, chargeVars, active>>

\* The provider has answered; its txid stands for the external reference
\* order_<id>_v<version>, its idempotency key.  A row with the same txid is
\* returned instead of inserted.
ChargeInsert(r) ==
    LET o == loc[r].order
        v == loc[r].seen IN
    /\ At(r, "chargeInsert") /\ MayUseDb(r)
    /\ v \in Versions
    /\ chargeStatus[o][v] = "none"
    /\ chargeStatus' = [chargeStatus EXCEPT ![o][v] = "pending"]
    /\ chargeAmount' = [chargeAmount EXCEPT ![o][v] = loc[r].bill]
    /\ Finish(r)
    /\ UNCHANGED <<orderVars, active>>

(* POST /v1/pix/webhooks/:provider *)

\* Outside any transaction.  A charge read as paid is answered as replayed.
ReceiveRead(r) ==
    /\ At(r, "receiveRead")
    /\ chargeStatus[loc[r].order][loc[r].charge] \notin {"none", "paid"}
    /\ Goto(r, IF loc[r].notice = "paid" THEN "chargeCheck" ELSE "chargeMark")
    /\ UNCHANGED <<orderVars, chargeVars, active, loc>>

\* The status of an unpaid charge is written whatever it has become meanwhile.
ChargeMark(r) ==
    /\ At(r, "chargeMark") /\ MayUseDb(r)
    /\ chargeStatus' = [chargeStatus EXCEPT
           ![loc[r].order][loc[r].charge] = loc[r].notice]
    /\ Finish(r)
    /\ UNCHANGED <<orderVars, chargeAmount, active>>

\* The charge is read before the order; a charge paid in between has closed the
\* order, so one step is enough.
ChargeCheck(r) ==
    LET o == loc[r].order IN
    /\ At(r, "chargeCheck") /\ MayUseDb(r)
    /\ chargeStatus[o][loc[r].charge] # "paid"
    /\ status[o] \notin Finished
    /\ items[o] = chargeAmount[o][loc[r].charge]
    /\ Goto(r, "chargeSettle")
    /\ Remember(r, version[o], items[o])
    /\ UNCHANGED <<orderVars, chargeVars, active>>

\* OrderPayment.pixChargeId is unique.
ChargeIndexMissing(o, v) == TRUE  \* mutant: no unique index
ChargeIndexAdmits(o, v) == \A p \in payments[o] : p.charge # v

\* The update names the order by id alone.
ChargeSettle(r) ==
    LET o == loc[r].order
        v == loc[r].charge IN
    /\ At(r, "chargeSettle") /\ MayUseDb(r)
    /\ status[o] # "absent"
    /\ ChargeIndexAdmits(o, v)
    /\ status' = [status EXCEPT ![o] = "closed"]
    /\ Increment(o)
    /\ tableId' = [tableId EXCEPT ![o] = NoTable]
    /\ AddPayment(o, v, loc[r].bill)
    /\ BookSale(o, loc[r].bill)
    /\ chargeStatus' = [chargeStatus EXCEPT ![o][v] = "paid"]
    /\ Finish(r)
    /\ UNCHANGED <<items, chargeAmount, active>>

-----------------------------------------------------------------------------
(* DELETE /v1/catalog/tables/:id and PATCH /v1/catalog/tables/:id *)

TableCheck(r) ==
    /\ At(r, "tableCheck")
    /\ ActiveOn(loc[r].table) = {}
    /\ Goto(r, "tableDelete")
    /\ UNCHANGED <<orderVars, chargeVars, active, loc>>

TableDelete(r) ==
    /\ At(r, "tableDelete") /\ MayUseDb(r)
    /\ active' = [active EXCEPT ![loc[r].table] = FALSE]
    /\ Finish(r)
    /\ UNCHANGED <<orderVars, chargeVars>>

TablePatch(r) ==
    /\ At(r, "tablePatch") /\ MayUseDb(r)
    /\ active' = [active EXCEPT ![loc[r].table] = loc[r].enable]
    /\ Finish(r)
    /\ UNCHANGED <<orderVars, chargeVars>>

-----------------------------------------------------------------------------
Step(r) ==
    \/ Submit(r) \/ Reject(r)
    \/ CreateLookup(r) \/ CreateCheck(r) \/ CreateInsert(r)
    \/ StatusCheck(r) \/ StatusWrite(r)
    \/ ItemCheck(r) \/ ItemWrite(r)
    \/ SettleRead(r) \/ SettleWrite(r)
    \/ TransferRead(r) \/ TransferWrite(r)
    \/ CloseWrite(r)
    \/ ChargeRead(r) \/ ChargeInsert(r)
    \/ ReceiveRead(r) \/ ChargeMark(r) \/ ChargeCheck(r) \/ ChargeSettle(r)
    \/ TableCheck(r) \/ TableDelete(r) \/ TablePatch(r)

Next == \E r \in Req : Step(r)

Spec == Init /\ [][Next]_vars

-----------------------------------------------------------------------------
(* What must hold *)

\* Every variable keeps its type; see the declarations.
TypeOK ==
    /\ status \in [Order -> Statuses]
    /\ version \in [Order -> 0..MaxVersion]
    /\ tableId \in [Order -> Table \cup {NoTable}]
    /\ items \in [Order -> 0..MaxItems]
    /\ payments \in [Order -> SUBSET Payment]
    /\ sold \in [Order -> 0..MaxItems]
    /\ chargeStatus \in [Order -> [Versions -> ChargeStatuses]]
    /\ chargeAmount \in [Order -> [Versions -> 0..MaxItems]]
    /\ active \in [Table -> BOOLEAN]
    /\ pc \in [Req -> Steps]
    /\ loc \in [Req -> Local]

\* An order is settled at most once, by hand or by Pix, however the cashier's
\* call, its repetitions and the provider's notifications interleave.
SettledOnce == \A o \in Order : \A p, q \in payments[o] : p = q

\* What was paid is the bill of the order as it stands: no unit is added after
\* the total was computed, neither between the read and the write nor later.
PaidTheBill == \A o \in Order : \A p \in payments[o] : p.amount = items[o]

\* The same for a settlement by hand.  The version in its where clause carries
\* this on both databases.
PaidTheBillByHand ==
    \A o \in Order : \A p \in payments[o] : p.charge = 0 => p.amount = items[o]

\* The stock falls by the units of an order exactly when the order is settled;
\* an order closed without payments never touches it.
StockFollowsSettlement ==
    \A o \in Order : sold[o] = IF StockControlled /\ payments[o] # {} THEN items[o] ELSE 0

\* A Pix charge marked paid has its payment row, on an order that is closed.
PaidChargeIsSettled ==
    \A o \in Order, v \in Versions :
        chargeStatus[o][v] = "paid" =>
            status[o] = "closed" /\ \E p \in payments[o] : p.charge = v

\* Repeated notifications of one charge never produce two payments.
ChargePaysOnce ==
    \A o \in Order : \A p, q \in payments[o] : p.charge = q.charge => p = q

\* A table holds at most one order that is not finished.
OneOrderPerTable ==
    \A o, p \in Order :
        o # p /\ tableId[o] # NoTable /\ tableId[o] = tableId[p]
          => status[o] \in Finished \/ status[p] \in Finished

\* A finished order occupies no table, so that the table can be opened again.
FinishedFreesTable ==
    \A o \in Order : status[o] \in Finished => tableId[o] = NoTable

Rank == [absent |-> 0, open |-> 1, sentToKitchen |-> 2, delivered |-> 3,
         closed |-> 4, canceled |-> 4]

\* The status only advances, and a closed order is not reopened, though two
\* requests may both have read it open.
StatusOnlyAdvances ==
    [][\A o \in Order : status'[o] # status[o] => Rank[status[o]] < Rank[status'[o]]]_vars

\* From the moment a Pix charge is stored until it is paid or ends, the bill does
\* not move: no unit is added and no status step but closing is taken.  A change
\* between createCharge's reading of the order and its insertion is not excluded.
PendingPixFreezesBill ==
    [][\A o \in Order :
         PendingPix(o) => /\ items'[o] = items[o]
                          /\ status'[o] \in {status[o], "closed"}]_vars
=============================================================================
