# Verification of comandas-multitenant-offline

TLA+ modules, TLC configurations and TLAPS proofs about the order ("comanda")
system of this repository: a NestJS backend over Prisma (`src/backend`) and a
Flutter client that keeps working without a network (`src/lib`).

- [1. The system](#1-the-system)
- [2. Modules](#2-modules)
- [3. Orders: from code to model](#3-orders-from-code-to-model)
- [4. SyncQueue: from code to model](#4-syncqueue-from-code-to-model)
- [5. Idempotency: from code to model](#5-idempotency-from-code-to-model)
- [6. Sessions: from code to model](#6-sessions-from-code-to-model)
- [7. Management: from code to model](#7-management-from-code-to-model)
- [8. Realtime: from code to model](#8-realtime-from-code-to-model)
- [9. Billing: from code to model](#9-billing-from-code-to-model)
- [10. Runs](#10-runs)
- [11. Findings](#11-findings)
- [12. Proofs](#12-proofs)
- [13. Not modelled](#13-not-modelled)
- [14. Plan](#14-plan)

## 1. The system

| Part | State | Operations | Hard because |
|---|---|---|---|
| **Orders and settlement** `orders.controller.ts` | `Order` (status, version, table, totals), items, payments, history, stock | create, status, add item, settle, transfer, close | waiters, cashiers and kitchen act on one order at once; reads precede writes |
| **Dining tables** `catalog.controller.ts` | `DiningTable.active`, label, layout | create, update, layout, delete | occupancy is a property of two rows; check and write are separate |
| **Pix** `pix.controller.ts`, `pix.service.ts` | `PixCharge` | create charge, webhook | the provider is called between a read and a write; notifications repeat and race with the cashier |
| **Idempotency** `orders.controller.ts:51-139`, `idempotency.utils.ts` | `IdempotencyKey` | reserve in the transaction; or look up, then store | the same key arrives twice at once |
| **Sessions** `auth.service.ts`, guards | `RefreshToken`, `UserTenant` | login, refresh (rotation), logout, membership checks | replay of a rotated token, rollback of the revocation |
| **Management** `management.controller.ts` | expenses, expense payments, purchases, stock, suppliers | pay, cancel, generate recurring, receive, adjust | totals are checked before they are written |
| **Administration** `admin.controller.ts` | members, roles, features, settings | deactivate, change role | the last manager |
| **Realtime** `orders.gateway.ts`, `redis-io.adapter.ts` | sockets in rooms per tenant | connect, evict, emit | a socket joins while its user is removed; events before the join |
| **Client queue** `mutation_queue_storage.dart`, `sync_service.dart`, `offline_interceptor.dart` | durable list of mutations | enqueue, replay, remap, recover | lost answers, restarts, dependencies, back-off |
| **Client session** `auth_tenant_interceptor.dart`, `auth_repository.dart` | tokens, tenant, user in secure storage | attach, refresh, switch tenant | the session changes during a replay |
| **Client cache and socket** `offline_interceptor.dart`, `socket_service.dart` | cached answers, one socket | read through, reconnect | answers of an earlier session |
| **Reports** `reports.controller.ts` | none | read | none: queries only |
| **Bill** `financial.utils.ts`, `orders.controller.ts:446-575` | totals and discount of `Order`, `OrderPayment` | preview, settle, charge | rounding; what was previewed is not what is sent |
| **Screens** `settlement_screen.dart`, `kds_screen.dart` | form, preview, list of orders | edit, submit, reload | answers out of order, events and polling |
| **Receipts, formatting, other screens** | widget state | user input | user interface |

The parts meet in few places. The client sends requests through its
interceptors; a mutation that finds no network goes to the queue and is sent
again with the same idempotency key. The backend serves each request in its own
asynchronous handler, and handlers meet in the database only. The Pix provider
calls the webhook on its own initiative. The gateway tells clients to read again.

What makes each part correct:

- **orders**: an order is paid at most once and for what is on it, the stock
  follows, its status advances, and a bill that was read is the bill of its version;
- **tables**: one unfinished order per table, none after it is finished;
- **Pix**: a paid charge has one payment on a closed order; while one is pending
  the bill does not move;
- **bill**: the books of a closed order balance, its terms explain its discount,
  and what the screen showed is charged, or refused for a change since;
- **idempotency**: one key, one effect, and every answer tells of that effect;
- **client queue**: what the user did offline reaches the server once, in order,
  under that user's session, or is shown as failed;
- **sessions**: one refresh token, one live successor; a replay ends the session;
  the storage tells of one session;
- **management**: an expense is not paid beyond its amount; one expense per
  template and month; stock equals the sum of its movements;
- **realtime**: one socket, of the selected tenant while there is one; rooms of members;
  the display shows the orders as they are at last.

## 2. Modules

| Module | Kind | Content |
|---|---|---|
| `Orders` | specification | the handlers of orders, tables and Pix as interleaved requests over one database |
| `OrderLedger` | abstract specification | one atomic action per accepted call |
| `OrdersRefinement` | refinement mapping | `Orders` on SQLite implements `OrderLedger` |
| `SyncQueue` | specification | the client's durable queue, calls of `sync()`, the network, the idempotent server |
| `Outbox` | abstract specification | a mutation is kept until it has taken effect, once; `SyncQueue` implements it |
| `Idempotency` | specification | the two key protocols of the backend under concurrent requests, and the client that repeats |
| `KeyRegister` | abstract specification | a key belongs to the first call that is completed under it; `Idempotency` implements it |
| `Sessions` | specification | refresh tokens on the server and the session in the client's storage |
| `Management` | specification | expenses, recurring templates, stock, purchases |
| `Realtime` | specification | the socket of the application, the gateway, memberships, the kitchen display |
| `Billing` | specification | bill arithmetic, discounts, settlement screen, preview, settlement, Pix |
| `MCOrders`, `MCSyncQueue`, `MCIdempotency`, `MCSessions`, `MCManagement`, `MCRealtime`, `MCBilling` | instances for TLC | sets, symmetry, inputs |
| `OrdersProofs`, `LedgerProofs`, `SyncQueueProofs`, `IdempotencyProofs`, `SessionsProofs`, `ManagementProofs`, `RealtimeProofs`, `BillingProofs` | proofs | section 12 |

Definitions marked `mutant:` are the specification with one plausible bug; each is
paired with the property that fails when the code has that bug. They are not used
by any action.

The parts are specified apart where the code joins them by one value: `SyncQueue`
takes from `Idempotency` that a key has one effect (its `Serve` is one step because
`ImplementsRegister` holds), `Billing` takes from `Orders` that nothing changes
between the read and the write of a settlement (the version in its `where`), and
`Orders` takes the amounts as units because `Billing` has the arithmetic.

## 3. Orders: from code to model

**State.** `status`, `version`, `tableId`, `items`, `payments` and `sold` are the
columns and child rows of `Order` (`schema.prisma:117-179`) that the handlers
branch on. `chargeStatus` and `chargeAmount` are `PixCharge`, addressed by the
order and the version in its external reference `order_<id>_v<version>`
(`pix.controller.ts:115`), which the adapter sends to the provider as the
idempotency key (`pix.service.ts`). `active` is `DiningTable.active`.

**Requests.** `pc` and `loc` hold the requests being served. A request is
submitted with any arguments a client may send now and then goes through the
handler's database accesses one step at a time. Steps of different requests
interleave; every write of one transaction is a single step, since none of it is
visible before the commit and the order row is locked from its first write on.
`Reject` ends a request without effect at any point: a guard that throws, an
early return, a failure of the database or the provider, or the death of the
process. No handler of these commits twice, so a crash leaves what a rollback
leaves.

| Code | Steps |
|---|---|
| `createOrder` | `CreateLookup` (table row, before the transaction), `CreateCheck`, `CreateInsert` |
| `updateOrderStatus` | `StatusCheck` (pending Pix), `StatusWrite` (conditional update) |
| `addItem` | `ItemCheck` (pending Pix), `ItemWrite` |
| `settleOrder`, `closeOrder` with payments | `SettleRead` (order, charges, bill), `SettleWrite` (close, payments, stock) |
| `transferTable` | `TransferRead`, `TransferWrite` (by id) |
| `closeOrder` without payments | `CloseWrite` |
| `createCharge` | `ChargeRead`, then the provider, then `ChargeInsert` |
| webhook `receive` | `ReceiveRead`, then `ChargeMark`, or `ChargeCheck` and `ChargeSettle` (by id) |
| `deleteTable`, `updateTable` | `TableCheck` and `TableDelete`, `TablePatch` |

**Two databases.** Development and CI run on SQLite, where an interactive
transaction holds the write lock: while one is open, no statement of another
request that needs the lock runs (`MayUseDb`). The Docker image generates a
PostgreSQL schema and `docker-compose.yml` starts `postgres:16`; its transactions
run at READ COMMITTED, so between the reads and the writes of a transaction
other requests commit, and a conditional update evaluates its `where` on the row
as it is then. The partial unique index on the occupied table is created in
`prisma/migrations` and is missing in `prisma/migrations_postgresql`
(`TableIndexAdmits`). `Database` selects one of the two.

**Abstractions.** An item is a unit of price one, so the bill is the number of
units; discounts, service fee and the split among payment methods are arithmetic
on one total, which `Billing` has. Every item names one product, stock-controlled or
not. Idempotency keys are fresh for each request. Status history, audit log, labels and events are
left out. `canceled` exists in the schema and the guards, but no handler sets it.
One tenant: every query filters by it. An expected version is absent or current:
an older one can only be refused, because versions grow.
Reads that one step takes together are the order and its children (one Prisma
call), or reads whose result the following write verifies again. `ChargeRead` is such a
step: Prisma reads the order, its items and its pending charges with three statements,
and outside a transaction another request may commit between them. The amount may
then be of another version than the reference names; the webhook compares the
amount with the items when it is paid (`pix.controller.ts:185-193`) and refuses it as it
refuses one that is stale for any other reason.

## 4. SyncQueue: from code to model

**State.** `status`, `retry` and `due` are the fields of a `QueuedMutation` that
`sync()` branches on (`status`, `retryCount`, `nextAttemptAt`); `before` is the
order of `createdAt`. This part is durable (`SharedPreferences`) and survives
`Restart`. `syncing` is the flag `_isSyncing`. A *pass* is one call of `sync()`:
`pc` is where it awaits, `todo` its copy of the queue, `current` the mutation it
has sent, `known` its map `activeTempOrders`, `answer` what has come back. `wire`
holds requests that have not reached the server, with their sender; `Direct` is
the original call that timed out and was queued although it may still arrive.
`applied` and `stored` are the server: effects, and keys in `IdempotencyKey`.

| Code | Actions |
|---|---|
| `offline_interceptor.dart:51-106` | `Enqueue` |
| `sync_service.dart:43-65` | `Begin` (flag read), `Load` (flag set, queue copied) |
| `:67-116` | `Iterate`: `Skip` (back-off), `PassOver` (unknown order), `Send` |
| `:118-131`, `:161-177`, `:178-202` | `Accepted`, `Refused`, `GiveUp` |
| `:208-214` | `Finish` |
| `mutation_queue_storage.dart:33-45`, `:90-100`, `:102-125`, `:159-165` | `Recover` in `Restart`, `Pending`, `Update`, `Discard` |
| idempotent handlers of the backend | `Serve` |
| the network | `Lose`, `Weather` |

**Two passes.** `_isSyncing` is read before the session is awaited and set
after, so two calls that come close together both proceed. Nothing but the
server's keys keeps their requests apart; the runs have two passes for that.

**Abstractions.** One user and one tenant: what happens when they change during a
replay is in `Sessions`. A request an interceptor refuses is a request that
fails. The catch-all of `sync()` for other exceptions is left out, and so is the
branch for non-2xx answers at `:132-160`, which `dio` turns into exceptions. The
rewritten path of a dependent mutation has no effect of its own, since a later
pass never sends one. `retryCount` stops at `MaxRetry`: the code only compares it
with five. Two copies of one mutation sent by one pass are one element of `wire`.
The server may refuse any new request, because other users change the order, and
must refuse one for a closed order; what a key's two requests may do inside the
server is in `Idempotency`. Calls made online are not modelled, except the one
that times out and is queued.

**Fairness.** The event loop runs on a pass that has begun (`WF(PassGoesOn)`), time
passes (`WF(Elapse)`), and the network delivers (`WF(Serve)`). Nothing makes a pass begin:
the only caller of `sync()` is the button of `dashboard_screen.dart:57-62`. The properties
that something drains therefore name what they need: the requests are answered from
some time on and the app is left running (`<>[]steady`), and the user asks for another pass
as long as none is running (`AskedFor`). Without the second a mutation waits for ever,
although the repository says that synchronization is automatic (section 11).

## 5. Idempotency: from code to model

**State.** `row` is the committed `IdempotencyKey` of each key with the call it
answers for; `effects` counts how often each call has taken effect. A request has
its step `pc`, the `call` it carries and its `answer`; `listening` are the requests
whose client still waits. `client` and `told` are what the client knows. `settled` are the
orders that are closed with payments; `OrderOf` names the order of each settlement.

| Code | Actions |
|---|---|
| `idempotency.utils.ts:24-39`, `orders.controller.ts:60-68`, `:84-99` | `Lookup`, answering with `FromRow` |
| `:41-53`, `orders.controller.ts:102-138` | `Insert`, `MutateReserved`: `Commit`, `CommitAsIs`, refusal by a rule, or unique violation of the operation's own |
| `orders.controller.ts:530-533` | `CommitAsIs`: the order is closed with payments and is returned as it is |
| a settlement under another key, or by Pix | `SettleElsewhere` |
| `orders.controller.ts:70-73` and its callers | `MutateStored` |
| `:54-68` | `Canonical` |
| the client | `Send`, `Timeout`, `Deliver` |
| failure of process, connection or database | `Die`, `Drop` |

**Two protocols.** *Reserving* calls insert their key first in the transaction that
has the effect. The others (status, items, close) look up outside and insert at the
end. They also hash differently: the first operation, tenant, user and payload, the
second the body alone (`Hash`), so that the same body sent for another order under
one key is answered with the first order. `MutateStored` may return the order as it
is without storing the key (`asIs`), as `updateOrderStatus` does for a status the
order already has. A settlement that finds its order closed with payments is different: it
records nothing either, but its key is completed and its client gets the order as the
result (`CommitAsIs`). A result therefore says that something has *happened*
(`Happened`): the call has taken effect, or its order is settled, by whomever.

**Locks.** A transaction that has inserted a key holds it (`Held`) against others
that insert it, as a unique index does; on SQLite transactions run alone, which is
one of the interleavings. A row is visible when its transaction commits and is then
complete: the branch that answers "being processed" is never taken, which
`NeverHalfDone` states and the proof shows.

**Fairness.** `Serve`, `Deliver` and `Drop` of each request (the event loop and
network), and `Send` of each call, which is the queue's repetition. At most
`MaxFailures` requests die or time out; without such a bound nobody need ever be
answered. The run sets `CHECK_DEADLOCK FALSE` because all calls may be answered.

## 6. Sessions: from code to model

**State.** `state`, `user` and `line` are the rows of `RefreshToken` (unused, live,
revoked) with the login they descend from. `access`, `refresh` and `owner` are the
three keys of secure storage; an access token is its user. A *party* asks the
server: the `ui` (login, logout, start-up), the `refresher` (interceptor after a
401), and `copy`, whoever else holds a token that was once issued. `flow` is where
each flow of the application awaits, `replay` the mutation that is being replayed.

| Code | Actions |
|---|---|
| `auth.service.ts:41-61`, `:93-104` | `ReadToken`, `RevokeAll` |
| `:63-90` | `Claim`, `Create` (one transaction, two moments) |
| `:19-39` | `Login` |
| `auth_repository.dart:35-50`, `:89-97`, `:68-79` | `Boot`, `Logout`, `Lost` |
| `auth_tenant_interceptor.dart:18-53` | `Refresh`, `Answered`, `Lost` |
| `auth_repository.dart:52-65`, `:81-87`, interceptor `:44-60` | `WriteAccess`, `WriteRefresh`, `WriteOwner`, `ClearAccess`, `ClearRefresh`, `ClearOwner` |
| `sync_service.dart:46-51`, interceptor `:63-135` | `BeginReplay`, `ReplayToken`, `ReplayOwner`, `Retry` |
| the operating system | `Kill` |

Every read, write and delete of the storage is awaited, so flows interleave between
any two of them. A claimed row is locked until its transaction ends (`Claimed`); on
SQLite writers run alone (`MayWrite`). The losing branch of `Claim` revokes nothing:
its revocation is in the transaction that its exception rolls back.

**Abstractions.** Expiry, hashing and passwords are left out; a token that expired
is refused, which is what `Lost` does to the client. The tenant keys are cleared
together with the others. `crossed` remembers that a refresh has ended over a session
that another flow was changing; the properties of the storage except that case,
and section 11 shows what it can lead to. There is no fairness: what is promised of
sessions is safety.

## 7. Management: from code to model

**State.** `expense` is `PayableExpense` in the order of creation with the sum of its
payments, `templates` the recurring ones, `controlled` and `stock` columns of
`Product`, `adjusted` the sum of the adjustment movements, `purchase` the purchases
with their lines, counted products and payable.

| Code (`management.controller.ts`) | Actions |
|---|---|
| `createExpense` | `CreateExpense` |
| `updateExpense` | `ReadUpdate`, `Update` (by id, no transaction) |
| `payExpense` | `StartPayment`, `ReadPayments`, `Pay` |
| `cancelExpense` | `CancelExpense` (by id) |
| `createRecurring` | `CreateRecurring` |
| `generateRecurring` | `ListTemplates`, `Generate` per template, `Generated` |
| `adjust` | `Adjust` |
| purchases `create` | `StartPurchase` (products read), `Line` per product, `Purchase` (payable and commit) |
| `updateProduct` (`catalog.controller.ts`) | `UpdateProduct` |

At READ COMMITTED a payment, an update and a cancellation of one expense may pass
each other; `overlapped` remembers an expense that a request has written between
another's read and write. `PaidWithinAmount` and `NothingPaidAfterCancel` say that
this is the only way to pay too much. `moved` remembers the months an update has
taken expenses from, which a generation may then fill.

A purchase locks the row of each product it updates until it commits; two of them
that take their lines in different order wait for each other until the database or
Prisma's time limit ends one (`Abort`). Fairness is weak fairness of `Work`: a
request that was begun goes on. Quantities and unit costs are one; the unique
movement per purchase and product is what the set of counted products is.

`MaxRequests` bounds the requests begun: three let two of them conflict over a row that
the third has made.

## 8. Realtime: from code to model

**State.** The socket service: `enabled`, `current` (the socket of the latest
generation), `retry` (the 3-second timer), `status`, and per socket `cli` (what the
application knows of it) with the token (`carries`) and the tenant (`room`) it has read. The
session in storage: `token` (fresh, expired or none) and `selected`, with the writes that
are awaited: `choosing` (tenants being selected), `clearing` (the token is deleted, the
tenant not yet), `ending` (a logout). The screens: `screen`, the request of the display
(`fetch`, `answer`) and the orders it has `shown`, each with their tenant. The server: `srv` per
socket, `active` (`UserTenant.active`), `evicting` (memberships stored as ended, sockets not
yet fetched), `version` (number of changes of a tenant's orders) and `inbox` (events on
their way). `early` and `late` remember sockets the properties speak of.

| Code | Actions |
|---|---|
| `socket_service.dart:36-44` | `Connect` in `OpenDisplay`, `Retry`, `Resume` |
| `:45-47`, `:48-63`, `:83-85` | `ReadToken`, `ReadTenant`, `Dial` (opens, stops without a session, or was overtaken), `ReadFails` |
| `:64-93` | `OnConnect`, `OnEvent`, `OnDisconnect`, `ScheduleRetry` |
| `:109-116` | `Stop`, `Disconnect` in `SwitchTenant` and `Logout` |
| `tenant_switch_screen.dart:18-30`, `tenant_repository.dart:30-39` | `SwitchTenant` (disconnect, write begun), `WriteTenant` |
| `auth_tenant_interceptor.dart:30-61` | `Refresh`, `RefreshFails`, `DeleteTenant` |
| `dashboard_screen.dart:48-54`, `auth_repository.dart:68-87` | `Logout`, `DeleteToken`, `DeleteTenant` |
| `login_screen.dart:37-47` | `Login` |
| `kds_screen.dart:25-56` | `OpenDisplay`, `Invalidate`, `Poll`, `CloseDisplay`; `Answer`, `Show`, `FetchFails` |
| `orders.gateway.ts:22-76` | `Check` (token and membership), `Join`, `Change`, `Evict` |
| `admin.controller.ts:78-121` | `Deactivate`, `Evict`, `Reactivate` |
| time, network | `Expire`, `Leave`, `Break` |

**The session and the socket.** Choosing a tenant disconnects first and then awaits the
write; the user may leave the list in between and open the display, whose `connect()` reads
the old tenant. Nothing disconnects that socket when the write is done: it is `early`, and
`OneSocketOfSelection` excepts it. A refresh that fails deletes the session and tells the socket
nothing, and a display opened while a logout is told to the server reads a session that
is about to be deleted; these sockets stay up with no tenant selected. The service itself
calls `disconnect()` only when it reads no token or no tenant.

**The token and the socket.** The gateway refuses an expired token, and the socket never
refreshes: each attempt reads the token that is stored. It is the requests of the display
that refresh it after a 401. `Rejoins` therefore speaks of an open display only, whose
poll is enough; `Steady` asks that a token and a tenant are stored and the user is a
member. With the display closed an expired token is refused again and again (section 11).

The namespace accepts a socket before `handleConnection` has checked it, so the
client's `OnConnect` may come before `Join`, and a change emitted between them
reaches nobody. That the display shows it nevertheless (`ShowsLatest`) is the work of
the 30-second poll alone.

**Abstractions.** One user, who may log in again; two users are in `Sessions`. The refresh
token and the other keys of the storage are there too: here the token goes first and the
tenant last, which are the two keys the socket reads, and a login stores its token in one
step. `Expire` takes every token issued so far, so the tokens of the socket and of the
storage have one age each. A request of the display takes the session when it is answered,
not when it is sent. Origin, malformed handshakes and unknown roles are left out. The Redis
adapter is taken as one server.

**Fairness.** Timers expire (`Retry`, `Poll`), storage and network answer
(`SocketStep`, `DisplayStep`, `StorageStep`), the server goes on with a deactivation (`Evict`).
`Refresh` is fair only as part of a request of the display that waits for it. Broken
connections, failed requests and reads, expired tokens, resumed and switched sessions,
logouts and changes of the membership are bounded by `MaxFaults`: a display that is
interrupted for ever need not show anything. The run sets `CHECK_DEADLOCK FALSE` because the
display may be closed for good.

## 9. Billing: from code to model

**State.** `subtotal`, `version`, `bill` and `payments` of one order, the cashier's
`limit`, one Pix `charge`, the `role` of the user, and the settlement screen: the
version it was opened with (`known`), its `form`, the previews `asked`, `loading`, the
`quote` it shows and the settlement it has `sent`.

| Code | Definitions |
|---|---|
| `financial.utils.ts:39-61` | `Round`, `Fee`, `TotalOf` |
| `:63-122` | `ValidRow`, `PaidSum`, `ValidPayments`, `PaymentRow` |
| `orders.controller.ts:446-484` | `DiscountType`, `Discount`, `DiscountValue`, `Resolves`, `MayDiscount` |
| `:486-519` | `Previewable`, `PreviewSettlement` |
| `:521-575` | `Settles`, `SettleOrder`, `RefuseSettlement` |
| `pix.controller.ts:82-138`, `:172-215` | `AskCharge`, `InsertCharge`, `Expire`, `StillCosts`, `Receive` |
| `settlement_screen.dart:58-289`, `:435-475` | `Reopen`, `Edit`, `ShowPreview`, `Splits`, `SubmitSettlement` |
| `admin.controller.ts:180-188` | `UpdateDiscountPolicy` |

Money is in cents and percentages in basis points; `Math.round` of a non-negative
quotient is `Round`, with integers only. The amounts of the run (1 and 5 cents, 15 %
off, 10 % and 12.5 % fee) give quotients that round up, round down and fall on a half.
The discount is in a body as the client may send it: none, a percentage with or
without fitting cents, a fixed amount.

**Abstractions.** A handler is one step, except the creation of a charge. The payments
that are sent make up the total on the screen, which is what the screen fills in
(`settlement_screen.dart:163-169`); a user who types others is outside
`QuoteIsCharged`. A discount limit is only lowered, and only matters to a cashier.
Offline there is no preview. `CHECK_DEADLOCK FALSE`: a settled order is the end.
`MaxVersion` lets one item come between preview and settlement, `MaxAsked` two
previews overtake each other.

## 10. Runs

| Run | Instance | Shows |
|---|---|---|
| `orders_bill_sqlite` | 1 order, 2 requests, 5 versions, 2 units | `TypeOK`; `PaidTheBill`; `StockFollowsSettlement`; `PendingPixFreezesBill`; `ImplementsLedger` |
| `orders_bill_postgresql` | the same, READ COMMITTED, stock not controlled | `PaidTheBillByHand`; `ChargePaysOnce`; `PaidChargeIsSettled`; `StatusOnlyAdvances` |
| `orders_tables_sqlite` | 2 orders, 2 tables, 2 requests | `OneOrderPerTable`; `FinishedFreesTable`; `ImplementsLedger` |
| `sync_replay` | a creation and the closing that depends on it, 2 passes, failure after 2 attempts | `AppliedOnce`; `NothingLost`; `SentUnderRealId`; `IndependentDrain`; `KeepsOutbox` |
| `idempotency` | 1 key, 2 settlements of one order and 2 storing calls (of one body), 2 requests, 2 failures | `OneEffect`; `AnswerTellsEffect`; `NeverHalfDone`; `EventuallyAnswered`; `ImplementsRegister` |
| `sessions` | 2 users, 3 tokens, 1 fault, PostgreSQL | `OneLiveToken`; `StoredSessionIsOne`; `SessionSurvives`; `ReuseEndsSessions` |
| `management` | 2 products, 2 templates, 2 months, 2 requests at once of 3, PostgreSQL | `PaidWithinAmount`; `NothingPaidAfterCancel`; `OneExpensePerMonth`; `GenerationCovers`; `StockMatchesMovements`; `EveryRequestEnds` |
| `realtime` | 2 sockets, 2 tenants, 1 change, 2 faults | `OneSocketOfSelection`; `RoomIsOfMembers`; `ShowsLatest`; `Rejoins` |
| `billing` | 1 order, 2 prices, 3 bodies, 2 limits | `BillBalances`; `TermsExplainDiscount`; `QuoteIsCharged`; `QuoteIsHonoured` |
| `orders_table_taken_twice`, `sync_dependent_stuck`, `sessions_replay_other_user` | smallest that shows it | section 11 |

**Orders.** Two requests are in flight at once. That is enough for every conflict
in the code: each handler has at most two observable moments, a read and a write,
and the hazards are one other commit between them. `MaxVersion` bounds the
number of accepted changes of an order, `MaxItems` its units. Five versions allow an
order to be created, take two units, go to the kitchen and be settled, with the two
charges that two of these versions can have. Two orders and two tables are what a
double occupancy and a transfer need. Requests and tables are interchangeable, so the
runs use symmetry; orders are told apart by the `CHOOSE` in `Blank` and are not
permuted. With a stock-controlled product the unique index on sale movements stands
behind the guards and hides a missing one; the PostgreSQL run leaves it out, so that
the guards carry the properties alone.

**SyncQueue.** Two passes are what `_isSyncing` can let through; a third repeats
the second. Two attempts instead of the code's five let a mutation back off once
and fail for good once, which are the two branches; the violation run uses five
attempts, three mutations and one pass.

**Idempotency.** Calls under different keys do not meet, so one key is enough. Two
requests are a request that timed out and its repetition; the calls of each protocol
come in pairs because one key may be used for two of them. Calls under other keys meet
these at their order only, which `SettleElsewhere` stands for.

**Sessions.** Three tokens are two logins and a rotation, or one login rotated twice.
One fault is a lost answer, a kill or a copy. Users and tokens are interchangeable.

**Realtime.** Two sockets are the current one and one that was overtaken while it was reading,
is being disposed of, or is still known to the server. Two faults are any two of what
`MaxFaults` counts, such as an expiry and a failed refresh, or a choice of a tenant and a
resumed application.

Deadlock is checked in every run that does not say otherwise above: an idle request
can always be submitted, and the network can always change. `management` allows it
because no request may be begun any more.

No liveness is claimed of the order handlers: a handler may fail at any point and
nothing retries it. What must eventually happen is the client's business.

## 11. Findings

Three runs show that the code does not do what a sentence of the repository says.

1. `orders_table_taken_twice`: on PostgreSQL two orders share a table; the index
   that would refuse the second is only in the SQLite migrations.
2. `sync_dependent_stuck`: `remapTempOrderId` means to clear the dependency, but
   `copyWith` cannot set a field to null. A dependent mutation is only sent by the
   pass that sent its order; if that pass leaves early, it stays in the queue.
3. `sessions_replay_other_user`: the answer to a refresh is stored whenever it comes,
   also after another user has logged in. The storage then has one user's tokens and
   another's id, the owner check of a replay passes, and the queue of the second user is
   sent with the token of the first.

Observations made while modelling that no run states:

*Orders and Pix*
- On PostgreSQL the webhook updates the order by id (`pix.controller.ts:195`); a
  settlement by hand that commits after its status check gets a second payment beside
  it. `PaidTheBill` and `StockFollowsSettlement` hold on SQLite only; what survives on
  PostgreSQL is `PaidTheBillByHand` and `ChargePaysOnce`.
- On PostgreSQL a transfer, whose update names the order by id, can give a table back
  to an order closed after the transfer read it: `FinishedFreesTable` holds on SQLite
  only.
- `closeOrder` without payments leaves a pending charge behind, which settling refuses
  to do; the customer's payment is then refused by the webhook.
- `deleteTable` and `createOrder` each check before they write, and an order may end up
  on an inactive table.
- Orders close from any unfinished state, which `README.md:79-80` of the repository
  excludes ("saltos de estado").
- `createCharge` does not compare a discount with the cashier's limit
  (`pix.controller.ts:98`), settling does.
- A discount of the whole bill can be previewed but never settled: no payment of
  nothing is valid. A percentage equal to the cashier's limit may be refused when it
  rounds up.

*Client queue*
- A mutation in back-off is overtaken by a later one of its order, which may close it.
- `getPendingFor` returns failed mutations, and the next synchronization sends what the
  server had refused.
- `README.md:88` of the repository says that synchronization takes place "automaticamente
  quando o aplicativo está em execução". Nothing calls `sync()` but the button of
  `dashboard_screen.dart:57-62`: a queue nobody synchronizes by hand stays. `IndependentDrain`
  and `DependentDrain` hold or fail under `AskedFor`, the user who keeps pressing it.

*Idempotency*
- `checkIdempotency` hashes the body alone: the same change of status sent for another
  order under one key is answered with the first order. `AnswerTellsEffect` says so.
- A settlement of an order that another has settled is answered as a success, and its key is
  stored as completed, but its payments are not recorded (`orders.controller.ts:530-533`). The
  answer shows the other payments; `Happened` says no more than that the order is settled.
- Any unique violation of an operation, such as a supplier's document, is answered as a
  conflict of keys (`idempotency.utils.ts:55`).
- A repetition may be refused while the first request, which timed out, is still
  running and then commits. The client shows a failure that has taken effect.
- The answer "being processed" is never given (`NeverHalfDone`).
- The settlement screen keeps its key when the form has changed
  (`settlement_screen.dart:233`): after a settlement that committed but timed out, the
  changed body is refused as a conflict of keys.

*Sessions*
- The loser of two claims revokes all tokens in a transaction that its exception rolls
  back (`auth.service.ts:69-75`).
- On PostgreSQL a revocation of all tokens misses the successor of one that is being
  rotated; `ReuseEndsSessions` excepts it.
- A kill between the two writes of a refresh leaves a rotated refresh token, and the
  next start counts as reuse and ends the user's sessions on every device.
- `logout_pending` (`auth_repository.dart:75`) is written and never read.

*Management*
- On PostgreSQL two payments, or a payment and an update or a cancellation, of one
  expense may pass each other; `overlapped` is the exception in the properties.

*Realtime*
- The reload on connecting comes before the socket is in its room; only the poll
  repairs what is emitted in between. The event `authenticated` is not listened to.
- A socket that had passed the check when its user was deactivated joins afterwards and
  stays (`late` in `RoomIsOfMembers`).
- A socket that is refused tries again every three seconds for ever. When its token has
  expired and the display is closed, each attempt reads the same expired token: the socket
  does not refresh it, and no request of the display does.
- A display opened while the choice of a tenant is being written connects to the room of the
  former tenant and stays there (`early` in `OneSocketOfSelection`), where `README.md:73` of the
  repository says that the socket is disconnected and initialized again for the room of the
  new one. The poll shows the orders of the new tenant; events come of the old.
- A socket outlives its session: a failed refresh deletes the session and leaves the socket
  up, and so does a display that is opened while the logout is told to the server. A socket
  that has joined stays when its token expires.

## 12. Proofs

The theorems hold for any sets and bounds; the only assumptions are the named ones of
the modules, which the runs evaluate, and `Database = "sqlite"` where it is said.
Each invariant is strengthened to one that every action keeps, with one step per
action; the temporal theorems follow by PTL.

**`OrdersProofs`**: on both databases `TypeCorrect`, `PaymentsAreSound`
(`PaidChargeIsSettled`), `ChargesPayOnce`, `HandPaysTheBill` (`PaidTheBillByHand`),
`StatusAdvances`,
`VersionsCount` (`VersionCountsChanges`: every write of an order adds one to its
version), `VersionsAreHeld` (`ExpectedVersionHeld`: a change that names a version is made
to that version, also when other requests ran between its read and its write); on SQLite `SettlementIsSingle` (`SettledOnce`), `SettlementIsExact`
(`PaidTheBill`), `StockIsExact` (`StockFollowsSettlement`), `TablesAreExclusive`
(`OneOrderPerTable`), `FinishedOrdersLeave` (`FinishedFreesTable`), `PixFreezes`
(`PendingPixFreezesBill`). Section 11 shows that the assumption is needed. `CommonInv`
adds what holds on both databases: an absent order has blank columns, an order with
payments is closed, none is canceled, the bill a settlement has read is the bill of the
version it has read (so the version in the `where` clause protects it), and a request
about to write an unpaid notice has not seen the charge paid. `SerialInv` adds what only
SQLite gives: at most one request is inside a transaction, and what it has read still
holds. `ChargesChecked`, for `PixFreezes`, adds that a request about to change an order
found no charge pending.

**`LedgerProofs`**: `Implementation`, on SQLite: the handlers implement `OrderLedger`
(`ImplementsLedger`). Its invariant is `SerialInv` with two facts the ledger's guards
ask for: what is charged or settled costs something (`PositiveAmounts`), and a transfer
names a table, which only orders that exist occupy (`TablesOfOrders`). One step per
action: the last write of a handler is the ledger's action, every other step stutters.

**`SyncQueueProofs`**: `SyncTypeCorrect`, `ExactlyOnce` (`AppliedOnce`),
`NothingLeavesUndone` (`NothingLost`), `ParentsFirst` (`SentUnderRealId`). `SyncInv`
adds that a pass that waits has an entry; the number of effects of a mutation is one
when its key is stored and zero otherwise; what was accepted, is known to a pass or
has left the queue is stored; a dependent request under way has a stored parent. The
server's keys alone carry `AppliedOnce`; `_isSyncing` is in no hypothesis. `LockIsHeld`
(`LockHasHolder`) says of that flag that it is never set without a call of `sync()` in its
loop that will reset it.

`QueueIsOutbox`: the queue, the passes, the network and the server together implement
`Outbox` (`KeepsOutbox`). The mapping shows of a mutation whether it is unseen, kept, shown
as failed or gone, and the set of mutations that have taken effect. Beside `SyncInv` the proof needs
`WasQueued`, that nothing is under way or has had an effect that was never queued, and
`Moved`, that a step of a pass leaves each stage or moves the one mutation it works on.
`Enqueue` is `Keep`, the removal in `Accepted` is `Forget`, the execution in `Serve` is
`TakeEffect`; failing and being sent again are `Show` and `Retry`; every other step stutters.

**`IdempotencyProofs`**: `Types`, `EffectsAreUnique` (`OneEffect`), `ResultsAreTrue`
(`AnswerTellsEffect`), `KeysAreNeverHalfDone`, and `Implementation`: the two protocols
implement `KeyRegister`. The invariant: a committed row is complete and belongs to its
key; a call that has had an effect owns its key, and the owner of a key has had its effect
or is a settlement of a settled order (`Happened`); a transaction that has inserted a key is
alone with it and no row exists; every result, on its way or delivered, is the owner's.

**`SessionsProofs`**: `Types`, `RotationNeverForks` (`OneLiveToken`),
`RevocationIsComplete` (`ReuseEndsSessions`), on both databases. The invariant: a
claimed token is live and claimed by one transaction; what is presented, answered or
stored was issued; a token's line is an issued token.

There too, for the client: `StoredSession` (`StoredSessionIsOne`) and `SessionLives`
(`SessionSurvives`), on both databases. `StorageInv` says which of the three keys the
ui (`UiHalf`) and the refresher (`RefresherHalf`) have written or deleted at each step
of theirs, as long as no refresh has crossed; `LiveInv`, that without faults the token
that is stored, or is about to replace the stored one, is live. A step of the refresher
that does not cross finds the ui idle and the session the refresh was begun with, and
that is what carries the proof.

**`ManagementProofs`**: `Types`, `PaymentsFit`, `CanceledStaysUnpaid`, `MonthsAreExact`,
`GenerationsAreComplete`, `PurchasesOwnPayables`, `StockIsMovements`. The invariant:
what a payment or an update has compared still holds when it writes unless the expense
is `overlapped`. `StockIsMovements` counts the purchases of a product, so that each
purchase adds one to both sides.

**`RealtimeProofs`**: `Types`, `OneConnection` (`OneSocketOfSelection`), `StatusIsTrue`
(`StatusIsOfCurrent`), `RoomsAreOfMembers` (`RoomIsOfMembers`). The invariant: only the
current generation holds a socket, and what it has read is the selected tenant, unless it is
early or none is selected, because a tenant is written only after the generation was given
up (`ChoiceIsDone`); who has passed the check is a member or remembered
as late. Two theorems are the safety side of the liveness that TLC checks: `AttemptsGoOn`
(`NeverStranded`), no order of callbacks leaves an enabled application without an attempt
or a timer, as `Rejoins` needs; `ShownGoesForward` (`Past`, `NeverGoesBack`), the display
shows a past state of the tenant it names and, as long as it stays open, never an earlier
one of that tenant than before, so that what `ShowsLatest` reaches is not lost again.

**`BillingProofs`**: `BillTyped` (`TypeOK`), `BooksBalance` (`BillBalances`), `TermsExplain`
(`TermsExplainDiscount`), `ShownIsCharged` (`QuoteIsCharged`), `ShownIsHonoured`
(`QuoteIsHonoured`), for any prices, limits, discounts in cents or percent and fees in
basis points. It begins with the arithmetic: rounding is monotone, stays within half a cent
and keeps naturals; a larger subtotal costs more under the same terms, so a total tells its
subtotal (`TotalTellsSubtotal`), which is why a webhook that compares totals only notices a
change of the items. The screen sends one payment or two, and `PaidSum`, a fold, is
evaluated for rows of these lengths from its definition; no induction is needed.
`BillingInv` adds to the types: a quote on the screen, or under way to it, was computed from a
version and a limit that the order and the tenant have had, and costs what it says as long as
they have them (`QuotesHold`); at the subtotal that its amount tells, the terms of a charge
explain its discount (`ChargeHolds`); an open order has no payments, and every row balances
(`PaymentsHold`); a closed order's payments, subtotal, fee and total follow from its terms
(`BillHolds`).

Proved and not among the runs' properties: the type invariants of `SyncQueue`,
`Idempotency`, `Sessions`, `Management`, `Realtime` and `Billing`, and `SettledOnce`,
`VersionCountsChanges`, `ExpectedVersionHeld`, `PayablesAreOwn`, `StatusIsOfCurrent`,
`LockHasHolder`, `NeverStranded`, `Past` and `NeverGoesBack`. They hold for every value of the constants, so
a run would add nothing.

Model-checked only: what must eventually happen (`IndependentDrain`, `EventuallyAnswered`,
`EveryRequestEnds`, `ShowsLatest`, `Rejoins`), since liveness under fairness is out of the
prover's reach. Every other property of the passing runs is a theorem.

## 13. Not modelled

- Queries without state: reports, lists, paging, the client's read cache.
- Single writes that no property depends on: catalog items, categories, suppliers,
  table labels and layout, roles, subscriptions, printers, audit log.
- Cryptography and identity: passwords, signatures of tokens and of the webhook; the expiry
  of refresh tokens (that of access tokens is in `Realtime`, as the socket meets it).
- Start-up, configuration, scripts, receipts, and the layout of screens.
- Several instances of the backend behind Redis.

## 14. Plan

1. The same requests on PostgreSQL as a refinement: a ledger in which a settlement by hand
   and a Pix payment may both be recorded, which is what `PaidTheBillByHand` and
   `ChargePaysOnce` leave.
2. `SyncQueue` with the changing session of `Sessions`, in one module.
3. Two instances of the backend behind Redis in `Realtime`.
