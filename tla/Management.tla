----------------------------- MODULE Management -----------------------------
(***************************************************************************)
(* Accounts payable, stock and purchases of one tenant                     *)
(* (management.controller.ts, and the products of catalog.controller.ts).  *)
(*                                                                         *)
(* A handler that touches the database once is one action.  The others are *)
(* requests r that go from step to step and interleave: a payment reads    *)
(* and writes in one transaction, the update of an expense reads before it *)
(* writes, the generation of recurring expenses commits one expense at a   *)
(* time, and a purchase locks its products in the order of its lines.      *)
(* Quantities are one unit, and so is what a unit costs.                   *)
(***************************************************************************)
EXTENDS Integers, Sequences, FiniteSets

CONSTANTS
    Req, Product, Template, Month,
    NoTemplate, NoMonth,
    Due,          \* the months of a template (start_date, end_date)
    Price,        \* its amount
    Amount,       \* the amounts that occur
    Database,     \* "sqlite" or "postgresql"
    MaxRequests   \* bound on the requests begun

ASSUME ManagementAssumption ==
    /\ NoTemplate \notin Template /\ NoMonth \notin Month
    /\ Due \in [Template -> SUBSET Month]
    /\ Price \in [Template -> Nat \ {0}]
    /\ Amount \subseteq Nat \ {0}
    /\ Database \in {"sqlite", "postgresql"}
    /\ MaxRequests \in Nat

VARIABLES
    expense,     \* PayableExpense, in the order of creation, with the sum of its payments
    templates,   \* RecurringExpenseTemplate
    controlled,  \* Product.stock_controlled
    stock,       \* Product.stock_quantity
    adjusted,    \* the sum of the StockMovements of adjustments
    purchase,    \* Purchase with its lines, the StockMovements and the payable
    pc, arg,     \* next step and local variables of each request
    overlapped,  \* history: expenses changed between a read and the write it led to
    moved,       \* history: (template, month) an update has taken an expense from
    begun        \* history: requests so far

money == <<expense, templates, overlapped, moved>>
goods == <<controlled, stock, adjusted, purchase>>
vars  == <<money, goods, pc, arg, begun>>

Idle == [on |-> 0, sum |-> 0, month |-> NoMonth, listed |-> {}, left |-> {},
         lines |-> <<>>, at |-> 0, counted |-> {}, payable |-> FALSE]

Init ==
    /\ expense = <<>>
    /\ templates \in SUBSET Template
    /\ controlled = [p \in Product |-> TRUE]
    /\ stock = [p \in Product |-> 0]
    /\ adjusted = [p \in Product |-> 0]
    /\ purchase = <<>>
    /\ pc = [r \in Req |-> "idle"]
    /\ arg = [r \in Req |-> Idle]
    /\ overlapped = {}
    /\ moved = {}
    /\ begun = 0

-----------------------------------------------------------------------------
(* Helpers *)

\* A transaction is open; on SQLite it is the only one and nothing else writes.
Open(r) == pc[r] \in {"payWrite", "lines"}
MayUseDb(r) == Database = "sqlite" => \A q \in Req \ {r} : ~Open(q)

Count == begun < MaxRequests /\ begun' = begun + 1

Begin(r, step, job) ==
    /\ pc[r] = "idle" /\ Count
    /\ pc' = [pc EXCEPT ![r] = step]
    /\ arg' = [arg EXCEPT ![r] = job]

End(r) == /\ pc' = [pc EXCEPT ![r] = "idle"]
          /\ arg' = [arg EXCEPT ![r] = Idle]
          /\ UNCHANGED begun

Once == /\ Count /\ \A r \in Req : MayUseDb(r)
        /\ UNCHANGED <<pc, arg>>

Row(n, t, m) == [amount |-> n, paid |-> 0, template |-> t, month |-> m, canceled |-> FALSE]

TakenUnlessCanceled(t, m) ==  \* mutant: a canceled expense leaves the index
    t # NoTemplate /\ \E e \in DOMAIN expense : /\ expense[e].template = t /\ expense[e].month = m
                                               /\ ~expense[e].canceled

\* The unique index over (tenantId, recurringTemplateId, competence_date).
Taken(t, m) ==
    t # NoTemplate /\ \E e \in DOMAIN expense : expense[e].template = t /\ expense[e].month = m

\* One of these requests has read the expense and is going to write what it decided.
Overlap(others, e) ==
    overlapped' = IF \E q \in others : pc[q] \in {"payWrite", "update"} /\ arg[q].on = e
                  THEN overlapped \cup {e} ELSE overlapped

-----------------------------------------------------------------------------
(* Expenses *)

\* The month of an expense without a template matters to nothing here.
CreateExpense(n) ==
    /\ Once
    /\ expense' = Append(expense, Row(n, NoTemplate, NoMonth))
    /\ UNCHANGED <<templates, overlapped, moved, goods>>

\* DELETE expenses/:id: by id, whatever has been paid.
CancelExpense(e) ==
    /\ Once
    /\ expense' = [expense EXCEPT ![e] = [@ EXCEPT !.canceled = TRUE]]
    /\ Overlap(Req, e)
    /\ UNCHANGED <<templates, moved, goods>>

\* updateExpense reads the expense and its payments outside a transaction and
\* refuses a canceled expense or an amount below what is paid.  It changes the
\* amount to n or the month to m.
ReadUpdate(r, e, n, m) ==
    /\ IF n # 0 THEN m = NoMonth ELSE m # NoMonth /\ expense[e].template # NoTemplate
    /\ ~expense[e].canceled
    /\ n # 0 => n >= expense[e].paid
    /\ Begin(r, "update", [Idle EXCEPT !.on = e, !.sum = n, !.month = m])
    /\ UNCHANGED <<money, goods>>

\* update by id; a competence month that is taken violates the unique index.
Update(r) ==
    /\ pc[r] = "update" /\ MayUseDb(r)
    /\ LET e == arg[r].on
           m == IF arg[r].month = NoMonth THEN expense[e].month ELSE arg[r].month
           n == IF arg[r].sum = 0 THEN expense[e].amount ELSE arg[r].sum
       IN IF m # expense[e].month /\ Taken(expense[e].template, m)
          THEN UNCHANGED <<expense, moved, overlapped>>
          ELSE /\ expense' = [expense EXCEPT ![e] = [@ EXCEPT !.amount = n, !.month = m]]
               /\ moved' = moved \cup {x \in {<<expense[e].template, expense[e].month>>} :
                                         m # expense[e].month}
               /\ Overlap(Req \ {r}, e)
    /\ End(r)
    /\ UNCHANGED <<templates, goods>>

StartPayment(r, e, n) ==
    /\ Begin(r, "payRead", [Idle EXCEPT !.on = e, !.sum = n])
    /\ UNCHANGED <<money, goods>>

ReadPaymentsUnchecked(r) ==  \* mutant: only a canceled expense is refused
    /\ pc[r] = "payRead" /\ MayUseDb(r)
    /\ IF ~expense[arg[r].on].canceled
       THEN pc' = [pc EXCEPT ![r] = "payWrite"] /\ UNCHANGED <<arg, begun>>
       ELSE End(r)
    /\ UNCHANGED <<money, goods>>

ReadPaymentsCanceled(r) ==  \* mutant: canceled_at: null is missing from the query
    /\ pc[r] = "payRead" /\ MayUseDb(r)
    /\ LET x == expense[arg[r].on] IN
       IF x.paid + arg[r].sum <= x.amount
       THEN pc' = [pc EXCEPT ![r] = "payWrite"] /\ UNCHANGED <<arg, begun>>
       ELSE End(r)
    /\ UNCHANGED <<money, goods>>

\* payExpense, in its transaction: a canceled expense or an amount beyond the
\* balance is refused.
ReadPayments(r) ==
    /\ pc[r] = "payRead" /\ MayUseDb(r)
    /\ LET x == expense[arg[r].on] IN
       IF ~x.canceled /\ x.paid + arg[r].sum <= x.amount
       THEN pc' = [pc EXCEPT ![r] = "payWrite"] /\ UNCHANGED <<arg, begun>>
       ELSE End(r)
    /\ UNCHANGED <<money, goods>>

Pay(r) ==
    /\ pc[r] = "payWrite"
    /\ LET paid == expense[arg[r].on].paid + arg[r].sum
       IN expense' = [expense EXCEPT ![arg[r].on] = [@ EXCEPT !.paid = paid]]
    /\ Overlap(Req \ {r}, arg[r].on)
    /\ End(r)
    /\ UNCHANGED <<templates, moved, goods>>

CreateRecurring(t) ==
    /\ Once
    /\ templates' = templates \cup {t}
    /\ UNCHANGED <<expense, overlapped, moved, goods>>

\* generateRecurring lists the templates of the month ...
ListTemplates(r, m) ==
    /\ LET due == {t \in templates : m \in Due[t]} IN
       Begin(r, "generate", [Idle EXCEPT !.month = m, !.listed = due, !.left = due])
    /\ UNCHANGED <<money, goods>>

GenerateUntilTaken(r) ==  \* mutant: P2002 ends the loop, as if all were there
    /\ pc[r] = "generate" /\ MayUseDb(r)
    /\ \E t \in arg[r].left :
          IF Taken(t, arg[r].month)
          THEN UNCHANGED expense /\ arg' = [arg EXCEPT ![r] = [@ EXCEPT !.left = {}]]
          ELSE /\ expense' = Append(expense, Row(Price[t], t, arg[r].month))
               /\ arg' = [arg EXCEPT ![r] = [@ EXCEPT !.left = arg[r].left \ {t}]]
    /\ UNCHANGED <<templates, overlapped, moved, goods, pc, begun>>

GenerateAgain(r) ==  \* mutant: P2002 is retried
    /\ pc[r] = "generate" /\ MayUseDb(r)
    /\ \E t \in arg[r].left :
          /\ ~Taken(t, arg[r].month)
          /\ expense' = Append(expense, Row(Price[t], t, arg[r].month))
          /\ arg' = [arg EXCEPT ![r] = [@ EXCEPT !.left = arg[r].left \ {t}]]
    /\ UNCHANGED <<templates, overlapped, moved, goods, pc, begun>>

\* ... and creates one expense for each; P2002 skips it.
Generate(r) ==
    /\ pc[r] = "generate" /\ MayUseDb(r)
    /\ \E t \in arg[r].left :
          /\ IF Taken(t, arg[r].month) THEN UNCHANGED expense
             ELSE expense' = Append(expense, Row(Price[t], t, arg[r].month))
          /\ arg' = [arg EXCEPT ![r] = [@ EXCEPT !.left = arg[r].left \ {t}]]
    /\ UNCHANGED <<templates, overlapped, moved, goods, pc, begun>>

Generated(r) ==
    /\ pc[r] = "generate" /\ arg[r].left = {}
    /\ End(r)
    /\ UNCHANGED <<money, goods>>

-----------------------------------------------------------------------------
(* Stock and purchases *)

Items(lines) == {lines[i] : i \in DOMAIN lines}

\* Products whose rows an open purchase has updated: they are locked.
Locked(p) == \E r \in Req : pc[r] = "lines" /\ \E i \in 1..arg[r].at : arg[r].lines[i] = p

\* updateProduct may turn the control of the stock on or off at any time.
UpdateProduct(p) ==
    /\ Once /\ ~Locked(p)
    /\ controlled' = [controlled EXCEPT ![p] = ~@]
    /\ UNCHANGED <<money, stock, adjusted, purchase>>

AdjustSetting(p, n) ==  \* mutant: the quantity is set where it should be incremented
    /\ Once /\ ~Locked(p) /\ controlled[p]
    /\ stock' = [stock EXCEPT ![p] = n]
    /\ adjusted' = [adjusted EXCEPT ![p] = @ + n]
    /\ UNCHANGED <<money, controlled, purchase>>

Adjust(p, n) ==
    /\ Once /\ ~Locked(p) /\ controlled[p]
    /\ stock' = [stock EXCEPT ![p] = @ + n]
    /\ adjusted' = [adjusted EXCEPT ![p] = @ + n]
    /\ UNCHANGED <<money, controlled, purchase>>

\* The products are read before the transaction.
StartPurchase(r, lines, payable) ==
    /\ lines # <<>> /\ Cardinality(Items(lines)) = Len(lines)
    /\ Begin(r, "purchase", [Idle EXCEPT !.lines = lines, !.payable = payable,
                                         !.counted = {p \in Items(lines) : controlled[p]}])
    /\ UNCHANGED <<money, goods>>

\* The transaction updates one product after the other.
Line(r) ==
    /\ pc[r] \in {"purchase", "lines"} /\ MayUseDb(r)
    /\ arg[r].at < Len(arg[r].lines)
    /\ ~Locked(arg[r].lines[arg[r].at + 1])
    /\ pc' = [pc EXCEPT ![r] = "lines"]
    /\ arg' = [arg EXCEPT ![r] = [@ EXCEPT !.at = arg[r].at + 1]]
    /\ UNCHANGED <<money, goods, begun>>

\* The last line is done: the payable is created and the transaction commits.
Purchase(r) ==
    /\ pc[r] = "lines" /\ arg[r].at = Len(arg[r].lines)
    /\ expense' = IF arg[r].payable
                  THEN Append(expense, Row(Len(arg[r].lines), NoTemplate, NoMonth)) ELSE expense
    /\ stock' = [p \in Product |-> IF p \in arg[r].counted THEN stock[p] + 1 ELSE stock[p]]
    /\ purchase' = Append(purchase, [lines |-> Items(arg[r].lines), counted |-> arg[r].counted,
                                     payable |-> IF arg[r].payable THEN Len(expense') ELSE 0])
    /\ End(r)
    /\ UNCHANGED <<templates, overlapped, moved, controlled, adjusted>>

\* A deadlock: the database or the time limit of the transaction ends it.
Waiting(r) == /\ pc[r] \in {"purchase", "lines"} /\ arg[r].at < Len(arg[r].lines)
              /\ Locked(arg[r].lines[arg[r].at + 1])

Abort(r) == End(r) /\ UNCHANGED <<money, goods>>

\* The process dies: what was not committed is gone.
Die(r) == pc[r] # "idle" /\ Abort(r)

-----------------------------------------------------------------------------

Work(r) == \/ Update(r) \/ ReadPayments(r) \/ Pay(r) \/ Generate(r) \/ Generated(r)
           \/ Line(r) \/ Purchase(r)
           \/ Waiting(r) /\ Abort(r)

Next ==
    \/ \E n \in Amount : CreateExpense(n)
    \/ \E e \in DOMAIN expense : CancelExpense(e)
    \/ \E t \in Template : CreateRecurring(t)
    \/ \E p \in Product : UpdateProduct(p) \/ \E n \in {1, -1} : Adjust(p, n)
    \/ \E r \in Req :
          \/ Work(r) \/ Die(r)
          \/ \E e \in DOMAIN expense, n \in Amount : StartPayment(r, e, n)
          \/ \E e \in DOMAIN expense, n \in Amount \cup {0}, m \in Month \cup {NoMonth} :
                ReadUpdate(r, e, n, m)
          \/ \E m \in Month : ListTemplates(r, m)
          \/ \E k \in 1..2 : \E lines \in [1..k -> Product], payable \in BOOLEAN :
                StartPurchase(r, lines, payable)

\* The event loop and the database go on serving a request that was begun.
Fairness == \A r \in Req : WF_vars(Work(r))

Spec == Init /\ [][Next]_vars
FairSpec == Spec /\ Fairness

-----------------------------------------------------------------------------
(* Properties *)

Steps == {"idle", "update", "payRead", "payWrite", "generate", "purchase", "lines"}

ExpenseRow == [amount : Nat, paid : Nat, template : Template \cup {NoTemplate},
               month : Month \cup {NoMonth}, canceled : BOOLEAN]
Arguments == [on : Nat, sum : Nat, month : Month \cup {NoMonth},
              listed : SUBSET Template, left : SUBSET Template,
              lines : Seq(Product), at : Nat, counted : SUBSET Product, payable : BOOLEAN]

TypeOK ==
    /\ expense \in Seq(ExpenseRow)
    /\ templates \in SUBSET Template
    /\ controlled \in [Product -> BOOLEAN]
    /\ stock \in [Product -> Int] /\ adjusted \in [Product -> Int]
    /\ purchase \in Seq([lines : SUBSET Product, counted : SUBSET Product, payable : Nat])
    /\ pc \in [Req -> Steps]
    /\ arg \in [Req -> Arguments]
    /\ overlapped \subseteq DOMAIN expense
    /\ moved \subseteq (Template \cup {NoTemplate}) \X (Month \cup {NoMonth})
    /\ begun \in 0..MaxRequests

\* No more is paid than an expense amounts to, unless two requests have changed
\* it at once: each compares what it read with the amount.
PaidWithinAmount ==
    \A e \in DOMAIN expense : expense[e].paid > expense[e].amount => e \in overlapped

\* Nothing is paid of a canceled expense, with the same exception.
NothingPaidAfterCancel ==
    [][\A e \in DOMAIN expense :
          expense[e].canceled /\ expense'[e].paid > expense[e].paid => e \in overlapped]_vars

\* However often, and by however many at once, a month is generated, and
\* whichever months expenses are moved to, a template has one expense a month.
OneExpensePerMonth ==
    \A e, f \in DOMAIN expense :
        /\ expense[e].template = expense[f].template /\ expense[e].template # NoTemplate
        /\ expense[e].month = expense[f].month
        => e = f

\* A generation passes over no template, whatever the others create or it skips:
\* each one it is done with has its expense, unless an update has moved it away.
GenerationCovers ==
    \A r \in Req : pc[r] = "generate" =>
        \A t \in arg[r].listed \ arg[r].left :
            Taken(t, arg[r].month) \/ <<t, arg[r].month>> \in moved

\* The stock is the sum of its movements, also of a product whose control is
\* turned off and on while a purchase is on its way.
StockMatchesMovements ==
    \A p \in Product :
        stock[p] = adjusted[p] + Cardinality({k \in DOMAIN purchase : p \in purchase[k].counted})

\* The payable of a purchase exists and belongs to it alone.
PayablesAreOwn ==
    \A k \in DOMAIN purchase : purchase[k].payable # 0 =>
        /\ purchase[k].payable \in DOMAIN expense
        /\ expense[purchase[k].payable].template = NoTemplate
        /\ \A j \in DOMAIN purchase \ {k} : purchase[j].payable # purchase[k].payable

\* Every request ends, also two purchases that wait for each other's products.
EveryRequestEnds == \A r \in Req : pc[r] # "idle" ~> pc[r] = "idle"
=============================================================================
