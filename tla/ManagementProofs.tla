-------------------------- MODULE ManagementProofs --------------------------
(* Theorems about Management, for any set of requests, products, templates   *)
(* and months, any amounts and both databases.                               *)
EXTENDS Management, FiniteSetTheorems, SequenceTheorems, TLAPS

\* A request that names an expense has found its row.
OnExists ==
    \A r \in Req : pc[r] \in {"update", "payRead", "payWrite"} => arg[r].on \in DOMAIN expense

\* What a payment or an update has compared still holds when it writes, unless
\* another request has written the same expense since.
PayHolds ==
    \A r \in Req : pc[r] = "payWrite" /\ arg[r].on \notin overlapped =>
        /\ ~expense[arg[r].on].canceled
        /\ expense[arg[r].on].paid + arg[r].sum <= expense[arg[r].on].amount

UpdateHolds ==
    \A r \in Req : pc[r] = "update" /\ arg[r].on \notin overlapped /\ arg[r].sum # 0 =>
        arg[r].sum >= expense[arg[r].on].paid

\* A generation is for a month, and a purchase counts products of its lines.
ArgumentsFit ==
    \A r \in Req : /\ pc[r] = "generate" => arg[r].month \in Month
                   /\ arg[r].lines \in Seq(Product)

IInv == /\ TypeOK /\ OnExists /\ PayHolds /\ UpdateHolds /\ ArgumentsFit
        /\ PaidWithinAmount /\ OneExpensePerMonth /\ GenerationCovers /\ PayablesAreOwn

-----------------------------------------------------------------------------
(* Rows and requests *)

LEMMA ExpenseDomain ==
    ASSUME TypeOK
    PROVE  /\ Len(expense) \in Nat /\ DOMAIN expense = 1..Len(expense)
           /\ \A e \in DOMAIN expense : expense[e] \in ExpenseRow
BY LenProperties, ElementOfSeq DEF TypeOK

\* An expense that is created comes last and leaves the others as they are.
LEMMA AppendRow ==
    ASSUME TypeOK, NEW row \in ExpenseRow, expense' = Append(expense, row)
    PROVE  /\ expense' \in Seq(ExpenseRow)
           /\ DOMAIN expense' = DOMAIN expense \cup {Len(expense) + 1}
           /\ Len(expense) + 1 \notin DOMAIN expense
           /\ expense'[Len(expense) + 1] = row
           /\ \A e \in DOMAIN expense : expense'[e] = expense[e]
  <1>1. /\ expense' \in Seq(ExpenseRow) /\ Len(expense') = Len(expense) + 1
        /\ expense'[Len(expense) + 1] = row
        /\ \A e \in 1..Len(expense) : expense'[e] = expense[e]
    BY AppendProperties DEF TypeOK
  <1>2. DOMAIN expense' = 1..(Len(expense) + 1)
    BY <1>1, LenProperties
  <1> QED
    BY <1>1, <1>2, ExpenseDomain

LEMMA ChangeRow ==
    ASSUME TypeOK, NEW e \in DOMAIN expense, NEW row \in ExpenseRow,
           expense' = [expense EXCEPT ![e] = row]
    PROVE  /\ expense' \in Seq(ExpenseRow) /\ DOMAIN expense' = DOMAIN expense
           /\ expense'[e] = row
           /\ \A f \in DOMAIN expense \ {e} : expense'[f] = expense[f]
  <1>1. expense \in Seq(ExpenseRow) /\ e \in 1..Len(expense)
    BY ExpenseDomain DEF TypeOK
  <1>2. expense' \in Seq(ExpenseRow)
    BY <1>1, ExceptSeq
  <1> QED
    BY <1>2

LEMMA IdleType == Idle \in Arguments
  <1>1. <<>> \in Seq(Product)
    BY EmptySeq
  <1> QED
    BY <1>1 DEF Idle, Arguments

LEMMA EndType ==
    ASSUME TypeOK, NEW r \in Req, End(r)
    PROVE  /\ pc' \in [Req -> Steps] /\ arg' \in [Req -> Arguments] /\ begun' \in 0..MaxRequests
           /\ pc'[r] = "idle" /\ arg'[r] = Idle
           /\ \A q \in Req \ {r} : pc'[q] = pc[q] /\ arg'[q] = arg[q]
BY IdleType DEF TypeOK, End, Steps

LEMMA BeginType ==
    ASSUME TypeOK, NEW r \in Req, NEW step \in Steps, NEW job \in Arguments, Begin(r, step, job)
    PROVE  /\ pc' \in [Req -> Steps] /\ arg' \in [Req -> Arguments] /\ begun' \in 0..MaxRequests
           /\ pc'[r] = step /\ arg'[r] = job
           /\ \A q \in Req \ {r} : pc'[q] = pc[q] /\ arg'[q] = arg[q]
BY ManagementAssumption DEF TypeOK, Begin, Count

LEMMA OnceType ==
    ASSUME TypeOK, Once
    PROVE  /\ pc' = pc /\ arg' = arg /\ begun' \in 0..MaxRequests
BY ManagementAssumption DEF TypeOK, Once, Count

-----------------------------------------------------------------------------
(* The initial state *)

LEMMA Initial == Init => IInv
  <1> SUFFICES ASSUME Init PROVE IInv
    OBVIOUS
  <1> USE ManagementAssumption
  <1>1. expense \in Seq(ExpenseRow) /\ DOMAIN expense = {}
    BY EmptySeq DEF Init
  <1>2. /\ purchase \in Seq([lines : SUBSET Product, counted : SUBSET Product, payable : Nat])
        /\ DOMAIN purchase = {}
    BY EmptySeq DEF Init
  <1>3. arg \in [Req -> Arguments] /\ pc \in [Req -> Steps]
    BY IdleType DEF Init, Steps
  <1>4. TypeOK
    BY <1>1, <1>2, <1>3 DEF Init, TypeOK
  <1>5. OnExists /\ PayHolds /\ UpdateHolds /\ GenerationCovers
    BY DEF Init, OnExists, PayHolds, UpdateHolds, GenerationCovers
  <1>6. ArgumentsFit
    BY EmptySeq DEF Init, ArgumentsFit, Idle
  <1>7. PaidWithinAmount /\ OneExpensePerMonth /\ PayablesAreOwn
    BY <1>1, <1>2 DEF PaidWithinAmount, OneExpensePerMonth, PayablesAreOwn
  <1> QED
    BY <1>4, <1>5, <1>6, <1>7 DEF IInv

-----------------------------------------------------------------------------
(* What a new or a changed row leaves true *)

LEMMA NewRowKeeps ==
    ASSUME IInv, NEW row \in ExpenseRow, expense' = Append(expense, row), row.paid = 0,
           row.template # NoTemplate => ~Taken(row.template, row.month),
           UNCHANGED overlapped
    PROVE  /\ PaidWithinAmount' /\ OneExpensePerMonth'
           /\ \A t \in Template, m \in Month : Taken(t, m) => Taken(t, m)'
  <1> USE AppendRow, ExpenseDomain
  <1>1. TypeOK
    BY DEF IInv
  <1>2. PaidWithinAmount'
    BY <1>1 DEF IInv, PaidWithinAmount, ExpenseRow
  <1>3. OneExpensePerMonth'
    BY <1>1 DEF IInv, OneExpensePerMonth, Taken
  <1>4. \A t \in Template, m \in Month : Taken(t, m) => Taken(t, m)'
    BY <1>1 DEF Taken
  <1> QED
    BY <1>2, <1>3, <1>4

LEMMA NewRowKeepsReads ==
    ASSUME IInv, NEW row \in ExpenseRow, expense' = Append(expense, row),
           UNCHANGED <<pc, overlapped>>, \A r \in Req : arg'[r].on = arg[r].on /\ arg'[r].sum = arg[r].sum
    PROVE  OnExists' /\ PayHolds' /\ UpdateHolds'
  <1> USE AppendRow, ExpenseDomain
  <1>1. TypeOK
    BY DEF IInv
  <1>2. OnExists'
    BY <1>1 DEF IInv, OnExists
  <1>3. PayHolds' /\ UpdateHolds'
    BY <1>1 DEF IInv, OnExists, PayHolds, UpdateHolds
  <1> QED
    BY <1>2, <1>3

LEMMA NewRowKeepsPayables ==
    ASSUME IInv, NEW row \in ExpenseRow, expense' = Append(expense, row), UNCHANGED purchase
    PROVE  PayablesAreOwn'
  <1>1. TypeOK
    BY DEF IInv
  <1> QED
    BY <1>1, AppendRow DEF IInv, PayablesAreOwn

LEMMA SameTemplateKeeps ==
    ASSUME IInv, NEW e \in DOMAIN expense, NEW row \in ExpenseRow,
           expense' = [expense EXCEPT ![e] = row],
           row.template = expense[e].template, UNCHANGED purchase
    PROVE  PayablesAreOwn'
  <1>1. TypeOK
    BY DEF IInv
  <1> QED
    BY <1>1, ChangeRow DEF IInv, PayablesAreOwn

LEMMA SameMonthKeeps ==
    ASSUME IInv, NEW e \in DOMAIN expense, NEW row \in ExpenseRow,
           expense' = [expense EXCEPT ![e] = row],
           row.template = expense[e].template, row.month = expense[e].month
    PROVE  /\ OneExpensePerMonth'
           /\ \A t \in Template, m \in Month : Taken(t, m) => Taken(t, m)'
  <1>1. TypeOK
    BY DEF IInv
  <1>2. OneExpensePerMonth'
    BY <1>1, ChangeRow DEF IInv, OneExpensePerMonth
  <1>3. \A t \in Template, m \in Month : Taken(t, m) => Taken(t, m)'
    BY <1>1, ChangeRow DEF Taken
  <1> QED
    BY <1>2, <1>3

\* Nothing of what expenses and purchases show changes.
LEMMA QuietKeeps ==
    ASSUME IInv, UNCHANGED <<expense, overlapped, purchase>>
    PROVE  PaidWithinAmount' /\ OneExpensePerMonth' /\ PayablesAreOwn'
BY DEF IInv, PaidWithinAmount, OneExpensePerMonth, PayablesAreOwn

-----------------------------------------------------------------------------
(* Handlers of one step *)

LEMMA CreateExpenseStep ==
    ASSUME IInv, NEW n \in Amount, CreateExpense(n)
    PROVE  IInv'
  <1> USE ManagementAssumption
  <1> DEFINE row == Row(n, NoTemplate, NoMonth)
  <1>1. row \in ExpenseRow /\ row.paid = 0 /\ row.template = NoTemplate
    BY DEF Row, ExpenseRow
  <1>2. TypeOK /\ Once /\ expense' = Append(expense, row)
        /\ UNCHANGED <<templates, overlapped, moved, goods>>
    BY DEF CreateExpense, IInv
  <1> HIDE DEF row
  <1>3. pc' = pc /\ arg' = arg /\ begun' \in 0..MaxRequests
    BY <1>2, OnceType
  <1>4. TypeOK'
    BY <1>1, <1>2, <1>3, AppendRow DEF TypeOK, goods
  <1>5. OnExists' /\ PayHolds' /\ UpdateHolds'
    BY <1>1, <1>2, <1>3, NewRowKeepsReads
  <1>6. PaidWithinAmount' /\ OneExpensePerMonth'
        /\ \A t \in Template, m \in Month : Taken(t, m) => Taken(t, m)'
    BY <1>1, <1>2, NewRowKeeps
  <1>7. PayablesAreOwn'
    BY <1>1, <1>2, NewRowKeepsPayables DEF goods
  <1>8. ArgumentsFit'
    BY <1>3 DEF IInv, ArgumentsFit
  <1>9. GenerationCovers'
    BY <1>2, <1>3, <1>6 DEF IInv, GenerationCovers, ArgumentsFit, TypeOK, Arguments
  <1> QED
    BY <1>4, <1>5, <1>6, <1>7, <1>8, <1>9 DEF IInv

LEMMA CancelExpenseStep ==
    ASSUME IInv, NEW e \in DOMAIN expense, CancelExpense(e)
    PROVE  IInv'
  <1> DEFINE row == [expense[e] EXCEPT !.canceled = TRUE]
  <1>1. TypeOK /\ Once /\ expense' = [expense EXCEPT ![e] = row]
        /\ Overlap(Req, e) /\ UNCHANGED <<templates, moved, goods>>
    BY DEF CancelExpense, IInv
  <1>2. /\ row \in ExpenseRow /\ row.template = expense[e].template
        /\ row.month = expense[e].month /\ row.paid = expense[e].paid
        /\ row.amount = expense[e].amount
    BY <1>1, ExpenseDomain DEF ExpenseRow
  <1> HIDE DEF row
  <1>3. pc' = pc /\ arg' = arg /\ begun' \in 0..MaxRequests
    BY <1>1, OnceType
  <1>4. /\ overlapped \subseteq overlapped' /\ overlapped' \subseteq overlapped \cup {e}
        /\ \A q \in Req : pc[q] \in {"payWrite", "update"} /\ arg[q].on = e => e \in overlapped'
    BY <1>1 DEF Overlap
  <1>5. TypeOK'
    BY <1>1, <1>2, <1>3, <1>4, ChangeRow DEF TypeOK, goods
  <1>6. OnExists'
    BY <1>1, <1>2, <1>3, ChangeRow DEF IInv, OnExists
  <1>7. PayHolds' /\ UpdateHolds'
    BY <1>1, <1>2, <1>3, <1>4, ChangeRow DEF IInv, OnExists, PayHolds, UpdateHolds
  <1>8. PaidWithinAmount'
    BY <1>1, <1>2, <1>4, ChangeRow DEF IInv, PaidWithinAmount
  <1>9. OneExpensePerMonth' /\ \A t \in Template, m \in Month : Taken(t, m) => Taken(t, m)'
    BY <1>1, <1>2, SameMonthKeeps
  <1>10. PayablesAreOwn'
    BY <1>1, <1>2, SameTemplateKeeps DEF goods
  <1>11. ArgumentsFit'
    BY <1>3 DEF IInv, ArgumentsFit
  <1>12. GenerationCovers'
    BY <1>1, <1>3, <1>9 DEF IInv, GenerationCovers, ArgumentsFit, TypeOK, Arguments
  <1> QED
    BY <1>5, <1>6, <1>7, <1>8, <1>9, <1>10, <1>11, <1>12 DEF IInv

\* Templates, products and adjustments concern no expense.
LEMMA OtherStep ==
    ASSUME IInv, Once, UNCHANGED <<expense, overlapped, moved, purchase>>,
           templates' \in SUBSET Template, controlled' \in [Product -> BOOLEAN],
           stock' \in [Product -> Int], adjusted' \in [Product -> Int]
    PROVE  IInv'
  <1>1. pc' = pc /\ arg' = arg /\ begun' \in 0..MaxRequests
    BY OnceType DEF IInv
  <1>2. TypeOK'
    BY <1>1 DEF IInv, TypeOK
  <1>3. OnExists' /\ PayHolds' /\ UpdateHolds' /\ ArgumentsFit'
    BY <1>1 DEF IInv, OnExists, PayHolds, UpdateHolds, ArgumentsFit
  <1>4. GenerationCovers'
    BY <1>1 DEF IInv, GenerationCovers, Taken
  <1> QED
    BY <1>2, <1>3, <1>4, QuietKeeps DEF IInv

-----------------------------------------------------------------------------
(* Requests that begin, and that end without effect *)

LEMMA StartKeeps ==
    ASSUME IInv, NEW r \in Req, NEW step \in Steps \ {"payWrite"}, NEW job \in Arguments,
           Begin(r, step, job), UNCHANGED <<money, goods>>,
           step \in {"update", "payRead"} => job.on \in DOMAIN expense,
           step = "update" /\ job.sum # 0 => job.sum >= expense[job.on].paid,
           step = "generate" => job.month \in Month /\ job.left = job.listed
    PROVE  IInv'
  <1>1. /\ pc' \in [Req -> Steps] /\ arg' \in [Req -> Arguments] /\ begun' \in 0..MaxRequests
        /\ pc'[r] = step /\ arg'[r] = job
        /\ \A q \in Req \ {r} : pc'[q] = pc[q] /\ arg'[q] = arg[q]
    BY BeginType DEF IInv
  <1>2. TypeOK'
    BY <1>1 DEF IInv, TypeOK, money, goods
  <1>3. OnExists' /\ PayHolds' /\ UpdateHolds'
    BY <1>1 DEF IInv, OnExists, PayHolds, UpdateHolds, money
  <1>4. ArgumentsFit'
    BY <1>1 DEF IInv, ArgumentsFit, Arguments
  <1>5. GenerationCovers'
    BY <1>1 DEF IInv, GenerationCovers, Taken, money
  <1> QED
    BY <1>2, <1>3, <1>4, <1>5, QuietKeeps DEF IInv, money, goods

LEMMA EndKeeps ==
    ASSUME IInv, NEW r \in Req, End(r), UNCHANGED <<money, goods>>
    PROVE  IInv'
  <1>1. /\ pc' \in [Req -> Steps] /\ arg' \in [Req -> Arguments] /\ begun' \in 0..MaxRequests
        /\ pc'[r] = "idle" /\ arg'[r] = Idle
        /\ \A q \in Req \ {r} : pc'[q] = pc[q] /\ arg'[q] = arg[q]
    BY EndType DEF IInv
  <1>2. TypeOK'
    BY <1>1 DEF IInv, TypeOK, money, goods
  <1>3. OnExists' /\ PayHolds' /\ UpdateHolds'
    BY <1>1 DEF IInv, OnExists, PayHolds, UpdateHolds, money
  <1>4. ArgumentsFit'
    BY <1>1, IdleType DEF IInv, ArgumentsFit, Arguments
  <1>5. GenerationCovers'
    BY <1>1 DEF IInv, GenerationCovers, Taken, money
  <1> QED
    BY <1>2, <1>3, <1>4, <1>5, QuietKeeps DEF IInv, money, goods

LEMMA StartPaymentStep ==
    ASSUME IInv, NEW r \in Req, NEW e \in DOMAIN expense, NEW n \in Amount, StartPayment(r, e, n)
    PROVE  IInv'
  <1> DEFINE job == [Idle EXCEPT !.on = e, !.sum = n]
  <1>1. e \in Nat /\ n \in Nat
    BY ExpenseDomain, ManagementAssumption DEF IInv
  <1>2. job \in Arguments /\ job.on = e
    BY <1>1, IdleType DEF Arguments
  <1>3. Begin(r, "payRead", job) /\ UNCHANGED <<money, goods>>
    BY DEF StartPayment
  <1> QED
    BY <1>2, <1>3, StartKeeps DEF Steps

LEMMA ReadUpdateStep ==
    ASSUME IInv, NEW r \in Req, NEW e \in DOMAIN expense, NEW n \in Amount \cup {0},
           NEW m \in Month \cup {NoMonth}, ReadUpdate(r, e, n, m)
    PROVE  IInv'
  <1> DEFINE job == [Idle EXCEPT !.on = e, !.sum = n, !.month = m]
  <1>1. e \in Nat /\ n \in Nat
    BY ExpenseDomain, ManagementAssumption DEF IInv
  <1>2. job \in Arguments /\ job.on = e /\ job.sum = n
    BY <1>1, IdleType DEF Arguments
  <1>3. /\ Begin(r, "update", job) /\ UNCHANGED <<money, goods>>
        /\ n # 0 => n >= expense[e].paid
    BY DEF ReadUpdate
  <1> QED
    BY <1>2, <1>3, StartKeeps DEF Steps

LEMMA ListTemplatesStep ==
    ASSUME IInv, NEW r \in Req, NEW m \in Month, ListTemplates(r, m)
    PROVE  IInv'
  <1> DEFINE due == {t \in templates : m \in Due[t]}
             job == [Idle EXCEPT !.month = m, !.listed = due, !.left = due]
  <1>1. due \subseteq Template
    BY DEF IInv, TypeOK
  <1>2. job \in Arguments /\ job.month = m /\ job.left = job.listed
    BY <1>1, IdleType DEF Arguments, Idle
  <1>3. Begin(r, "generate", job) /\ UNCHANGED <<money, goods>>
    BY DEF ListTemplates
  <1> QED
    BY <1>2, <1>3, StartKeeps DEF Steps

LEMMA StartPurchaseStep ==
    ASSUME IInv, NEW r \in Req, NEW k \in 1..2, NEW lines \in [1..k -> Product],
           NEW payable \in BOOLEAN, StartPurchase(r, lines, payable)
    PROVE  IInv'
  <1> DEFINE seen == {p \in Items(lines) : controlled[p]}
             job == [Idle EXCEPT !.lines = lines, !.payable = payable, !.counted = seen]
  <1>1. lines \in Seq(Product) /\ seen \subseteq Product
    BY SeqDef DEF Items
  <1>2. job \in Arguments
    BY <1>1, IdleType DEF Arguments
  <1>3. Begin(r, "purchase", job) /\ UNCHANGED <<money, goods>>
    BY DEF StartPurchase
  <1> QED
    BY <1>2, <1>3, StartKeeps DEF Steps

-----------------------------------------------------------------------------
(* Payments and updates *)

LEMMA ReadPaymentsStep ==
    ASSUME IInv, NEW r \in Req, ReadPayments(r)
    PROVE  IInv'
  <1> DEFINE x == expense[arg[r].on]
  <1>1. CASE ~(~x.canceled /\ x.paid + arg[r].sum <= x.amount)
    BY <1>1, EndKeeps DEF ReadPayments
  <1>2. CASE ~x.canceled /\ x.paid + arg[r].sum <= x.amount
    <2>1. /\ pc' = [pc EXCEPT ![r] = "payWrite"] /\ UNCHANGED <<arg, begun, money, goods>>
          /\ pc[r] = "payRead"
      BY <1>2 DEF ReadPayments
    <2>2. TypeOK'
      BY <2>1 DEF IInv, TypeOK, money, goods, Steps
    <2>3. OnExists' /\ UpdateHolds' /\ ArgumentsFit' /\ GenerationCovers'
      BY <2>1 DEF IInv, TypeOK, OnExists, UpdateHolds, ArgumentsFit, GenerationCovers, Taken, money
    <2>4. PayHolds'
      BY <1>2, <2>1 DEF IInv, TypeOK, PayHolds, money
    <2> QED
      BY <2>1, <2>2, <2>3, <2>4, QuietKeeps DEF IInv, money, goods
  <1> QED
    BY <1>1, <1>2

LEMMA PayStep ==
    ASSUME IInv, NEW r \in Req, Pay(r)
    PROVE  IInv'
  <1> DEFINE e == arg[r].on
             row == [expense[e] EXCEPT !.paid = expense[e].paid + arg[r].sum]
  <1>1. TypeOK /\ e \in DOMAIN expense /\ pc[r] = "payWrite" /\ End(r)
    BY DEF Pay, IInv, OnExists
  <1>2. expense' = [expense EXCEPT ![e] = row] /\ Overlap(Req \ {r}, e)
        /\ UNCHANGED <<templates, moved, goods>>
    BY DEF Pay
  <1>3. arg[r].sum \in Nat
    BY <1>1 DEF TypeOK, Arguments
  <1>4. /\ row \in ExpenseRow /\ row.template = expense[e].template
        /\ row.month = expense[e].month /\ row.paid = expense[e].paid + arg[r].sum
        /\ row.amount = expense[e].amount /\ row.canceled = expense[e].canceled
    BY <1>1, <1>3, ExpenseDomain DEF ExpenseRow
  <1>5. /\ overlapped \subseteq overlapped' /\ overlapped' \subseteq overlapped \cup {e}
        /\ \A q \in Req \ {r} : pc[q] \in {"payWrite", "update"} /\ arg[q].on = e => e \in overlapped'
    BY <1>2 DEF Overlap
  <1>6. /\ pc' \in [Req -> Steps] /\ arg' \in [Req -> Arguments] /\ begun' \in 0..MaxRequests
        /\ pc'[r] = "idle" /\ arg'[r] = Idle
        /\ \A q \in Req \ {r} : pc'[q] = pc[q] /\ arg'[q] = arg[q]
    BY <1>1, EndType
  <1>7. e \notin overlapped => expense[e].paid + arg[r].sum <= expense[e].amount
    BY <1>1 DEF IInv, PayHolds
  <1>8. PayablesAreOwn' /\ OneExpensePerMonth'
        /\ \A t \in Template, m \in Month : Taken(t, m) => Taken(t, m)'
    BY <1>1, <1>2, <1>4, SameTemplateKeeps, SameMonthKeeps DEF goods
  <1> HIDE DEF row, e
  <1>9. TypeOK'
    BY <1>1, <1>2, <1>4, <1>5, <1>6, ChangeRow DEF TypeOK, goods
  <1>10. OnExists'
    BY <1>1, <1>2, <1>4, <1>6, ChangeRow DEF IInv, OnExists
  <1>11. PayHolds' /\ UpdateHolds'
    BY <1>1, <1>2, <1>4, <1>5, <1>6, ChangeRow DEF IInv, OnExists, PayHolds, UpdateHolds
  <1>12. PaidWithinAmount'
    BY <1>1, <1>2, <1>3, <1>4, <1>5, <1>7, ChangeRow, ExpenseDomain
       DEF IInv, PaidWithinAmount, ExpenseRow
  <1>13. ArgumentsFit'
    BY <1>6, IdleType DEF IInv, ArgumentsFit, Arguments
  <1>14. GenerationCovers'
    BY <1>2, <1>6, <1>8 DEF IInv, GenerationCovers, ArgumentsFit, TypeOK, Arguments
  <1> QED
    BY <1>8, <1>9, <1>10, <1>11, <1>12, <1>13, <1>14 DEF IInv

\* An update that moves an expense to a month finds the month free there.
LEMMA UpdateStep ==
    ASSUME IInv, NEW r \in Req, Update(r)
    PROVE  IInv'
  <1> DEFINE e == arg[r].on
             m == IF arg[r].month = NoMonth THEN expense[e].month ELSE arg[r].month
             n == IF arg[r].sum = 0 THEN expense[e].amount ELSE arg[r].sum
             row == [expense[e] EXCEPT !.amount = n, !.month = m]
  <1>1. TypeOK /\ e \in DOMAIN expense /\ pc[r] = "update" /\ End(r) /\ UNCHANGED <<templates, goods>>
    BY DEF Update, IInv, OnExists
  <1>2. CASE m # expense[e].month /\ Taken(expense[e].template, m)
    <2>1. UNCHANGED <<money, goods>>
      BY <1>2 DEF Update, money
    <2> QED
      BY <1>1, <2>1, EndKeeps
  <1>3. CASE ~(m # expense[e].month /\ Taken(expense[e].template, m))
    <2>1. /\ expense' = [expense EXCEPT ![e] = row]
          /\ moved' = moved \cup {x \in {<<expense[e].template, expense[e].month>>} :
                                    m # expense[e].month}
          /\ Overlap(Req \ {r}, e)
      BY <1>3 DEF Update
    <2>2. expense[e] \in ExpenseRow /\ arg[r] \in Arguments
      BY <1>1, ExpenseDomain DEF TypeOK
    <2>3. m \in Month \cup {NoMonth} /\ n \in Nat
      BY <2>2 DEF ExpenseRow, Arguments
    <2>4. /\ row \in ExpenseRow /\ row.template = expense[e].template
          /\ row.month = m /\ row.paid = expense[e].paid
          /\ row.amount = n /\ row.canceled = expense[e].canceled
      BY <2>2, <2>3 DEF ExpenseRow
    <2>5. /\ overlapped \subseteq overlapped' /\ overlapped' \subseteq overlapped \cup {e}
          /\ \A q \in Req \ {r} : pc[q] \in {"payWrite", "update"} /\ arg[q].on = e
               => e \in overlapped'
      BY <2>1 DEF Overlap
    <2>6. /\ pc' \in [Req -> Steps] /\ arg' \in [Req -> Arguments] /\ begun' \in 0..MaxRequests
          /\ pc'[r] = "idle" /\ arg'[r] = Idle
          /\ \A q \in Req \ {r} : pc'[q] = pc[q] /\ arg'[q] = arg[q]
      BY <1>1, EndType
    <2>7. e \notin overlapped => n = expense[e].amount \/ n >= expense[e].paid
      BY <1>1 DEF IInv, UpdateHolds
    <2>8. PayablesAreOwn'
      BY <1>1, <2>1, <2>4, SameTemplateKeeps DEF goods
    <2>9. moved \subseteq moved' /\ (m # expense[e].month =>
            <<expense[e].template, expense[e].month>> \in moved')
      BY <2>1
    <2>10. moved' \subseteq (Template \cup {NoTemplate}) \X (Month \cup {NoMonth})
      BY <1>1, <2>1, <2>2 DEF TypeOK, ExpenseRow
    <2>11. m = expense[e].month \/ ~Taken(expense[e].template, m)
      BY <1>3
    <2> HIDE DEF row, e, m, n
    <2>12. TypeOK'
      BY <1>1, <2>1, <2>4, <2>5, <2>6, <2>10, ChangeRow DEF TypeOK, goods
    <2>13. OnExists'
      BY <1>1, <2>1, <2>4, <2>6, ChangeRow DEF IInv, OnExists
    <2>14. PayHolds' /\ UpdateHolds'
      BY <1>1, <2>1, <2>4, <2>5, <2>6, ChangeRow DEF IInv, OnExists, PayHolds, UpdateHolds
    <2>15. PaidWithinAmount'
      BY <1>1, <2>1, <2>2, <2>3, <2>4, <2>5, <2>7, ChangeRow, ExpenseDomain
         DEF IInv, PaidWithinAmount, ExpenseRow
    <2>16. OneExpensePerMonth'
      BY <1>1, <2>1, <2>4, <2>11, ChangeRow DEF IInv, OneExpensePerMonth, Taken
    <2>17. ArgumentsFit'
      BY <2>6, IdleType DEF IInv, ArgumentsFit, Arguments
    <2>18. \A t \in Template, k \in Month :
             Taken(t, k) => Taken(t, k)' \/ <<t, k>> \in moved'
      <3>1. SUFFICES ASSUME NEW t \in Template, NEW k \in Month, NEW f \in DOMAIN expense,
                            t # NoTemplate, expense[f].template = t, expense[f].month = k
                     PROVE  Taken(t, k)' \/ <<t, k>> \in moved'
        BY DEF Taken
      <3>2. CASE f = e /\ m # k
        BY <3>1, <3>2, <2>9
      <3>3. CASE f # e \/ m = k
        BY <3>1, <3>3, <1>1, <2>1, <2>4, ChangeRow DEF Taken
      <3> QED
        BY <3>2, <3>3
    <2>19. GenerationCovers'
      BY <2>6, <2>9, <2>18 DEF IInv, GenerationCovers, ArgumentsFit, TypeOK, Arguments
    <2> QED
      BY <2>8, <2>12, <2>13, <2>14, <2>15, <2>16, <2>17, <2>19 DEF IInv
  <1> QED
    BY <1>2, <1>3

-----------------------------------------------------------------------------
(* Generation *)

LEMMA GenerateStep ==
    ASSUME IInv, NEW r \in Req, Generate(r)
    PROVE  IInv'
  <1> USE ManagementAssumption
  <1> DEFINE m == arg[r].month
  <1>1. TypeOK /\ pc[r] = "generate" /\ m \in Month
        /\ UNCHANGED <<templates, overlapped, moved, goods, pc, begun>>
    BY DEF Generate, IInv, ArgumentsFit
  <1>2. PICK t \in arg[r].left :
          /\ IF Taken(t, m) THEN UNCHANGED expense
             ELSE expense' = Append(expense, Row(Price[t], t, m))
          /\ arg' = [arg EXCEPT ![r] = [@ EXCEPT !.left = arg[r].left \ {t}]]
    BY DEF Generate
  <1>3. t \in Template /\ t # NoTemplate /\ arg[r] \in Arguments
    BY <1>1, <1>2 DEF TypeOK, Arguments
  <1>4. /\ arg' \in [Req -> Arguments]
        /\ \A q \in Req : /\ arg'[q].on = arg[q].on /\ arg'[q].sum = arg[q].sum
                          /\ arg'[q].month = arg[q].month /\ arg'[q].lines = arg[q].lines
                          /\ arg'[q].listed = arg[q].listed
        /\ \A q \in Req \ {r} : arg'[q].left = arg[q].left
        /\ arg'[r].left = arg[r].left \ {t}
    <2> DEFINE job == [arg[r] EXCEPT !.left = arg[r].left \ {t}]
    <2>1. /\ job \in Arguments /\ job.on = arg[r].on /\ job.sum = arg[r].sum
          /\ job.month = arg[r].month /\ job.lines = arg[r].lines
          /\ job.listed = arg[r].listed /\ job.left = arg[r].left \ {t}
      BY <1>3 DEF Arguments
    <2>2. arg' = [arg EXCEPT ![r] = job]
      BY <1>2
    <2> HIDE DEF job
    <2> QED
      BY <1>1, <2>1, <2>2 DEF TypeOK
  <1>5. ArgumentsFit'
    BY <1>1, <1>4 DEF IInv, ArgumentsFit
  <1>6. CASE Taken(t, m)
    <2>1. UNCHANGED expense
      BY <1>2, <1>6
    <2>2. TypeOK'
      BY <1>1, <1>4, <2>1 DEF TypeOK, goods
    <2>3. OnExists' /\ PayHolds' /\ UpdateHolds'
      BY <1>1, <1>4, <2>1 DEF IInv, OnExists, PayHolds, UpdateHolds
    <2>4. GenerationCovers'
      BY <1>1, <1>4, <1>6, <2>1 DEF IInv, GenerationCovers, Taken
    <2> QED
      BY <1>1, <1>5, <2>1, <2>2, <2>3, <2>4, QuietKeeps DEF IInv, goods
  <1>7. CASE ~Taken(t, m)
    <2> DEFINE row == Row(Price[t], t, m)
    <2>1. expense' = Append(expense, row)
      BY <1>2, <1>7
    <2>2. row \in ExpenseRow /\ row.paid = 0 /\ row.template = t /\ row.month = m
      BY <1>1, <1>3 DEF Row, ExpenseRow
    <2> HIDE DEF row
    <2>3. TypeOK'
      BY <1>1, <1>4, <2>1, <2>2, AppendRow DEF TypeOK, goods
    <2>4. OnExists' /\ PayHolds' /\ UpdateHolds'
      BY <1>1, <1>4, <2>1, <2>2, NewRowKeepsReads
    <2>5. /\ PaidWithinAmount' /\ OneExpensePerMonth'
          /\ \A u \in Template, k \in Month : Taken(u, k) => Taken(u, k)'
      BY <1>1, <1>7, <2>1, <2>2, NewRowKeeps
    <2>6. PayablesAreOwn'
      BY <1>1, <2>1, <2>2, NewRowKeepsPayables DEF goods
    <2>7. Taken(t, m)'
      BY <1>1, <1>3, <1>4, <2>1, <2>2, AppendRow DEF Taken
    <2>8. GenerationCovers'
      BY <1>1, <1>4, <2>5, <2>7 DEF IInv, GenerationCovers, ArgumentsFit, TypeOK, Arguments
    <2> QED
      BY <1>5, <2>3, <2>4, <2>5, <2>6, <2>8 DEF IInv
  <1> QED
    BY <1>6, <1>7

LEMMA GeneratedStep ==
    ASSUME IInv, NEW r \in Req, Generated(r)
    PROVE  IInv'
BY EndKeeps DEF Generated

-----------------------------------------------------------------------------
(* Purchases *)

LEMMA LineStep ==
    ASSUME IInv, NEW r \in Req, Line(r)
    PROVE  IInv'
  <1> DEFINE job == [arg[r] EXCEPT !.at = arg[r].at + 1]
  <1>1. /\ TypeOK /\ pc[r] \in {"purchase", "lines"}
        /\ pc' = [pc EXCEPT ![r] = "lines"] /\ arg' = [arg EXCEPT ![r] = job]
        /\ UNCHANGED <<money, goods, begun>>
    BY DEF Line, IInv
  <1>2. job \in Arguments /\ job.lines = arg[r].lines
    <2>1. arg[r] \in Arguments
      BY <1>1 DEF TypeOK
    <2> QED
      BY <2>1 DEF Arguments
  <1> HIDE DEF job
  <1>3. /\ pc' \in [Req -> Steps] /\ arg' \in [Req -> Arguments] /\ pc'[r] = "lines"
        /\ \A q \in Req \ {r} : pc'[q] = pc[q] /\ arg'[q] = arg[q]
    BY <1>1, <1>2 DEF TypeOK, Steps
  <1>4. TypeOK'
    BY <1>1, <1>3 DEF TypeOK, money, goods
  <1>5. OnExists' /\ PayHolds' /\ UpdateHolds'
    BY <1>1, <1>3 DEF IInv, OnExists, PayHolds, UpdateHolds, money
  <1>6. ArgumentsFit'
    BY <1>3 DEF IInv, ArgumentsFit, Arguments
  <1>7. GenerationCovers'
    BY <1>1, <1>3 DEF IInv, GenerationCovers, Taken, money
  <1> QED
    BY <1>1, <1>4, <1>5, <1>6, <1>7, QuietKeeps DEF IInv, money, goods

\* The rows a purchase adds: its payable, if it has one, and itself.
PurchaseRow == [lines : SUBSET Product, counted : SUBSET Product, payable : Nat]

LEMMA AppendPurchase ==
    ASSUME TypeOK, NEW row \in PurchaseRow, purchase' = Append(purchase, row)
    PROVE  /\ purchase' \in Seq(PurchaseRow)
           /\ DOMAIN purchase' = DOMAIN purchase \cup {Len(purchase) + 1}
           /\ Len(purchase) + 1 \notin DOMAIN purchase
           /\ purchase'[Len(purchase) + 1] = row
           /\ \A k \in DOMAIN purchase : purchase'[k] = purchase[k]
  <1>1. purchase \in Seq(PurchaseRow)
    BY DEF TypeOK, PurchaseRow
  <1>2. /\ purchase' \in Seq(PurchaseRow) /\ Len(purchase') = Len(purchase) + 1
        /\ purchase'[Len(purchase) + 1] = row
        /\ \A k \in 1..Len(purchase) : purchase'[k] = purchase[k]
    BY <1>1, AppendProperties
  <1>3. /\ DOMAIN purchase' = 1..(Len(purchase) + 1) /\ DOMAIN purchase = 1..Len(purchase)
        /\ Len(purchase) \in Nat
    BY <1>1, <1>2, LenProperties
  <1> QED
    BY <1>2, <1>3

LEMMA PurchaseStep ==
    ASSUME IInv, NEW r \in Req, Purchase(r)
    PROVE  IInv'
  <1> USE ManagementAssumption
  <1> DEFINE due == Row(Len(arg[r].lines), NoTemplate, NoMonth)
             row == [lines |-> Items(arg[r].lines), counted |-> arg[r].counted,
                     payable |-> IF arg[r].payable THEN Len(expense') ELSE 0]
  <1>1. /\ TypeOK /\ End(r) /\ arg[r] \in Arguments
        /\ stock' = [p \in Product |-> IF p \in arg[r].counted THEN stock[p] + 1 ELSE stock[p]]
        /\ UNCHANGED <<templates, overlapped, moved, controlled, adjusted>>
    BY DEF Purchase, IInv, TypeOK
  <1>2. /\ expense' = IF arg[r].payable THEN Append(expense, due) ELSE expense
        /\ purchase' = Append(purchase, row)
    BY DEF Purchase
  <1>3. due \in ExpenseRow /\ due.paid = 0 /\ due.template = NoTemplate
    BY <1>1, LenProperties DEF Row, ExpenseRow, Arguments
  <1>4. Items(arg[r].lines) \subseteq Product
    BY <1>1, LenProperties, ElementOfSeq DEF Items, Arguments
  <1> HIDE DEF due
  <1>5. /\ expense' \in Seq(ExpenseRow) /\ DOMAIN expense \subseteq DOMAIN expense'
        /\ \A e \in DOMAIN expense : expense'[e] = expense[e]
    BY <1>1, <1>2, <1>3, AppendRow DEF TypeOK
  <1>6. arg[r].payable => /\ Len(expense') = Len(expense) + 1
                          /\ Len(expense') \in DOMAIN expense' \ DOMAIN expense
                          /\ expense'[Len(expense')].template = NoTemplate
    <2>1. SUFFICES ASSUME arg[r].payable
                   PROVE  /\ Len(expense') = Len(expense) + 1
                          /\ Len(expense') \in DOMAIN expense' \ DOMAIN expense
                          /\ expense'[Len(expense')].template = NoTemplate
      OBVIOUS
    <2>2. expense' = Append(expense, due) /\ expense \in Seq(ExpenseRow)
      BY <1>1, <1>2, <2>1 DEF TypeOK
    <2>3. Len(expense') = Len(expense) + 1
      BY <1>3, <2>2, AppendProperties
    <2> QED
      BY <1>1, <1>3, <2>2, <2>3, AppendRow
  <1>7. row \in PurchaseRow /\ row.counted = arg[r].counted
        /\ row.payable = IF arg[r].payable THEN Len(expense') ELSE 0
    BY <1>1, <1>4, <1>5, <1>6, LenProperties DEF PurchaseRow, Arguments
  <1> HIDE DEF row
  <1>8. /\ pc' \in [Req -> Steps] /\ arg' \in [Req -> Arguments] /\ begun' \in 0..MaxRequests
        /\ pc'[r] = "idle" /\ arg'[r] = Idle
        /\ \A q \in Req \ {r} : pc'[q] = pc[q] /\ arg'[q] = arg[q]
    BY <1>1, EndType
  <1>9. TypeOK'
    <2>1. purchase' \in Seq(PurchaseRow) /\ stock' \in [Product -> Int]
      BY <1>1, <1>2, <1>7, AppendPurchase DEF TypeOK
    <2>2. overlapped' \subseteq DOMAIN expense'
      BY <1>1, <1>5 DEF TypeOK
    <2> QED
      BY <1>1, <1>5, <1>8, <2>1, <2>2 DEF TypeOK, PurchaseRow
  <1>10. OnExists'
    BY <1>5, <1>8 DEF IInv, OnExists
  <1>11. PayHolds' /\ UpdateHolds'
    <2>1. ASSUME NEW q \in Req, pc'[q] \in {"payWrite", "update"}
          PROVE  /\ pc[q] = pc'[q] /\ arg'[q] = arg[q] /\ overlapped' = overlapped
                 /\ expense'[arg[q].on] = expense[arg[q].on]
      BY <1>1, <1>5, <1>8, <2>1 DEF IInv, OnExists
    <2> QED
      BY <2>1 DEF IInv, PayHolds, UpdateHolds
  <1>12. /\ PaidWithinAmount' /\ OneExpensePerMonth'
         /\ \A t \in Template, m \in Month : Taken(t, m) => Taken(t, m)'
    <2>1. CASE arg[r].payable
      BY <1>1, <1>2, <1>3, <2>1, NewRowKeeps
    <2>2. CASE ~arg[r].payable
      BY <1>1, <1>2, <2>2 DEF IInv, PaidWithinAmount, OneExpensePerMonth, Taken
    <2> QED
      BY <2>1, <2>2
  <1>13. ArgumentsFit'
    BY <1>8, IdleType DEF IInv, ArgumentsFit, Arguments
  <1>14. GenerationCovers'
    BY <1>1, <1>8, <1>12 DEF IInv, GenerationCovers, ArgumentsFit, TypeOK, Arguments
  <1>15. PayablesAreOwn'
    BY <1>1, <1>2, <1>5, <1>6, <1>7, AppendPurchase DEF IInv, PayablesAreOwn
  <1> QED
    BY <1>9, <1>10, <1>11, <1>12, <1>13, <1>14, <1>15 DEF IInv

-----------------------------------------------------------------------------
(* The invariant *)

LEMMA WorkStep ==
    ASSUME IInv, NEW r \in Req, Work(r) \/ Die(r)
    PROVE  IInv'
  <1>1. CASE Update(r) \/ ReadPayments(r) \/ Pay(r)
    BY <1>1, UpdateStep, ReadPaymentsStep, PayStep
  <1>2. CASE Generate(r) \/ Generated(r)
    BY <1>2, GenerateStep, GeneratedStep
  <1>3. CASE Line(r) \/ Purchase(r)
    BY <1>3, LineStep, PurchaseStep
  <1>4. CASE Abort(r)
    BY <1>4, EndKeeps DEF Abort
  <1> QED
    BY <1>1, <1>2, <1>3, <1>4 DEF Work, Die

LEMMA NextStep ==
    ASSUME IInv, Next
    PROVE  IInv'
  <1>1. ASSUME NEW n \in Amount, CreateExpense(n) PROVE IInv'
    BY <1>1, CreateExpenseStep
  <1>2. ASSUME NEW e \in DOMAIN expense, CancelExpense(e) PROVE IInv'
    BY <1>2, CancelExpenseStep
  <1>3. ASSUME NEW t \in Template, CreateRecurring(t) PROVE IInv'
    BY <1>3, OtherStep DEF CreateRecurring, goods, IInv, TypeOK
  <1>4. ASSUME NEW p \in Product, UpdateProduct(p) PROVE IInv'
    BY <1>4, OtherStep DEF UpdateProduct, money, IInv, TypeOK
  <1>5. ASSUME NEW p \in Product, NEW n \in {1, -1}, Adjust(p, n) PROVE IInv'
    <2>1. /\ stock' \in [Product -> Int] /\ adjusted' \in [Product -> Int]
      BY <1>5 DEF Adjust, IInv, TypeOK
    <2> QED
      BY <1>5, <2>1, OtherStep DEF Adjust, money, IInv, TypeOK
  <1>6. ASSUME NEW r \in Req, Work(r) \/ Die(r) PROVE IInv'
    BY <1>6, WorkStep
  <1>7. ASSUME NEW r \in Req, NEW e \in DOMAIN expense, NEW n \in Amount, StartPayment(r, e, n)
        PROVE  IInv'
    BY <1>7, StartPaymentStep
  <1>8. ASSUME NEW r \in Req, NEW e \in DOMAIN expense, NEW n \in Amount \cup {0},
               NEW m \in Month \cup {NoMonth}, ReadUpdate(r, e, n, m)
        PROVE  IInv'
    BY <1>8, ReadUpdateStep
  <1>9. ASSUME NEW r \in Req, NEW m \in Month, ListTemplates(r, m) PROVE IInv'
    BY <1>9, ListTemplatesStep
  <1>10. ASSUME NEW r \in Req, NEW k \in 1..2, NEW lines \in [1..k -> Product],
                NEW payable \in BOOLEAN, StartPurchase(r, lines, payable)
         PROVE  IInv'
    BY <1>10, StartPurchaseStep
  <1> QED
    BY <1>1, <1>2, <1>3, <1>4, <1>5, <1>6, <1>7, <1>8, <1>9, <1>10 DEF Next

LEMMA Stutter == ASSUME IInv, UNCHANGED vars PROVE IInv'
  <1>1. UNCHANGED <<expense, templates, overlapped, moved, purchase, pc, arg>>
        /\ UNCHANGED <<controlled, stock, adjusted, begun>>
    BY DEF vars, money, goods
  <1>2. TypeOK'
    BY <1>1 DEF IInv, TypeOK
  <1>3. OnExists' /\ PayHolds' /\ UpdateHolds' /\ ArgumentsFit' /\ GenerationCovers'
    BY <1>1 DEF IInv, OnExists, PayHolds, UpdateHolds, ArgumentsFit, GenerationCovers, Taken
  <1> QED
    BY <1>1, <1>2, <1>3, QuietKeeps DEF IInv

LEMMA Invariant == Spec => []IInv
  <1>1. IInv /\ [Next]_vars => IInv'
    BY NextStep, Stutter
  <1> QED
    BY <1>1, Initial, PTL DEF Spec

\* The variables of management.controller.ts keep their types.
THEOREM Types == Spec => []TypeOK
  <1>1. IInv => TypeOK
    BY DEF IInv
  <1> QED
    BY <1>1, Invariant, PTL

\* An expense is paid beyond its amount only if two requests changed it at once.
THEOREM PaymentsFit == Spec => []PaidWithinAmount
  <1>1. IInv => PaidWithinAmount
    BY DEF IInv
  <1> QED
    BY <1>1, Invariant, PTL

\* A template has one expense a month, whoever generates and moves expenses.
THEOREM MonthsAreExact == Spec => []OneExpensePerMonth
  <1>1. IInv => OneExpensePerMonth
    BY DEF IInv
  <1> QED
    BY <1>1, Invariant, PTL

\* A generation leaves out no template it has listed, whichever it skips.
THEOREM GenerationsAreComplete == Spec => []GenerationCovers
  <1>1. IInv => GenerationCovers
    BY DEF IInv
  <1> QED
    BY <1>1, Invariant, PTL

\* The payable of a purchase exists and belongs to that purchase alone.
THEOREM PurchasesOwnPayables == Spec => []PayablesAreOwn
  <1>1. IInv => PayablesAreOwn
    BY DEF IInv
  <1> QED
    BY <1>1, Invariant, PTL

-----------------------------------------------------------------------------
(* Payments of canceled expenses *)

\* Only the write of a payment raises what is paid.
LEMMA PaidGrows ==
    ASSUME IInv, [Next]_vars, NEW e \in DOMAIN expense,
           expense[e].canceled, expense'[e].paid > expense[e].paid
    PROVE  e \in overlapped
  <1> USE ExpenseDomain DEF ExpenseRow
  <1>1. TypeOK /\ expense[e] \in ExpenseRow /\ ~(expense[e].paid > expense[e].paid)
    BY DEF IInv
  <1>2. CASE UNCHANGED expense
    BY <1>1, <1>2
  <1>3. CASE \E row \in ExpenseRow : expense' = Append(expense, row)
    BY <1>1, <1>3, AppendRow
  <1>4. CASE \E f \in DOMAIN expense : CancelExpense(f)
    <2>1. PICK f \in DOMAIN expense : CancelExpense(f)
      BY <1>4
    <2>2. expense' = [expense EXCEPT ![f] = [@ EXCEPT !.canceled = TRUE]]
      BY <2>1 DEF CancelExpense
    <2> QED
      BY <1>1, <2>2
  <1>5. CASE \E r \in Req : Update(r)
    <2>1. PICK r \in Req : Update(r)
      BY <1>5
    <2> DEFINE f == arg[r].on
               m == IF arg[r].month = NoMonth THEN expense[f].month ELSE arg[r].month
               n == IF arg[r].sum = 0 THEN expense[f].amount ELSE arg[r].sum
               row == [expense[f] EXCEPT !.amount = n, !.month = m]
    <2>2. UNCHANGED expense \/ expense' = [expense EXCEPT ![f] = row]
      BY <2>1 DEF Update
    <2>3. f \in DOMAIN expense
      BY <2>1 DEF IInv, OnExists, Update
    <2>4. row.paid = expense[f].paid
      BY <1>1, <2>3
    <2> HIDE DEF row, f
    <2> QED
      BY <1>1, <2>2, <2>3, <2>4
  <1>6. CASE \E r \in Req : Pay(r)
    <2>1. PICK r \in Req : Pay(r)
      BY <1>6
    <2>2. /\ pc[r] = "payWrite" /\ arg[r].on \in DOMAIN expense
          /\ \A f \in DOMAIN expense \ {arg[r].on} : expense'[f] = expense[f]
      BY <1>1, <2>1 DEF Pay, IInv, OnExists, TypeOK
    <2>3. e = arg[r].on
      BY <1>1, <2>2
    <2> QED
      BY <2>2, <2>3 DEF IInv, PayHolds
  <1>7. \/ UNCHANGED expense
        \/ \E row : expense' = Append(expense, row) /\ row \in ExpenseRow
        \/ \E f \in DOMAIN expense : CancelExpense(f)
        \/ \E r \in Req : Update(r) \/ Pay(r)
    <2> USE ManagementAssumption
    <2>1. ASSUME NEW n \in Amount, CreateExpense(n)
          PROVE  \E row \in ExpenseRow : expense' = Append(expense, row)
      BY <2>1 DEF CreateExpense, Row, ExpenseRow
    <2>2. ASSUME NEW r \in Req, Generate(r)
          PROVE  UNCHANGED expense \/ \E row \in ExpenseRow : expense' = Append(expense, row)
      <3>1. arg[r].month \in Month \cup {NoMonth} /\ arg[r].left \subseteq Template
        BY <1>1 DEF TypeOK, Arguments
      <3>2. PICK t \in arg[r].left :
              UNCHANGED expense \/ expense' = Append(expense, Row(Price[t], t, arg[r].month))
        BY <2>2 DEF Generate
      <3>3. Row(Price[t], t, arg[r].month) \in ExpenseRow
        BY <3>1 DEF Row, ExpenseRow
      <3> QED
        BY <3>2, <3>3
    <2>3. ASSUME NEW r \in Req, Purchase(r)
          PROVE  UNCHANGED expense \/ \E row \in ExpenseRow : expense' = Append(expense, row)
      <3>1. Len(arg[r].lines) \in Nat
        BY <1>1, LenProperties DEF TypeOK, Arguments
      <3>2. \/ UNCHANGED expense
            \/ expense' = Append(expense, Row(Len(arg[r].lines), NoTemplate, NoMonth))
        BY <2>3 DEF Purchase
      <3>3. Row(Len(arg[r].lines), NoTemplate, NoMonth) \in ExpenseRow
        BY <3>1 DEF Row, ExpenseRow
      <3> QED
        BY <3>2, <3>3
    <2>4. ASSUME NEW r \in Req, \/ ReadPayments(r) \/ Generated(r) \/ Line(r) \/ Abort(r)
          PROVE  UNCHANGED expense
      BY <2>4 DEF ReadPayments, Generated, Line, Abort, money
    <2>5. ASSUME UNCHANGED vars PROVE UNCHANGED expense
      BY <2>5 DEF vars, money
    <2> QED
      BY <2>1, <2>2, <2>3, <2>4, <2>5
         DEF Next, Work, Die, CreateRecurring, UpdateProduct, Adjust, StartPayment, ReadUpdate,
             ListTemplates, StartPurchase, money
  <1> QED
    BY <1>2, <1>3, <1>4, <1>5, <1>6, <1>7

\* What is paid of a canceled expense was decided before the cancellation.
THEOREM CanceledStaysUnpaid == Spec => NothingPaidAfterCancel
  <1> DEFINE A == \A e \in DOMAIN expense :
                    expense[e].canceled /\ expense'[e].paid > expense[e].paid => e \in overlapped
  <1>1. IInv /\ [Next]_vars => [A]_vars
    BY PaidGrows
  <1> QED
    BY <1>1, Invariant, PTL DEF Spec, NothingPaidAfterCancel

-----------------------------------------------------------------------------
(* Stock *)

Counting(p) == {k \in DOMAIN purchase : p \in purchase[k].counted}

LEMMA CountingFinite == ASSUME TypeOK, NEW p PROVE IsFiniteSet(Counting(p))
  <1>1. DOMAIN purchase = 1..Len(purchase) /\ Len(purchase) \in Nat
    BY LenProperties DEF TypeOK
  <1>2. IsFiniteSet(DOMAIN purchase)
    BY <1>1, FS_Interval
  <1> QED
    BY <1>2, FS_Subset DEF Counting

LEMMA StockStep ==
    ASSUME IInv, StockMatchesMovements, [Next]_vars
    PROVE  StockMatchesMovements'
  <1>1. TypeOK
    BY DEF IInv
  <1>2. CASE UNCHANGED <<stock, adjusted, purchase>>
    BY <1>2 DEF StockMatchesMovements
  <1>3. ASSUME NEW q \in Product, NEW n \in {1, -1}, Adjust(q, n)
        PROVE  StockMatchesMovements'
    <2>1. /\ purchase' = purchase
          /\ stock' = [stock EXCEPT ![q] = @ + n] /\ adjusted' = [adjusted EXCEPT ![q] = @ + n]
      BY <1>3 DEF Adjust
    <2>2. \A p \in Product : stock[p] = adjusted[p] + Cardinality(Counting(p))
      BY DEF StockMatchesMovements, Counting
    <2>3. \A p \in Product : Cardinality(Counting(p)) \in Nat
      BY <1>1, CountingFinite, FS_CardinalityType
    <2>4. \A p \in Product : stock'[p] = adjusted'[p] + Cardinality(Counting(p))
      BY <1>1, <2>1, <2>2, <2>3 DEF TypeOK
    <2> QED
      BY <2>1, <2>4 DEF StockMatchesMovements, Counting
  <1>4. ASSUME NEW r \in Req, Purchase(r)
        PROVE  StockMatchesMovements'
    <2> DEFINE row == [lines |-> Items(arg[r].lines), counted |-> arg[r].counted,
                       payable |-> IF arg[r].payable THEN Len(expense') ELSE 0]
    <2>1. /\ stock' = [p \in Product |-> IF p \in arg[r].counted THEN stock[p] + 1 ELSE stock[p]]
          /\ purchase' = Append(purchase, row) /\ adjusted' = adjusted
      BY <1>4 DEF Purchase
    <2>2. Items(arg[r].lines) \subseteq Product /\ arg[r].counted \subseteq Product
          /\ arg[r].payable \in BOOLEAN
      BY <1>1, LenProperties, ElementOfSeq DEF Items, Arguments, TypeOK
    <2>3. Len(expense') \in Nat
      BY <1>4, PurchaseStep, LenProperties DEF IInv, TypeOK
    <2>4. row \in PurchaseRow /\ row.counted = arg[r].counted
      BY <2>2, <2>3 DEF PurchaseRow
    <2> HIDE DEF row
    <2>5. /\ DOMAIN purchase' = DOMAIN purchase \cup {Len(purchase) + 1}
          /\ Len(purchase) + 1 \notin DOMAIN purchase
          /\ purchase'[Len(purchase) + 1].counted = arg[r].counted
          /\ \A k \in DOMAIN purchase : purchase'[k] = purchase[k]
      BY <1>1, <2>1, <2>4, AppendPurchase
    <2>6. SUFFICES ASSUME NEW p \in Product
                   PROVE  stock'[p] = adjusted'[p] + Cardinality(Counting(p)')
      BY DEF StockMatchesMovements, Counting
    <2>7. /\ stock[p] = adjusted[p] + Cardinality(Counting(p))
          /\ IsFiniteSet(Counting(p)) /\ Cardinality(Counting(p)) \in Nat
      BY <1>1, CountingFinite, FS_CardinalityType DEF StockMatchesMovements, Counting
    <2>8. stock[p] \in Int /\ adjusted[p] \in Int
      BY <1>1 DEF TypeOK
    <2>9. CASE p \in arg[r].counted
      <3>1. Counting(p)' = Counting(p) \cup {Len(purchase) + 1}
            /\ Len(purchase) + 1 \notin Counting(p)
        BY <2>5, <2>9 DEF Counting
      <3>2. Cardinality(Counting(p)') = Cardinality(Counting(p)) + 1
        BY <3>1, <2>7, FS_AddElement
      <3> QED
        BY <2>1, <2>7, <2>8, <2>9, <3>2
    <2>10. CASE p \notin arg[r].counted
      <3>1. Counting(p)' = Counting(p)
        BY <2>5, <2>10 DEF Counting
      <3> QED
        BY <2>1, <2>7, <2>10, <3>1
    <2> QED
      BY <2>9, <2>10
  <1>5. \/ UNCHANGED <<stock, adjusted, purchase>>
        \/ \E q \in Product, n \in {1, -1} : Adjust(q, n)
        \/ \E r \in Req : Purchase(r)
    <2>1. ASSUME NEW r \in Req, Work(r) \/ Die(r), ~Purchase(r)
          PROVE  UNCHANGED <<stock, adjusted, purchase>>
      BY <2>1 DEF Work, Die, Abort, Update, ReadPayments, Pay, Generate, Generated, Line, goods
    <2> QED
      BY <2>1 DEF Next, vars, goods, CreateExpense, CancelExpense, CreateRecurring, UpdateProduct,
                  StartPayment, ReadUpdate, ListTemplates, StartPurchase
  <1> QED
    BY <1>2, <1>3, <1>4, <1>5

\* The stock of every product is the sum of its movements.
THEOREM StockIsMovements == Spec => []StockMatchesMovements
  <1>1. Init => StockMatchesMovements
    <2>1. SUFFICES ASSUME Init, NEW p \in Product
                   PROVE  stock[p] = adjusted[p] + Cardinality(Counting(p))
      BY DEF StockMatchesMovements, Counting
    <2>2. Counting(p) = {}
      BY <2>1 DEF Init, Counting
    <2> QED
      BY <2>1, <2>2, FS_EmptySet DEF Init
  <1>2. IInv /\ StockMatchesMovements /\ [Next]_vars => StockMatchesMovements'
    BY StockStep
  <1> QED
    BY <1>1, <1>2, Invariant, PTL DEF Spec
=============================================================================
