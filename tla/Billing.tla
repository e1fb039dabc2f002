------------------------------- MODULE Billing -------------------------------
(***************************************************************************)
(* What an order costs and how it is paid: the arithmetic of               *)
(* financial.utils.ts, the discount rules of orders.controller.ts and      *)
(* pix.controller.ts, and the settlement screen that asks for a preview,   *)
(* shows its total and settles with payments that make up that total.      *)
(*                                                                         *)
(* A handler is one step: between its read of the order and its write the  *)
(* version it names in the where clause does not change (module Orders has *)
(* the steps in between).  Only the creation of a Pix charge is two steps, *)
(* as the provider is called in the middle.  Money is in cents, and        *)
(* percentages in basis points, as in the code.                            *)
(***************************************************************************)
EXTENDS Integers, Sequences, SequencesExt

CONSTANTS
    Prices,      \* what an item that is added may cost
    Bodies,      \* discount and fee a client may ask for
    Limits,      \* values the manager gives cashier_discount_limit_bps
    MaxVersion,  \* bound on Order.version
    MaxAsked     \* bound on the previews of the screen in flight

NoValue == -1    \* an optional number that is undefined
NoType  == "none"

ASSUME BillingAssumption ==
    /\ Prices \subseteq Nat /\ Limits \subseteq 0..10000 /\ Limits # {}
    /\ \A b \in Bodies : /\ b.type \in {NoType, "fixed", "percent"}
                         /\ {b.cents, b.value, b.bps} \subseteq Nat \cup {NoValue}
                         /\ b.type # NoType => b.value # NoValue
    /\ Bodies # {} /\ MaxVersion \in Nat \ {0} /\ MaxAsked \in Nat \ {0}

VARIABLES
    subtotal,  \* sum of quantity * unit_price_cents over the items
    version,   \* Order.version
    bill,      \* what settling wrote on the order, NoBill while it is open
    payments,  \* its OrderPayment rows
    limit,     \* Tenant.cashier_discount_limit_bps
    charge,    \* the Pix charge of the order
    role,      \* role of the user of the screen
    known,     \* version of the order the screen was opened with
    form,      \* discount and fee on the screen
    asked,     \* previews requested and not yet shown, with their answers
    loading,   \* _isLoadingPreview
    quote,     \* the preview on the screen
    sent       \* the settlement on its way to the server

orderVars  == <<subtotal, version, bill, payments>>
screenVars == <<known, form, asked, loading, quote, sent>>
vars == <<orderVars, limit, charge, role, screenVars>>

-----------------------------------------------------------------------------
(* financial.utils.ts and resolveDiscount *)

Or(x, default) == IF x = NoValue THEN default ELSE x

\* Math.round(x / d) for x >= 0: halves go up.
Round(x, d) == (2 * x + d) \div (2 * d)

FeeDown(discounted, bps) == (discounted * bps) \div 10000  \* mutant: Math.floor
Fee(discounted, bps) == Round(discounted * bps, 10000)

TotalOf(sub, discount, bps) == (sub - discount) + Fee(sub - discount, bps)

DiscountType(b) == IF b.type = NoType /\ b.cents # NoValue THEN "fixed" ELSE b.type

Percent(sub, bps) == Round(sub * bps, 10000)

Discount(sub, b) ==
    CASE DiscountType(b) = "percent" -> Percent(sub, b.value)
      [] DiscountType(b) = "fixed"   -> Or(b.value, b.cents)
      [] OTHER                       -> 0

DiscountValue(sub, b) == IF DiscountType(b) = "fixed" THEN Discount(sub, b) ELSE b.value

\* resolveDiscount throws on a percentage above 100 and on two figures that differ.
Resolves(sub, b) ==
    /\ DiscountType(b) = "percent" =>
          b.value \in 0..10000 /\ b.cents \in {NoValue, Percent(sub, b.value)}
    /\ DiscountType(b) = "fixed" =>
          NoValue \in {b.value, b.cents} \/ b.value = b.cents

\* assertDiscountPermission: a cashier keeps to the limit of the tenant.
MayDiscount(sub, discount) ==
    role = "cashier" /\ sub > 0 => discount * 10000 <= sub * limit

SettleBps(b) == Or(b.bps, 1000)
ChargeBps(b) == Or(b.bps, 0)

PaidSum(rows) == FoldLeft(LAMBDA sum, row : sum + row.amount, 0, rows)

ValidRow(row) ==
    /\ row.amount > 0
    /\ IF row.method = "cash" THEN Or(row.tendered, row.amount) >= row.amount
                              ELSE row.tendered \in {NoValue, row.amount}

ValidPaymentsCovering(rows, total) ==  \* mutant: paying more than the total is accepted
    /\ rows # <<>>
    /\ \A i \in DOMAIN rows : ValidRow(rows[i])
    /\ PaidSum(rows) >= total
ValidPayments(rows, total) ==
    /\ rows # <<>>
    /\ \A i \in DOMAIN rows : ValidRow(rows[i])
    /\ PaidSum(rows) = total

Row(method, amount, tendered) == [method |-> method, amount |-> amount, tendered |-> tendered]
StoredRow(row, given) ==
    [method |-> row.method, amount |-> row.amount, tendered |-> given,
     change |-> IF row.method = "cash" THEN given - row.amount ELSE 0]

PaymentRowNoDefault(row) ==  \* mutant: absent tendered_cents is not replaced
    StoredRow(row, row.tendered)
\* The OrderPayment of a row: cash defaults to the exact amount, and only cash
\* has change.
PaymentRow(row) ==
    StoredRow(row, IF row.method = "cash" THEN Or(row.tendered, row.amount) ELSE row.tendered)

Bill(how, type, value, discount, bps) ==
    [how |-> how, type |-> type, value |-> value, discount |-> discount, bps |-> bps,
     subtotal |-> subtotal, fee |-> Fee(subtotal - discount, bps),
     total |-> TotalOf(subtotal, discount, bps)]

NoBill == [how |-> "none", type |-> NoType, value |-> 0, discount |-> 0, bps |-> 0,
           subtotal |-> 0, fee |-> 0, total |-> 0]

-----------------------------------------------------------------------------
(* What the screen holds.  A quote is the answer to a preview: its total, and  *)
(* for the properties what it was computed from.                               *)

NoQuote == [body |-> CHOOSE b \in Bodies : TRUE, total |-> NoValue, version |-> 0, limit |-> 0]
NotSent == [body |-> NoQuote.body, rows |-> <<>>, expected |-> 0, quote |-> NoQuote]
NoCharge == [state |-> "none", type |-> NoType, value |-> 0, discount |-> 0,
             bps |-> 0, amount |-> 0]

Open == bill.how = "none"
PendingPix == charge.state = "pending"

Init ==
    /\ subtotal \in Prices /\ version = 1
    /\ bill = NoBill /\ payments = <<>>
    /\ limit \in Limits /\ role \in {"cashier", "manager"}
    /\ role = "manager" => \A l \in Limits : l <= limit
    /\ charge = NoCharge
    /\ known = 1 /\ form = NoQuote.body
    /\ asked = {[body |-> form, answered |-> FALSE, quote |-> NoQuote]}
    /\ loading = TRUE /\ quote = NoQuote /\ sent = NotSent

\* A waiter adds an item, which a pending charge forbids.
AddItem(price) ==
    /\ Open /\ ~PendingPix /\ version < MaxVersion
    /\ subtotal' = subtotal + price
    /\ version' = version + 1
    /\ UNCHANGED <<bill, payments, limit, charge, role, screenVars>>

\* PATCH /v1/settings/discount-policy.  Only a lower limit can surprise, and only
\* a cashier.
UpdateDiscountPolicy(bps) ==
    /\ Open /\ role = "cashier" /\ bps < limit
    /\ limit' = bps
    /\ UNCHANGED <<orderVars, charge, role, screenVars>>

-----------------------------------------------------------------------------
(* The settlement screen and its previews, followed until the order is closed *)

\* A change of discount or fee asks for a preview at once; the answers may come
\* back in another order.
Edit(b) ==
    /\ Open /\ b # form /\ Cardinality(asked) < MaxAsked
    /\ form' = b
    /\ asked' = asked \cup {[body |-> b, answered |-> FALSE, quote |-> NoQuote]}
    /\ loading' = TRUE
    /\ UNCHANGED <<orderVars, limit, charge, role, known, quote, sent>>

\* Leaving the screen and opening it again with the order as it is now.
Reopen ==
    /\ Open /\ known # version /\ sent = NotSent
    /\ known' = version /\ quote' = NoQuote
    /\ asked' = {[body |-> form, answered |-> FALSE, quote |-> NoQuote]}
    /\ loading' = TRUE
    /\ UNCHANGED <<orderVars, limit, charge, role, form, sent>>

Previewable(b) ==
    /\ Resolves(subtotal, b)
    /\ Discount(subtotal, b) <= subtotal
    /\ MayDiscount(subtotal, Discount(subtotal, b))

\* POST :id/settlement-preview.  A refusal is answered without a quote.
PreviewSettlementPix(q) ==  \* mutant: the default fee of a Pix charge
    /\ q \in asked /\ ~q.answered /\ Open
    /\ asked' = (asked \ {q}) \cup {[q EXCEPT !.answered = TRUE, !.quote =
           IF Previewable(q.body)
           THEN [body |-> q.body, version |-> version, limit |-> limit,
                 total |-> TotalOf(subtotal, Discount(subtotal, q.body), ChargeBps(q.body))]
           ELSE NoQuote]}
    /\ UNCHANGED <<orderVars, limit, charge, role, known, form, loading, quote, sent>>
PreviewSettlement(q) ==
    /\ q \in asked /\ ~q.answered /\ Open
    /\ asked' = (asked \ {q}) \cup {[q EXCEPT !.answered = TRUE, !.quote =
           IF Previewable(q.body)
           THEN [body |-> q.body, version |-> version, limit |-> limit,
                 total |-> TotalOf(subtotal, Discount(subtotal, q.body), SettleBps(q.body))]
           ELSE NoQuote]}
    /\ UNCHANGED <<orderVars, limit, charge, role, known, form, loading, quote, sent>>

\* The answer to any preview ends the loading.  A refused or failed one leaves the
\* last quote on the screen.
ShowPreview(q) ==
    /\ q \in asked /\ q.answered /\ Open
    /\ asked' = asked \ {q}
    /\ loading' = FALSE
    /\ quote' = IF q.quote = NoQuote THEN quote ELSE q.quote
    /\ UNCHANGED <<orderVars, limit, charge, role, known, form, sent>>

\* Payments that make up a total: in one row, or split in two.
Splits(total) ==
    {<<Row("cash", total, NoValue)>>,
     <<Row("credit", total \div 2, NoValue),
       Row("cash", total - total \div 2, total)>>}

\* The button waits for a preview and wants positive amounts; it sends the form, not
\* what was previewed.
SubmitSettlement ==
    /\ sent = NotSent /\ Open /\ ~loading /\ quote # NoQuote
    /\ \E rows \in Splits(quote.total) :
          /\ \A i \in DOMAIN rows : ValidRow(rows[i])
          /\ sent' = [body |-> form, rows |-> rows, expected |-> known, quote |-> quote]
    /\ UNCHANGED <<orderVars, limit, charge, role, known, form, asked, loading, quote>>

-----------------------------------------------------------------------------
(* POST :id/settle *)

Settles(s) ==
    /\ Open /\ s.expected = version /\ ~PendingPix
    /\ Resolves(subtotal, s.body)
    /\ MayDiscount(subtotal, Discount(subtotal, s.body))
    /\ Discount(subtotal, s.body) <= subtotal
    /\ ValidPayments(s.rows, TotalOf(subtotal, Discount(subtotal, s.body), SettleBps(s.body)))

SettleOrder ==
    LET b == sent.body IN
    /\ sent # NotSent /\ Settles(sent)
    /\ bill' = Bill("hand", DiscountType(b), DiscountValue(subtotal, b),
                    Discount(subtotal, b), SettleBps(b))
    /\ payments' = [i \in DOMAIN sent.rows |-> PaymentRow(sent.rows[i])]
    /\ version' = version + 1
    /\ sent' = NotSent
    /\ UNCHANGED <<subtotal, limit, charge, role, known, form, asked, loading, quote>>

\* A check throws, or the order is closed and answered as it is.
RefuseSettlement ==
    /\ sent # NotSent /\ ~Settles(sent)
    /\ sent' = NotSent
    /\ UNCHANGED <<orderVars, limit, charge, role, known, form, asked, loading, quote>>

-----------------------------------------------------------------------------
(* POST /v1/pix/charges and its webhook; one charge per order here *)

\* Neither the two-figures check nor the limit of the cashier is in this handler.
AskCharge ==
    LET d == Discount(subtotal, form)
        amount == TotalOf(subtotal, d, ChargeBps(form)) IN
    /\ charge.state = "none" /\ Open /\ known = version /\ sent = NotSent
    /\ DiscountType(form) = "percent" => form.value <= 10000
    /\ d <= subtotal /\ amount > 0
    /\ charge' = [state |-> "asked", type |-> DiscountType(form), discount |-> d,
                  value |-> DiscountValue(subtotal, form), bps |-> ChargeBps(form),
                  amount |-> amount]
    /\ UNCHANGED <<orderVars, limit, role, screenVars>>

InsertCharge ==
    /\ charge.state = "asked"
    /\ charge' = [charge EXCEPT !.state = "pending"]
    /\ UNCHANGED <<orderVars, limit, role, screenVars>>

Expire ==
    /\ PendingPix
    /\ charge' = [charge EXCEPT !.state = "expired"]
    /\ UNCHANGED <<orderVars, limit, role, screenVars>>

\* The webhook says paid, for an expired charge too: the total is computed again
\* with the discount in cents the charge was created with.
StillCostsMissing == TRUE  \* mutant: the amounts are not compared
StillCosts == TotalOf(subtotal, charge.discount, charge.bps) = charge.amount

Receive ==
    /\ charge.state \in {"pending", "expired"} /\ Open
    /\ charge.discount <= subtotal
    /\ StillCosts
    /\ bill' = Bill("pix", charge.type, charge.value, charge.discount, charge.bps)
    /\ payments' = <<PaymentRow(Row("pix", bill'.total, NoValue))>>
    /\ version' = version + 1
    /\ charge' = [charge EXCEPT !.state = "paid"]
    /\ UNCHANGED <<subtotal, limit, role, screenVars>>

Next ==
    \/ \E p \in Prices : AddItem(p)
    \/ \E l \in Limits : UpdateDiscountPolicy(l)
    \/ \E b \in Bodies : Edit(b)
    \/ \E q \in asked : PreviewSettlement(q) \/ ShowPreview(q)
    \/ Reopen \/ SubmitSettlement \/ SettleOrder \/ RefuseSettlement
    \/ AskCharge \/ InsertCharge \/ Expire \/ Receive

Spec == Init /\ [][Next]_vars

-----------------------------------------------------------------------------
(* What must hold *)

\* Every variable keeps its type; see the declarations.
TypeOK ==
    /\ subtotal \in Nat /\ version \in 1..(MaxVersion + 1) /\ known \in 1..MaxVersion
    /\ bill.how \in {"none", "hand", "pix"} /\ bill.discount \in 0..subtotal
    /\ \A i \in DOMAIN payments : payments[i].change \in Nat /\ payments[i].amount \in Nat
    /\ limit \in Limits /\ role \in {"cashier", "manager"} /\ form \in Bodies
    /\ charge.state \in {"none", "asked", "pending", "expired", "paid"}
    /\ \A q \in asked : q.body \in Bodies /\ q.answered \in BOOLEAN
    /\ loading \in BOOLEAN /\ quote.total \in Nat \cup {NoValue} /\ sent.expected \in 0..MaxVersion

\* fee is exact / 10000 to the nearest cent, half a cent going up.
WithinHalfCent(fee, exact) == 2 * (fee * 10000 - exact) \in -9999..10000

\* The books of a settled order balance, whoever closed it: the rows add up to the
\* total, cash given less change is what was owed, the total is the discounted
\* subtotal and a fee within half a cent of its percentage, and the subtotal is
\* that of the items it was closed with.
BillBalances ==
    ~Open =>
        /\ PaidSum(payments) = bill.total
        /\ \A i \in DOMAIN payments :
              LET row == payments[i] IN
              IF row.method = "cash" THEN row.tendered - row.change = row.amount
                                     ELSE row.change = 0
        /\ bill.subtotal = subtotal
        /\ bill.total = (subtotal - bill.discount) + bill.fee
        /\ WithinHalfCent(bill.fee, (subtotal - bill.discount) * bill.bps)

\* The terms stored with a bill explain its discount on the subtotal it was closed
\* with.  A Pix payment closes with the cents computed when the charge was created,
\* perhaps for fewer items and after it expired.
TermsExplainDiscount ==
    ~Open =>
        CASE bill.type = "percent" -> bill.discount = Percent(subtotal, bill.value)
          [] bill.type = "fixed"   -> bill.discount = bill.value
          [] OTHER                 -> bill.discount = 0

\* A settlement by hand whose payments make up the total the screen showed takes
\* exactly that total, though the form and the items may have changed since and the
\* previews may have been answered in another order.
QuoteIsCharged ==
    [][bill'.how = "hand" /\ Open => bill'.total = sent.quote.total]_vars

\* Preview and settlement agree: a settlement is refused only if something it was
\* quoted from has changed since, the order is closed or a charge is pending.
QuoteIsHonoured ==
    [][sent # NotSent /\ sent' = NotSent /\ Open /\ bill' = bill =>
         \/ sent.body # sent.quote.body \/ sent.quote.version # version
         \/ sent.expected # version \/ sent.quote.limit # limit \/ PendingPix]_vars
=============================================================================
