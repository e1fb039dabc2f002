---------------------------- MODULE BillingProofs ----------------------------
(* The books of a settled order balance, its terms explain its discount, and *)
(* what the screen shows is what is charged, for any prices, discounts, fees *)
(* and limits.                                                               *)
EXTENDS Billing, TLAPS

-----------------------------------------------------------------------------
(* Arithmetic *)

\* Math.round is off by half a unit at most, and halves go up.
LEMMA RoundHalf ==
    ASSUME NEW x \in Nat
    PROVE  /\ Round(x, 10000) \in Nat
           /\ 20000 * Round(x, 10000) > 2 * x - 10000
           /\ 20000 * Round(x, 10000) <= 2 * x + 10000
<1> DEFINE q == (2 * x + 10000) \div 20000
<1>1. Round(x, 10000) = q
  BY DEF Round
<1>2. q \in Int /\ 20000 * q <= 2 * x + 10000 /\ 2 * x + 10000 < 20000 * q + 20000
  OBVIOUS
<1> HIDE DEF q
<1>3. q >= 0
  BY <1>2
<1> QED
  BY <1>1, <1>2, <1>3

LEMMA RoundMonotone ==
    ASSUME NEW x \in Nat, NEW y \in Nat, x <= y
    PROVE  Round(x, 10000) <= Round(y, 10000)
  BY DEF Round

LEMMA ProductNat ==
    ASSUME NEW x \in Nat, NEW b \in Nat
    PROVE  x * b \in Nat
  OBVIOUS

LEMMA ProductMonotone ==
    ASSUME NEW x \in Nat, NEW y \in Nat, NEW b \in Nat, x <= y
    PROVE  x * b <= y * b
  OBVIOUS

\* The fee is within half a cent of its percentage.
LEMMA FeeHalf ==
    ASSUME NEW x \in Nat, NEW bps \in Nat
    PROVE  /\ Fee(x, bps) \in Nat
           /\ 20000 * Fee(x, bps) > 2 * (x * bps) - 10000
           /\ 20000 * Fee(x, bps) <= 2 * (x * bps) + 10000
<1> DEFINE y == x * bps
<1>1. y \in Nat
  BY ProductNat
<1> HIDE DEF y
<1>2. /\ Round(y, 10000) \in Nat
      /\ 20000 * Round(y, 10000) > 2 * y - 10000
      /\ 20000 * Round(y, 10000) <= 2 * y + 10000
  BY <1>1, RoundHalf
<1> QED
  BY <1>2 DEF Fee, y

LEMMA FeeRounds ==
    ASSUME NEW x \in Nat, NEW bps \in Nat
    PROVE  WithinHalfCent(Fee(x, bps), x * bps)
<1> DEFINE f == Fee(x, bps)
           y == x * bps
<1>1. f \in Nat /\ y \in Nat /\ 20000 * f > 2 * y - 10000 /\ 20000 * f <= 2 * y + 10000
  BY FeeHalf, ProductNat
<1> HIDE DEF f, y
<1>2. WithinHalfCent(f, y)
  BY <1>1 DEF WithinHalfCent
<1> QED
  BY <1>2 DEF f, y

LEMMA FeeIsNat == ASSUME NEW x \in Nat, NEW bps \in Nat PROVE Fee(x, bps) \in Nat
  BY FeeHalf

LEMMA TotalNat ==
    ASSUME NEW s \in Nat, NEW d \in 0..s, NEW bps \in Nat
    PROVE  TotalOf(s, d, bps) \in Nat
<1> DEFINE x == s - d
<1>1. x \in Nat
  OBVIOUS
<1> HIDE DEF x
<1>2. x + Fee(x, bps) \in Nat
  BY <1>1, FeeIsNat
<1> QED
  BY <1>2 DEF TotalOf, x

\* Of two subtotals with the same discount in cents and the same fee, the larger
\* one costs more.
LEMMA TotalIncreases ==
    ASSUME NEW s \in Nat, NEW t \in Nat, NEW d \in 0..s, NEW bps \in Nat, s < t
    PROVE  TotalOf(s, d, bps) < TotalOf(t, d, bps)
<1> DEFINE x == s - d
           y == t - d
<1>1. x \in Nat /\ y \in Nat /\ x < y
  OBVIOUS
<1> HIDE DEF x, y
<1>2. x * bps \in Nat /\ y * bps \in Nat /\ x * bps <= y * bps
  BY <1>1, ProductNat, ProductMonotone
<1>3. Fee(x, bps) <= Fee(y, bps)
  BY <1>2, RoundMonotone DEF Fee
<1>4. Fee(x, bps) \in Nat /\ Fee(y, bps) \in Nat
  BY <1>1, FeeIsNat
<1>5. x + Fee(x, bps) < y + Fee(y, bps)
  BY <1>1, <1>3, <1>4
<1> QED
  BY <1>5 DEF TotalOf, x, y

\* Under the terms of a charge its amount determines the subtotal of the bill: the
\* webhook, which compares the total only (pix.controller.ts:191), notices every change
\* of the subtotal after the charge, in spite of the fee's rounding.
THEOREM TotalTellsSubtotal ==
    ASSUME NEW s \in Nat, NEW t \in Nat, NEW d \in Nat, NEW bps \in Nat, d <= s, d <= t,
           TotalOf(s, d, bps) = TotalOf(t, d, bps)
    PROVE  s = t
<1>1. CASE s < t
  <2>1. TotalOf(s, d, bps) < TotalOf(t, d, bps)
    BY <1>1, TotalIncreases
  <2> QED
    BY <2>1, TotalNat
<1>2. CASE t < s
  <2>1. TotalOf(t, d, bps) < TotalOf(s, d, bps)
    BY <1>2, TotalIncreases
  <2> QED
    BY <2>1, TotalNat
<1> QED
  BY <1>1, <1>2

\* What a body asks for.
LEMMA BodyType ==
    ASSUME NEW b \in Bodies
    PROVE  /\ DiscountType(b) \in {NoType, "fixed", "percent"}
           /\ DiscountType(b) = "percent" => b.value \in Nat
           /\ SettleBps(b) \in Nat /\ ChargeBps(b) \in Nat
           /\ b.value \in Int
<1>1. /\ b.type \in {NoType, "fixed", "percent"}
      /\ b.cents \in Nat \cup {NoValue} /\ b.value \in Nat \cup {NoValue}
      /\ b.bps \in Nat \cup {NoValue}
      /\ b.type # NoType => b.value # NoValue
  BY BillingAssumption
<1> QED
  BY <1>1 DEF DiscountType, SettleBps, ChargeBps, Or, NoType, NoValue

LEMMA DiscountIsNat ==
    ASSUME NEW b \in Bodies, NEW s \in Nat
    PROVE  /\ Discount(s, b) \in Nat
           /\ DiscountValue(s, b) \in Int
           /\ DiscountType(b) = "percent" => Discount(s, b) = Percent(s, DiscountValue(s, b))
           /\ DiscountType(b) = "fixed" => Discount(s, b) = DiscountValue(s, b)
           /\ DiscountType(b) = NoType => Discount(s, b) = 0
<1>1. /\ b.type \in {NoType, "fixed", "percent"}
      /\ b.cents \in Nat \cup {NoValue} /\ b.value \in Nat \cup {NoValue}
      /\ b.type # NoType => b.value # NoValue
  BY BillingAssumption
<1>2. DiscountType(b) = "percent" => Percent(s, b.value) \in Nat
  BY BodyType, ProductNat, RoundHalf DEF Percent
<1>3. DiscountType(b) = "fixed" => Or(b.value, b.cents) \in Nat
  BY <1>1 DEF DiscountType, Or, NoType, NoValue
<1> QED
  BY <1>2, <1>3, BodyType DEF Discount, DiscountValue, NoType

-----------------------------------------------------------------------------
(* Adding up the rows of one and of two payments *)

\* The fold that adds up the rows, as a function of the indices still to be added.
AddedUp(rows, g, S) == IF S = {} THEN 0 ELSE g[S \ {Max(S)}] + rows[Max(S)].amount

AddsUp(rows, D, g) ==
    /\ DOMAIN rows = D
    /\ DOMAIN g = SUBSET D
    /\ g = [S \in SUBSET D |-> g[S]]
    /\ \A S \in SUBSET D : g[S] = AddedUp(rows, g, S)

Fold(rows, D) == CHOOSE g : g = [S \in SUBSET D |-> AddedUp(rows, g, S)]

LEMMA PaidSumFolds ==
    ASSUME NEW rows, NEW D, NEW G, AddsUp(rows, D, G)
    PROVE  PaidSum(rows) = Fold(rows, D)[D] /\ AddsUp(rows, D, Fold(rows, D))
<1> DEFINE F == Fold(rows, D)
<1>1. F = [S \in SUBSET D |-> AddedUp(rows, F, S)]
  <2>2. G = [S \in SUBSET D |-> AddedUp(rows, G, S)]
    BY DEF AddsUp
  <2> QED
    BY <2>2 DEF Fold
<1>2. PaidSum(rows) = F[D]
  BY Zenon DEF AddsUp, PaidSum, FoldLeft, MapThenFoldSet, AddedUp, Fold
<1> HIDE DEF F
<1>3. AddsUp(rows, D, F)
  BY <1>1 DEF AddsUp
<1> QED
  BY <1>2, <1>3 DEF F

LEMMA Maxima == Max({1}) = 1 /\ Max({2}) = 2 /\ Max({1, 2}) = 2
<1>1. Max({1}) = 1
  BY DEF Max
<1>2. Max({2}) = 2
  BY DEF Max
<1>3. \E x \in {1, 2} : \A y \in {1, 2} : x >= y
  OBVIOUS
<1>4. Max({1, 2}) = 2
  BY <1>3 DEF Max
<1> QED
  BY <1>1, <1>2, <1>4

LEMMA PaidSumOfOne ==
    ASSUME NEW r, r.amount \in Nat
    PROVE  PaidSum(<<r>>) = r.amount
<1> DEFINE rows == <<r>>
           F == Fold(rows, {1})
           G == [S \in SUBSET {1} |-> IF S = {} THEN 0 ELSE r.amount]
<1>1. DOMAIN rows = {1} /\ rows[1] = r /\ {1} \ {1} = {}
  OBVIOUS
<1>2. \A S \in SUBSET {1} : S = {} \/ S = {1}
  OBVIOUS
<1>3. G[{}] = 0 /\ G[{1}] = r.amount /\ G \in [SUBSET {1} -> Nat]
  OBVIOUS
<1> HIDE DEF rows, F, G
<1>4. \A S \in SUBSET {1} : G[S] = AddedUp(rows, G, S)
  <2>1. AddedUp(rows, G, {}) = 0
    BY DEF AddedUp
  <2>2. AddedUp(rows, G, {1}) = G[{}] + rows[1].amount
    BY <1>1, Maxima DEF AddedUp
  <2>3. G[{}] = AddedUp(rows, G, {}) /\ G[{1}] = AddedUp(rows, G, {1})
    BY <1>1, <1>3, <2>1, <2>2
  <2> QED
    BY <1>2, <2>3
<1>5. /\ PaidSum(rows) = F[{1}]
      /\ \A S \in SUBSET {1} : F[S] = AddedUp(rows, F, S)
  <2>1. AddsUp(rows, {1}, G)
    BY <1>1, <1>3, <1>4 DEF AddsUp
  <2>2. PaidSum(rows) = F[{1}] /\ AddsUp(rows, {1}, F)
    BY <2>1, PaidSumFolds DEF F
  <2> QED
    BY <2>2 DEF AddsUp
<1>6. F[{}] = 0 /\ F[{1}] = F[{}] + r.amount
  BY <1>1, <1>5, Maxima DEF AddedUp
<1> QED
  BY <1>5, <1>6 DEF rows

LEMMA PaidSumOfTwo ==
    ASSUME NEW r, NEW q, r.amount \in Nat, q.amount \in Nat
    PROVE  PaidSum(<<r, q>>) = r.amount + q.amount
<1> DEFINE rows == <<r, q>>
           F == Fold(rows, {1, 2})
           G == [S \in SUBSET {1, 2} |-> (IF 1 \in S THEN r.amount ELSE 0)
                                         + (IF 2 \in S THEN q.amount ELSE 0)]
<1>1. /\ DOMAIN rows = {1, 2} /\ rows[1] = r /\ rows[2] = q
      /\ {1} \ {1} = {} /\ {2} \ {2} = {} /\ {1, 2} \ {2} = {1}
  OBVIOUS
<1>2. \A S \in SUBSET {1, 2} : S = {} \/ S = {1} \/ S = {2} \/ S = {1, 2}
  OBVIOUS
<1>3. /\ G[{}] = 0 /\ G[{1}] = r.amount /\ G[{2}] = q.amount
      /\ G[{1, 2}] = r.amount + q.amount
      /\ G \in [SUBSET {1, 2} -> Nat]
  OBVIOUS
<1> HIDE DEF rows, F, G
<1>4. \A S \in SUBSET {1, 2} : G[S] = AddedUp(rows, G, S)
  <2>1. AddedUp(rows, G, {}) = 0
    BY DEF AddedUp
  <2>2. AddedUp(rows, G, {1}) = G[{}] + rows[1].amount
    BY <1>1, Maxima DEF AddedUp
  <2>3. AddedUp(rows, G, {2}) = G[{}] + rows[2].amount
    BY <1>1, Maxima DEF AddedUp
  <2>4. AddedUp(rows, G, {1, 2}) = G[{1}] + rows[2].amount
    BY <1>1, Maxima DEF AddedUp
  <2>5. /\ G[{}] = AddedUp(rows, G, {}) /\ G[{1}] = AddedUp(rows, G, {1})
        /\ G[{2}] = AddedUp(rows, G, {2}) /\ G[{1, 2}] = AddedUp(rows, G, {1, 2})
    BY <1>1, <1>3, <2>1, <2>2, <2>3, <2>4
  <2> QED
    BY <1>2, <2>5
<1>5. /\ PaidSum(rows) = F[{1, 2}]
      /\ \A S \in SUBSET {1, 2} : F[S] = AddedUp(rows, F, S)
  <2>1. AddsUp(rows, {1, 2}, G)
    BY <1>1, <1>3, <1>4 DEF AddsUp
  <2>2. PaidSum(rows) = F[{1, 2}] /\ AddsUp(rows, {1, 2}, F)
    BY <2>1, PaidSumFolds DEF F
  <2> QED
    BY <2>2 DEF AddsUp
<1>6. /\ F[{}] = 0 /\ F[{1}] = F[{}] + r.amount
      /\ F[{1, 2}] = F[{1}] + q.amount
  <2>1. F[{}] = AddedUp(rows, F, {}) /\ F[{1}] = AddedUp(rows, F, {1})
        /\ F[{1, 2}] = AddedUp(rows, F, {1, 2})
    BY <1>5
  <2>2. AddedUp(rows, F, {}) = 0
    BY DEF AddedUp
  <2>3. AddedUp(rows, F, {1}) = F[{}] + rows[1].amount
    BY <1>1, Maxima DEF AddedUp
  <2>4. AddedUp(rows, F, {1, 2}) = F[{1}] + rows[2].amount
    BY <1>1, Maxima DEF AddedUp
  <2> QED
    BY <1>1, <2>1, <2>2, <2>3, <2>4
<1> QED
  BY <1>5, <1>6 DEF rows

-----------------------------------------------------------------------------
(* Rows *)

Rows == [method : {"cash", "credit", "pix"}, amount : Nat, tendered : Nat \cup {NoValue}]

\* What is stored of a valid row adds change to cash only, and balances.
RowBalances(row) ==
    /\ row.amount \in Nat /\ row.change \in Nat
    /\ IF row.method = "cash" THEN row.tendered - row.change = row.amount ELSE row.change = 0

LEMMA RowIsStored ==
    ASSUME NEW row \in Rows, ValidRow(row)
    PROVE  PaymentRow(row).amount = row.amount /\ RowBalances(PaymentRow(row))
  BY DEF Rows, ValidRow, PaymentRow, StoredRow, Or, RowBalances, NoValue

\* The rows that the screen makes of a total add up to it, and are stored so.
LEMMA SplitsAddUp ==
    ASSUME NEW t \in Nat \cup {NoValue}, NEW rows \in Splits(t),
           \A i \in DOMAIN rows : ValidRow(rows[i])
    PROVE  LET stored == [i \in DOMAIN rows |-> PaymentRow(rows[i])]
           IN  /\ rows # <<>> /\ PaidSum(rows) = t /\ PaidSum(stored) = t
               /\ \A i \in DOMAIN stored : RowBalances(stored[i])
<1> DEFINE stored == [i \in DOMAIN rows |-> PaymentRow(rows[i])]
<1>1. CASE rows = <<Row("cash", t, NoValue)>>
  <2> DEFINE r == Row("cash", t, NoValue)
  <2>1. rows = <<r>> /\ DOMAIN rows = {1} /\ rows[1] = r
    BY <1>1
  <2>2. r.amount = t /\ ValidRow(r)
    BY <2>1 DEF Row
  <2>3. r \in Rows
    BY <2>2 DEF Rows, Row, ValidRow, NoValue
  <2> HIDE DEF r
  <2>4. PaymentRow(r).amount = t /\ RowBalances(PaymentRow(r)) /\ t \in Nat
    BY <2>2, <2>3, RowIsStored DEF Rows
  <2>5. stored = <<PaymentRow(r)>>
    BY <2>1
  <2> QED
    BY <2>1, <2>2, <2>4, <2>5, PaidSumOfOne
<1>2. CASE rows = <<Row("credit", t \div 2, NoValue), Row("cash", t - t \div 2, t)>>
  <2> DEFINE r == Row("credit", t \div 2, NoValue)
             q == Row("cash", t - t \div 2, t)
  <2>1. rows = <<r, q>> /\ DOMAIN rows = {1, 2} /\ rows[1] = r /\ rows[2] = q
    BY <1>2
  <2>2. /\ r.amount + q.amount = t /\ ValidRow(r) /\ ValidRow(q)
        /\ r.amount \in Int /\ q.amount \in Int
    BY <2>1 DEF Row, NoValue
  <2>3. r \in Rows /\ q \in Rows
    BY <2>2 DEF Rows, Row, ValidRow
  <2> HIDE DEF r, q
  <2>4. /\ PaymentRow(r).amount = r.amount /\ RowBalances(PaymentRow(r)) /\ r.amount \in Nat
        /\ PaymentRow(q).amount = q.amount /\ RowBalances(PaymentRow(q)) /\ q.amount \in Nat
    BY <2>2, <2>3, RowIsStored DEF Rows
  <2>5. stored = <<PaymentRow(r), PaymentRow(q)>>
    BY <2>1
  <2>6. PaidSum(rows) = t
    BY <2>1, <2>2, <2>4, PaidSumOfTwo
  <2>7. PaidSum(stored) = t
    BY <2>2, <2>4, <2>5, PaidSumOfTwo
  <2> QED
    BY <2>1, <2>4, <2>5, <2>6, <2>7
<1> QED
  BY <1>1, <1>2 DEF Splits

-----------------------------------------------------------------------------
(* The invariant *)

BillTypes ==
    [how : {"none", "hand", "pix"}, type : {NoType, "fixed", "percent"}, value : Int,
     discount : Nat, bps : Nat, subtotal : Nat, fee : Nat, total : Nat]
ChargeTypes ==
    [state : {"none", "asked", "pending", "expired", "paid"},
     type : {NoType, "fixed", "percent"}, value : Int, discount : Nat, bps : Nat, amount : Nat]
Quotes == [body : Bodies, total : Nat \cup {NoValue}, version : Nat, limit : Nat]

\* Every variable keeps its type, field by field.
Types ==
    /\ subtotal \in Nat /\ version \in 1..(MaxVersion + 1) /\ known \in 1..MaxVersion
    /\ bill \in BillTypes /\ charge \in ChargeTypes
    /\ limit \in Limits /\ role \in {"cashier", "manager"} /\ form \in Bodies
    /\ asked \subseteq [body : Bodies, answered : BOOLEAN, quote : Quotes]
    /\ loading \in BOOLEAN /\ quote \in Quotes
    /\ sent.body \in Bodies /\ sent.expected \in 0..MaxVersion /\ sent.quote \in Quotes
    /\ Open => version <= MaxVersion /\ bill.discount = 0

\* A quote of the order's version and the tenant's limit is what the order costs now.
Quoted(q) ==
    /\ q.version <= version /\ limit <= q.limit
    /\ Open /\ q.version = version =>
          /\ Resolves(subtotal, q.body)
          /\ Discount(subtotal, q.body) <= subtotal
          /\ q.limit = limit => MayDiscount(subtotal, Discount(subtotal, q.body))
          /\ q.total = TotalOf(subtotal, Discount(subtotal, q.body), SettleBps(q.body))

QuotesHold ==
    /\ \A q \in asked : q.quote # NoQuote => Quoted(q.quote)
    /\ quote # NoQuote => Quoted(quote)
    /\ sent # NotSent =>
          /\ sent.quote # NoQuote /\ Quoted(sent.quote)
          /\ sent.rows \in Splits(sent.quote.total)
          /\ \A i \in DOMAIN sent.rows : ValidRow(sent.rows[i])

\* What type and value explain on a subtotal.
Explains(type, value, discount, s) ==
    /\ type = "percent" => discount = Percent(s, value)
    /\ type = "fixed" => discount = value
    /\ type = NoType => discount = 0

\* A charge asks for what the order cost when it was created.
ChargeHolds ==
    charge.state # "none" =>
        \E s \in Nat :
            /\ charge.discount <= s
            /\ charge.amount = TotalOf(s, charge.discount, charge.bps)
            /\ Explains(charge.type, charge.value, charge.discount, s)

PaymentsHold ==
    /\ Open => payments = <<>>
    /\ \A i \in DOMAIN payments : RowBalances(payments[i])

BillHolds ==
    ~Open =>
        /\ PaidSum(payments) = bill.total
        /\ bill.subtotal = subtotal /\ bill.discount <= subtotal
        /\ bill.fee = Fee(subtotal - bill.discount, bill.bps)
        /\ bill.total = TotalOf(subtotal, bill.discount, bill.bps)
        /\ Explains(bill.type, bill.value, bill.discount, subtotal)

BillingInv == Types /\ QuotesHold /\ ChargeHolds /\ PaymentsHold /\ BillHolds

-----------------------------------------------------------------------------
\* What the assumption on the constants says of the prices, the limits and the bounds.
LEMMA Constants ==
    /\ Prices \subseteq Nat
    /\ \A l \in Limits : l \in Nat
    /\ MaxVersion \in Nat /\ MaxVersion > 0
    /\ NoQuote \in Quotes /\ NoQuote.body \in Bodies
<1>1. Prices \subseteq Nat
  BY BillingAssumption
<1>2. Limits \subseteq 0..10000
  BY BillingAssumption
<1>3. MaxVersion \in Nat \ {0}
  BY BillingAssumption
<1>4. Bodies # {}
  BY BillingAssumption
<1>5. NoQuote.body \in Bodies
  BY <1>4 DEF NoQuote
<1>6. NoQuote \in Quotes
  BY <1>5 DEF NoQuote, Quotes
<1>7. \A l \in Limits : l \in Nat
  BY <1>2
<1>8. MaxVersion \in Nat /\ MaxVersion > 0
  BY <1>3
<1> QED
  BY <1>1, <1>5, <1>6, <1>7, <1>8

LEMMA Initial == Init => BillingInv
<1> SUFFICES ASSUME Init PROVE BillingInv
  OBVIOUS
<1>1. Types
  <2>1. bill \in BillTypes /\ charge \in ChargeTypes /\ bill.discount = 0
    BY DEF Init, NoBill, NoCharge, BillTypes, ChargeTypes, NoType
  <2>2. asked \subseteq [body : Bodies, answered : BOOLEAN, quote : Quotes]
    BY Constants DEF Init
  <2>3. sent.body \in Bodies /\ sent.expected \in 0..MaxVersion /\ sent.quote \in Quotes
    BY Constants DEF Init, NotSent
  <2>4. subtotal \in Prices /\ version = 1 /\ known = 1
    BY DEF Init
  <2>5. /\ subtotal \in Nat /\ version \in 1..(MaxVersion + 1) /\ known \in 1..MaxVersion
        /\ version <= MaxVersion
    BY <2>4, Constants
  <2>6. /\ limit \in Limits /\ role \in {"cashier", "manager"} /\ form \in Bodies
        /\ loading \in BOOLEAN /\ quote \in Quotes
    BY Constants DEF Init
  <2> QED
    BY <2>1, <2>2, <2>3, <2>5, <2>6 DEF Types
<1>2. QuotesHold /\ ChargeHolds
  BY DEF Init, QuotesHold, ChargeHolds, NoCharge
<1>3. Open /\ payments = <<>>
  BY DEF Init, Open, NoBill
<1> QED
  BY <1>1, <1>2, <1>3 DEF BillingInv, PaymentsHold, BillHolds

\* While the order, the limit and the role stay, a quote keeps what it says.
LEMMA QuotesStay ==
    ASSUME UNCHANGED <<subtotal, version, bill, limit, role>>, NEW q, Quoted(q)
    PROVE  Quoted(q)'
  BY DEF Quoted, MayDiscount, Open

\* The steps of the screen and of a preview.
LEMMA ScreenStep ==
    ASSUME BillingInv, UNCHANGED <<orderVars, limit, charge, role>>,
           Types', QuotesHold'
    PROVE  BillingInv'
<1>1. UNCHANGED <<subtotal, version, bill, payments, charge>>
  BY DEF orderVars
<1>2. ChargeHolds'
  BY <1>1 DEF BillingInv, ChargeHolds, Explains
<1>3. PaymentsHold'
  BY <1>1 DEF BillingInv, PaymentsHold, Open
<1>4. BillHolds'
  BY <1>1 DEF BillingInv, BillHolds, Open, Explains
<1> QED
  BY <1>2, <1>3, <1>4 DEF BillingInv

\* A step that leaves the order and the screen alone.
LEMMA ChargeStep ==
    ASSUME BillingInv, UNCHANGED <<orderVars, limit, role, screenVars>>,
           charge' \in ChargeTypes, ChargeHolds'
    PROVE  BillingInv'
<1>1. UNCHANGED <<subtotal, version, bill, payments, known, form, asked, loading, quote, sent>>
  BY DEF orderVars, screenVars
<1>2. Types'
  BY <1>1 DEF BillingInv, Types, Open
<1>3. QuotesHold'
  BY <1>1 DEF BillingInv, QuotesHold, Quoted, MayDiscount, Open
<1>4. PaymentsHold'
  BY <1>1 DEF BillingInv, PaymentsHold, Open
<1>5. BillHolds'
  BY <1>1 DEF BillingInv, BillHolds, Open, Explains
<1> QED
  BY <1>2, <1>3, <1>4, <1>5 DEF BillingInv

\* The order is closed: no quote is promised any more.
LEMMA ClosedQuotes ==
    ASSUME QuotesHold, version <= version', UNCHANGED <<limit, asked, quote>>,
           Types, Types', ~Open', sent' = sent \/ sent' = NotSent
    PROVE  QuotesHold'
<1>1. ASSUME NEW q \in Quotes, Quoted(q)
      PROVE  q.version <= version' /\ limit' <= q.limit
  BY <1>1 DEF Quoted, Quotes, Types
<1>2. \A q \in asked : q.quote \in Quotes
  BY DEF Types
<1>3. \A q \in asked' : q.quote # NoQuote => Quoted(q.quote)'
  BY <1>1, <1>2 DEF QuotesHold, Quoted
<1>4. quote' # NoQuote => Quoted(quote)'
  BY <1>1 DEF QuotesHold, Quoted, Types
<1>5. CASE sent' = sent
  BY <1>1, <1>3, <1>4, <1>5 DEF QuotesHold, Quoted, Types
<1>6. CASE sent' = NotSent
  BY <1>3, <1>4, <1>6 DEF QuotesHold
<1> QED
  BY <1>5, <1>6

LEMMA AddItemStep ==
    ASSUME BillingInv, NEW p \in Prices, AddItem(p)
    PROVE  BillingInv'
<1>1. /\ Open /\ version < MaxVersion
      /\ subtotal' = subtotal + p /\ version' = version + 1
      /\ UNCHANGED <<bill, payments, limit, charge, role, known, form, asked, loading, quote, sent>>
  BY DEF AddItem, screenVars
<1>2. p \in Nat
  BY Constants
<1>3. Types'
  <2>1. subtotal' \in Nat /\ version' \in 1..(MaxVersion + 1) /\ version' <= MaxVersion
    BY <1>1, <1>2, Constants DEF BillingInv, Types
  <2> QED
    BY <1>1, <2>1 DEF BillingInv, Types
<1>4. QuotesHold'
  <2>1. ASSUME NEW q \in Quotes, Quoted(q)
        PROVE  q.version <= version' /\ limit' <= q.limit /\ q.version # version'
    BY <1>1, <2>1 DEF Quoted, Quotes, BillingInv, Types
  <2> QED
    BY <1>1, <2>1 DEF BillingInv, Types, QuotesHold, Quoted
<1>5. ChargeHolds'
  BY <1>1 DEF BillingInv, ChargeHolds, Explains
<1>6. PaymentsHold' /\ BillHolds'
  BY <1>1 DEF BillingInv, PaymentsHold, BillHolds, Open
<1> QED
  BY <1>3, <1>4, <1>5, <1>6 DEF BillingInv

LEMMA PolicyStep ==
    ASSUME BillingInv, NEW l \in Limits, UpdateDiscountPolicy(l)
    PROVE  BillingInv'
<1>1. /\ l < limit /\ limit' = l
      /\ UNCHANGED <<subtotal, version, bill, payments, charge, role,
                     known, form, asked, loading, quote, sent>>
  BY DEF UpdateDiscountPolicy, orderVars, screenVars
<1>2. Types'
  BY <1>1 DEF BillingInv, Types, Open
<1>3. QuotesHold'
  <2>1. limit \in Nat /\ limit' \in Nat
    BY <1>1, Constants DEF BillingInv, Types
  <2>2. ASSUME NEW q \in Quotes, Quoted(q)
        PROVE  limit' <= q.limit /\ q.limit # limit'
    BY <1>1, <2>1, <2>2 DEF Quoted, Quotes
  <2> QED
    BY <1>1, <2>2 DEF BillingInv, Types, QuotesHold, Quoted, Open
<1>4. ChargeHolds' /\ PaymentsHold'
  BY <1>1 DEF BillingInv, ChargeHolds, Explains, PaymentsHold, Open
<1>5. BillHolds'
  BY <1>1 DEF BillingInv, BillHolds, Open, Explains
<1> QED
  BY <1>2, <1>3, <1>4, <1>5 DEF BillingInv

LEMMA EditStep ==
    ASSUME BillingInv, NEW b \in Bodies, Edit(b)
    PROVE  BillingInv'
<1> DEFINE new == [body |-> b, answered |-> FALSE, quote |-> NoQuote]
<1>1. /\ UNCHANGED <<orderVars, limit, charge, role, known, quote, sent>>
      /\ form' = b /\ asked' = asked \cup {new} /\ loading' = TRUE
  BY DEF Edit
<1>2. UNCHANGED <<subtotal, version, bill>>
  BY <1>1 DEF orderVars
<1>3. new \in [body : Bodies, answered : BOOLEAN, quote : Quotes] /\ new.quote = NoQuote
  BY Constants
<1> HIDE DEF new
<1>4. Types'
  BY <1>1, <1>2, <1>3 DEF BillingInv, Types, Open
<1>5. QuotesHold'
  BY <1>1, <1>2, <1>3, QuotesStay DEF BillingInv, QuotesHold, Quoted, MayDiscount, Open
<1> QED
  BY <1>1, <1>4, <1>5, ScreenStep

LEMMA ReopenStep ==
    ASSUME BillingInv, Reopen
    PROVE  BillingInv'
<1> DEFINE new == [body |-> form, answered |-> FALSE, quote |-> NoQuote]
<1>1. /\ UNCHANGED <<orderVars, limit, charge, role, form, sent>> /\ Open /\ sent = NotSent
      /\ known' = version /\ quote' = NoQuote /\ asked' = {new} /\ loading' = TRUE
  BY DEF Reopen
<1>2. UNCHANGED <<subtotal, version, bill>>
  BY <1>1 DEF orderVars
<1>3. new \in [body : Bodies, answered : BOOLEAN, quote : Quotes] /\ new.quote = NoQuote
  BY Constants DEF BillingInv, Types
<1> HIDE DEF new
<1>4. Types'
  BY <1>1, <1>2, <1>3, Constants DEF BillingInv, Types, Open
<1>5. QuotesHold'
  BY <1>1, <1>3 DEF QuotesHold
<1> QED
  BY <1>1, <1>4, <1>5, ScreenStep

\* What a preview answers is what the order costs now.
LEMMA PreviewStep ==
    ASSUME BillingInv, NEW q \in asked, PreviewSettlement(q)
    PROVE  BillingInv'
<1> DEFINE answer == IF Previewable(q.body)
                     THEN [body |-> q.body, version |-> version, limit |-> limit,
                           total |-> TotalOf(subtotal, Discount(subtotal, q.body),
                                             SettleBps(q.body))]
                     ELSE NoQuote
           new == [q EXCEPT !.answered = TRUE, !.quote = answer]
<1>1. /\ UNCHANGED <<orderVars, limit, charge, role, known, form, loading, quote, sent>>
      /\ asked' = (asked \ {q}) \cup {new}
  BY DEF PreviewSettlement
<1>2. UNCHANGED <<subtotal, version, bill>>
  BY <1>1 DEF orderVars
<1>3. q \in [body : Bodies, answered : BOOLEAN, quote : Quotes] /\ q.body \in Bodies
  BY DEF BillingInv, Types
<1>4. /\ answer \in Quotes
      /\ answer # NoQuote => Quoted(answer)
  <2>1. CASE Previewable(q.body)
    <3>0. /\ subtotal \in Nat /\ version \in Nat /\ limit \in Nat
          /\ Discount(subtotal, q.body) <= subtotal
      <4>1. subtotal \in Nat /\ version \in 1..(MaxVersion + 1) /\ limit \in Limits
        BY DEF BillingInv, Types
      <4>2. version \in Nat
        BY <4>1, Constants
      <4>3. limit \in Nat
        BY <4>1, Constants
      <4>4. Discount(subtotal, q.body) <= subtotal
        BY <2>1 DEF Previewable
      <4> QED
        BY <4>1, <4>2, <4>3, <4>4
    <3>1. Discount(subtotal, q.body) \in 0..subtotal
      BY <1>3, <3>0, DiscountIsNat
    <3>2. TotalOf(subtotal, Discount(subtotal, q.body), SettleBps(q.body)) \in Nat
      BY <1>3, <3>0, <3>1, BodyType, TotalNat
    <3>3. /\ answer.body = q.body /\ answer.version = version /\ answer.limit = limit
          /\ answer.total = TotalOf(subtotal, Discount(subtotal, q.body), SettleBps(q.body))
      BY <2>1
    <3>4. answer \in Quotes
      BY <1>3, <2>1, <3>0, <3>2 DEF Quotes
    <3>5. Quoted(answer)
      BY <2>1, <3>0, <3>3 DEF Quoted, Previewable
    <3> QED
      BY <3>4, <3>5
  <2>2. CASE ~Previewable(q.body)
    BY <2>2, Constants
  <2> QED
    BY <2>1, <2>2
<1> HIDE DEF answer
<1>5. new \in [body : Bodies, answered : BOOLEAN, quote : Quotes] /\ new.quote = answer
  BY <1>3, <1>4
<1> HIDE DEF new
<1>6. Types'
  BY <1>1, <1>2, <1>5 DEF BillingInv, Types, Open
<1>7. QuotesHold'
  BY <1>1, <1>2, <1>4, <1>5 DEF BillingInv, QuotesHold, Quoted, MayDiscount, Open
<1> QED
  BY <1>1, <1>6, <1>7, ScreenStep

LEMMA ShowStep ==
    ASSUME BillingInv, NEW q \in asked, ShowPreview(q)
    PROVE  BillingInv'
<1>1. /\ UNCHANGED <<orderVars, limit, charge, role, known, form, sent>>
      /\ asked' = asked \ {q} /\ loading' = FALSE
      /\ quote' = IF q.quote = NoQuote THEN quote ELSE q.quote
  BY DEF ShowPreview
<1>2. UNCHANGED <<subtotal, version, bill>>
  BY <1>1 DEF orderVars
<1>3. q.quote \in Quotes
  BY DEF BillingInv, Types
<1>4. Types'
  BY <1>1, <1>2, <1>3 DEF BillingInv, Types, Open
<1>5. QuotesHold'
  BY <1>1, <1>2 DEF BillingInv, QuotesHold, Quoted, MayDiscount, Open
<1> QED
  BY <1>1, <1>4, <1>5, ScreenStep

LEMMA SubmitStep ==
    ASSUME BillingInv, SubmitSettlement
    PROVE  BillingInv'
<1>1. PICK rows \in Splits(quote.total) :
         /\ \A i \in DOMAIN rows : ValidRow(rows[i])
         /\ sent' = [body |-> form, rows |-> rows, expected |-> known, quote |-> quote]
  BY DEF SubmitSettlement
<1>2. /\ UNCHANGED <<orderVars, limit, charge, role, known, form, asked, loading, quote>>
      /\ quote # NoQuote
  BY DEF SubmitSettlement
<1>3. UNCHANGED <<subtotal, version, bill>>
  BY <1>2 DEF orderVars
<1>4. /\ sent'.body = form /\ sent'.rows = rows /\ sent'.expected = known /\ sent'.quote = quote
  BY <1>1
<1>5. Types'
  BY <1>2, <1>3, <1>4 DEF BillingInv, Types, Open
<1>6. QuotesHold'
  BY <1>1, <1>2, <1>3, <1>4 DEF BillingInv, QuotesHold, Quoted, MayDiscount, Open
<1> QED
  BY <1>2, <1>5, <1>6, ScreenStep

LEMMA RefuseStep ==
    ASSUME BillingInv, RefuseSettlement
    PROVE  BillingInv'
<1>1. /\ UNCHANGED <<orderVars, limit, charge, role, known, form, asked, loading, quote>>
      /\ sent' = NotSent
  BY DEF RefuseSettlement
<1>2. UNCHANGED <<subtotal, version, bill>>
  BY <1>1 DEF orderVars
<1>3. NotSent.body \in Bodies /\ NotSent.expected = 0 /\ NotSent.quote = NoQuote
  BY Constants DEF NotSent
<1>4. Types'
  BY <1>1, <1>2, <1>3, Constants DEF BillingInv, Types, Open
<1>5. QuotesHold'
  BY <1>1, <1>2 DEF BillingInv, QuotesHold, Quoted, MayDiscount, Open
<1> QED
  BY <1>1, <1>4, <1>5, ScreenStep

\* The order is closed: its rows make up the total, and the total is of its items.
LEMMA CloseStep ==
    ASSUME BillingInv, Open,
           NEW how \in {"hand", "pix"}, NEW type \in {NoType, "fixed", "percent"},
           NEW value \in Int, NEW discount \in Nat, NEW bps \in Nat,
           discount <= subtotal, Explains(type, value, discount, subtotal),
           bill' = Bill(how, type, value, discount, bps),
           PaidSum(payments') = TotalOf(subtotal, discount, bps),
           \A i \in DOMAIN payments' : RowBalances(payments'[i]),
           version' = version + 1, charge' \in ChargeTypes, ChargeHolds',
           sent' = sent \/ sent' = NotSent,
           UNCHANGED <<subtotal, limit, role, known, form, asked, loading, quote>>
    PROVE  BillingInv'
<1> DEFINE x == subtotal - discount
<1>1. subtotal \in Nat /\ x \in Nat /\ version \in 1..MaxVersion /\ MaxVersion \in Nat
  BY Constants DEF BillingInv, Types
<1> HIDE DEF x
<1>2. Fee(x, bps) \in Nat
  BY <1>1, FeeIsNat
<1>3. TotalOf(subtotal, discount, bps) \in Nat
  BY <1>1, TotalNat
<1>4. /\ bill'.how = how /\ bill'.type = type /\ bill'.value = value
      /\ bill'.discount = discount /\ bill'.bps = bps /\ bill'.subtotal = subtotal
      /\ bill'.fee = Fee(subtotal - discount, bps)
      /\ bill'.total = TotalOf(subtotal, discount, bps)
  BY DEF Bill
<1>5. bill' \in BillTypes
  BY <1>1, <1>2, <1>3 DEF Bill, BillTypes, x
<1>6. ~Open'
  BY <1>4 DEF Open
<1>7. Types'
  <2>1. version' \in 1..(MaxVersion + 1)
    BY <1>1
  <2>2. /\ sent'.body \in Bodies /\ sent'.expected \in 0..MaxVersion
        /\ sent'.quote \in Quotes
    BY Constants DEF BillingInv, Types, NotSent
  <2> QED
    BY <1>5, <1>6, <2>1, <2>2 DEF BillingInv, Types
<1>8. QuotesHold'
  BY <1>1, <1>6, <1>7, ClosedQuotes DEF BillingInv
<1>9. PaymentsHold'
  BY <1>6 DEF PaymentsHold
<1>10. BillHolds'
  BY <1>4 DEF BillHolds, Explains
<1> QED
  BY <1>7, <1>8, <1>9, <1>10 DEF BillingInv

LEMMA SettleStep ==
    ASSUME BillingInv, SettleOrder
    PROVE  BillingInv'
<1> DEFINE b == sent.body
           d == Discount(subtotal, b)
           v == DiscountValue(subtotal, b)
           t == sent.quote.total
           total == TotalOf(subtotal, d, SettleBps(b))
<1>1. /\ sent # NotSent /\ Settles(sent) /\ version' = version + 1 /\ sent' = NotSent
      /\ bill' = Bill("hand", DiscountType(b), v, d, SettleBps(b))
      /\ payments' = [i \in DOMAIN sent.rows |-> PaymentRow(sent.rows[i])]
      /\ UNCHANGED <<subtotal, limit, charge, role, known, form, asked, loading, quote>>
  BY DEF SettleOrder
<1>2. Open /\ d <= subtotal /\ PaidSum(sent.rows) = total
  BY <1>1 DEF Settles, ValidPayments
<1>3. b \in Bodies /\ subtotal \in Nat /\ t \in Nat \cup {NoValue} /\ charge \in ChargeTypes
  BY DEF BillingInv, Types, Quotes
<1>4. /\ d \in Nat /\ v \in Int /\ SettleBps(b) \in Nat
      /\ DiscountType(b) \in {NoType, "fixed", "percent"}
      /\ Explains(DiscountType(b), v, d, subtotal)
  BY <1>3, DiscountIsNat, BodyType DEF Explains
<1>5. sent.rows \in Splits(t) /\ \A i \in DOMAIN sent.rows : ValidRow(sent.rows[i])
  BY <1>1 DEF BillingInv, QuotesHold
<1> HIDE DEF b, d, v, t
<1>6. /\ PaidSum(payments') = t /\ PaidSum(sent.rows) = t
      /\ \A i \in DOMAIN payments' : RowBalances(payments'[i])
  BY <1>1, <1>3, <1>5, SplitsAddUp
<1>7. PaidSum(payments') = TotalOf(subtotal, d, SettleBps(b))
  BY <1>2, <1>6
<1>8. ChargeHolds'
  BY <1>1 DEF BillingInv, ChargeHolds, Explains
<1> QED
  BY <1>1, <1>2, <1>3, <1>4, <1>6, <1>7, <1>8, CloseStep

LEMMA AskStep ==
    ASSUME BillingInv, AskCharge
    PROVE  BillingInv'
<1> DEFINE d == Discount(subtotal, form)
           v == DiscountValue(subtotal, form)
<1>1. /\ d <= subtotal /\ UNCHANGED <<orderVars, limit, role, screenVars>>
      /\ charge' = [state |-> "asked", type |-> DiscountType(form), discount |-> d,
                    value |-> v, bps |-> ChargeBps(form),
                    amount |-> TotalOf(subtotal, d, ChargeBps(form))]
  BY DEF AskCharge
<1>2. subtotal \in Nat /\ form \in Bodies
  BY DEF BillingInv, Types
<1>3. /\ d \in Nat /\ v \in Int /\ ChargeBps(form) \in Nat
      /\ DiscountType(form) \in {NoType, "fixed", "percent"}
      /\ Explains(DiscountType(form), v, d, subtotal)
  BY <1>2, DiscountIsNat, BodyType DEF Explains
<1> HIDE DEF d, v
<1>4. TotalOf(subtotal, d, ChargeBps(form)) \in Nat
  BY <1>1, <1>2, <1>3, TotalNat
<1>5. charge' \in ChargeTypes
  BY <1>1, <1>3, <1>4 DEF ChargeTypes
<1>6. ChargeHolds'
  BY <1>1, <1>2, <1>3 DEF ChargeHolds, Explains
<1> QED
  BY <1>1, <1>5, <1>6, ChargeStep

\* A charge that only changes its state still asks for what the order cost.
LEMMA StateStep ==
    ASSUME BillingInv, NEW state \in {"pending", "expired", "paid"}, charge.state # "none",
           charge' = [charge EXCEPT !.state = state]
    PROVE  charge' \in ChargeTypes /\ ChargeHolds'
<1>1. charge \in ChargeTypes
  BY DEF BillingInv, Types
<1>2. charge' \in ChargeTypes
  BY <1>1 DEF ChargeTypes
<1>3. /\ charge'.discount = charge.discount /\ charge'.amount = charge.amount
      /\ charge'.bps = charge.bps /\ charge'.type = charge.type /\ charge'.value = charge.value
  BY <1>1 DEF ChargeTypes
<1>4. ChargeHolds'
  BY <1>3 DEF BillingInv, ChargeHolds, Explains
<1> QED
  BY <1>2, <1>4

LEMMA InsertStep ==
    ASSUME BillingInv, InsertCharge \/ Expire
    PROVE  BillingInv'
<1>1. /\ UNCHANGED <<orderVars, limit, role, screenVars>> /\ charge.state # "none"
      /\ \E state \in {"pending", "expired", "paid"} : charge' = [charge EXCEPT !.state = state]
  BY DEF InsertCharge, Expire, PendingPix
<1>2. charge' \in ChargeTypes /\ ChargeHolds'
  BY <1>1, StateStep
<1> QED
  BY <1>1, <1>2, ChargeStep

\* The order costs what the charge asked for, so its items cost what they cost when
\* the charge was created, and its terms explain the discount on them.
LEMMA ReceiveStep ==
    ASSUME BillingInv, Receive
    PROVE  BillingInv'
<1> DEFINE d == charge.discount
           t == TotalOf(subtotal, d, charge.bps)
           r == Row("pix", t, NoValue)
<1>1. /\ charge.state \in {"pending", "expired"} /\ Open /\ d <= subtotal
      /\ t = charge.amount
      /\ bill' = Bill("pix", charge.type, charge.value, d, charge.bps)
      /\ payments' = <<PaymentRow(Row("pix", bill'.total, NoValue))>>
      /\ version' = version + 1 /\ charge' = [charge EXCEPT !.state = "paid"]
      /\ UNCHANGED <<subtotal, limit, role, screenVars>>
  BY DEF Receive, StillCosts
<1>2. /\ subtotal \in Nat /\ d \in Nat /\ charge.bps \in Nat /\ charge.value \in Int
      /\ charge.type \in {NoType, "fixed", "percent"}
  BY DEF BillingInv, Types, ChargeTypes
<1>3. Explains(charge.type, charge.value, d, subtotal)
  <2>1. PICK s \in Nat : /\ d <= s /\ charge.amount = TotalOf(s, d, charge.bps)
                         /\ Explains(charge.type, charge.value, d, s)
    BY <1>1 DEF BillingInv, ChargeHolds
  <2>2. s = subtotal
    BY <1>1, <1>2, <2>1, TotalTellsSubtotal
  <2> QED
    BY <2>1, <2>2
<1>4. charge' \in ChargeTypes /\ ChargeHolds'
  BY <1>1, StateStep
<1>5. t \in Nat /\ bill'.total = t
  BY <1>1, <1>2, TotalNat DEF Bill
<1> HIDE DEF d, t
<1>6. /\ payments' = <<PaymentRow(r)>> /\ PaymentRow(r).amount = t
      /\ RowBalances(PaymentRow(r))
  <2>1. /\ PaymentRow(r).amount = t /\ PaymentRow(r).change = 0
        /\ PaymentRow(r).method = "pix"
    BY DEF Row, PaymentRow, StoredRow
  <2> QED
    BY <1>1, <1>5, <2>1 DEF RowBalances
<1> HIDE DEF r
<1>7. PaidSum(payments') = t /\ \A i \in DOMAIN payments' : RowBalances(payments'[i])
  BY <1>5, <1>6, PaidSumOfOne
<1>8. UNCHANGED <<known, form, asked, loading, quote, sent>>
  BY <1>1 DEF screenVars
<1>9. PaidSum(payments') = TotalOf(subtotal, d, charge.bps)
  BY <1>7 DEF t
<1> QED
  BY <1>1, <1>2, <1>3, <1>4, <1>7, <1>8, <1>9, CloseStep

LEMMA Inductive == BillingInv /\ [Next]_vars => BillingInv'
<1> SUFFICES ASSUME BillingInv, [Next]_vars PROVE BillingInv'
  OBVIOUS
<1>1. CASE \E p \in Prices : AddItem(p)
  BY <1>1, AddItemStep
<1>2. CASE \E l \in Limits : UpdateDiscountPolicy(l)
  BY <1>2, PolicyStep
<1>3. CASE \E b \in Bodies : Edit(b)
  BY <1>3, EditStep
<1>4. CASE \E q \in asked : PreviewSettlement(q) \/ ShowPreview(q)
  BY <1>4, PreviewStep, ShowStep
<1>5. CASE Reopen
  BY <1>5, ReopenStep
<1>6. CASE SubmitSettlement
  BY <1>6, SubmitStep
<1>7. CASE SettleOrder
  BY <1>7, SettleStep
<1>8. CASE RefuseSettlement
  BY <1>8, RefuseStep
<1>9. CASE AskCharge
  BY <1>9, AskStep
<1>10. CASE InsertCharge \/ Expire
  BY <1>10, InsertStep
<1>11. CASE Receive
  BY <1>11, ReceiveStep
<1>12. CASE UNCHANGED vars
  <2>1. UNCHANGED <<orderVars, limit, role, screenVars, charge>>
    BY <1>12 DEF vars
  <2>2. charge' \in ChargeTypes /\ ChargeHolds'
    BY <2>1 DEF BillingInv, Types, ChargeHolds, Explains
  <2> QED
    BY <2>1, <2>2, ChargeStep
<1> QED
  BY <1>1, <1>2, <1>3, <1>4, <1>5, <1>6, <1>7, <1>8, <1>9, <1>10, <1>11, <1>12 DEF Next

LEMMA Invariance == Spec => []BillingInv
<1>1. Init => BillingInv
  BY Initial
<1>2. BillingInv /\ [Next]_vars => BillingInv'
  BY Inductive
<1> QED
  BY <1>1, <1>2, PTL DEF Spec

-----------------------------------------------------------------------------
(* What follows *)

\* Types: every variable of the bill, the charge and the settlement screen keeps
\* its type, whatever is ordered, discounted and paid (orders.controller.ts,
\* pix.controller.ts, settlement screen).
THEOREM BillTyped == Spec => []TypeOK
<1>1. BillingInv => TypeOK
  <2> SUFFICES ASSUME BillingInv PROVE TypeOK
    OBVIOUS
  <2>1. bill.how \in {"none", "hand", "pix"} /\ bill.discount \in Nat
    BY DEF BillingInv, Types, BillTypes
  <2>2. bill.discount \in 0..subtotal
    <3>1. CASE Open
      BY <3>1 DEF BillingInv, Types
    <3>2. CASE ~Open
      BY <3>2, <2>1 DEF BillingInv, BillHolds, Types
    <3> QED
      BY <3>1, <3>2
  <2>3. charge.state \in {"none", "asked", "pending", "expired", "paid"}
    BY DEF BillingInv, Types, ChargeTypes
  <2>4. quote.total \in Nat \cup {NoValue}
    BY DEF BillingInv, Types, Quotes
  <2>5. \A i \in DOMAIN payments : payments[i].change \in Nat /\ payments[i].amount \in Nat
    BY DEF BillingInv, PaymentsHold, RowBalances
  <2> QED
    BY <2>1, <2>2, <2>3, <2>4, <2>5 DEF BillingInv, Types, TypeOK
<1> QED
  BY <1>1, Invariance, PTL

\* The books of a settled order balance (settleOrder, and the webhook that closes
\* an order with a Pix payment): rows, change, subtotal, fee and total agree, for
\* any prices, discounts and fees and for any number of items.
THEOREM BooksBalance == Spec => []BillBalances
<1>1. BillingInv => BillBalances
  <2> SUFFICES ASSUME BillingInv, ~Open PROVE BillBalances
    BY Zenon DEF BillBalances
  <2> DEFINE x == subtotal - bill.discount
             bps == bill.bps
  <2>1. /\ PaidSum(payments) = bill.total
        /\ bill.subtotal = subtotal /\ bill.discount <= subtotal
        /\ bill.fee = Fee(x, bps) /\ bill.total = x + bill.fee
    BY DEF BillingInv, BillHolds, TotalOf
  <2>2. subtotal \in Nat /\ bill.discount \in Nat /\ bps \in Nat
    BY DEF BillingInv, Types, BillTypes
  <2>3. x \in Nat
    BY <2>1, <2>2
  <2> HIDE DEF x, bps
  <2>4. WithinHalfCent(bill.fee, x * bps)
    BY <2>1, <2>2, <2>3, FeeRounds
  <2>5. \A i \in DOMAIN payments :
            IF payments[i].method = "cash"
            THEN payments[i].tendered - payments[i].change = payments[i].amount
            ELSE payments[i].change = 0
    BY DEF BillingInv, PaymentsHold, RowBalances
  <2> USE DEF x, bps
  <2>6. bill.total = (subtotal - bill.discount) + bill.fee
    BY <2>1
  <2>7. WithinHalfCent(bill.fee, (subtotal - bill.discount) * bill.bps)
    BY <2>4
  <2> QED
    BY <2>1, <2>5, <2>6, <2>7 DEF BillBalances
<1> QED
  BY <1>1, Invariance, PTL

\* The terms stored with a bill explain its discount on the subtotal it was closed
\* with.  When a late Pix payment closes the order, comparing the amount alone is
\* enough: of two subtotals with the same discount in cents only one costs as much.
THEOREM TermsExplain == Spec => []TermsExplainDiscount
<1>1. BillingInv => TermsExplainDiscount
  <2> SUFFICES ASSUME BillingInv, ~Open PROVE TermsExplainDiscount
    BY DEF TermsExplainDiscount
  <2>1. Explains(bill.type, bill.value, bill.discount, subtotal)
    BY DEF BillingInv, BillHolds
  <2>2. bill.type \in {NoType, "fixed", "percent"}
    BY DEF BillingInv, Types, BillTypes
  <2> QED
    BY <2>1, <2>2 DEF TermsExplainDiscount, Explains, NoType
<1> QED
  BY <1>1, Invariance, PTL

\* Only settleOrder closes an order by hand, and it takes what the screen showed,
\* whatever was edited, added or answered late in the meantime.
THEOREM ShownIsCharged == Spec => QuoteIsCharged
<1>1. ASSUME BillingInv, [Next]_vars
      PROVE  [bill'.how = "hand" /\ Open => bill'.total = sent.quote.total]_vars
  <2> SUFFICES ASSUME bill'.how = "hand", Open, Next PROVE bill'.total = sent.quote.total
    BY <1>1
  <2>1. bill' # bill
    BY DEF Open
  <2>2. SettleOrder
    <3>1. Receive => bill'.how = "pix"
      BY DEF Receive, Bill
    <3> QED
      BY <2>1, <3>1 DEF Next, AddItem, UpdateDiscountPolicy, Edit, PreviewSettlement,
         ShowPreview, Reopen, SubmitSettlement, RefuseSettlement, AskCharge, InsertCharge,
         Expire, orderVars, screenVars
  <2>3. BillingInv'
    BY <1>1, Inductive
  <2>4. /\ sent.rows \in Splits(sent.quote.total)
        /\ \A i \in DOMAIN sent.rows : ValidRow(sent.rows[i])
        /\ payments' = [i \in DOMAIN sent.rows |-> PaymentRow(sent.rows[i])]
        /\ sent.quote.total \in Nat \cup {NoValue}
    BY <1>1, <2>2 DEF BillingInv, QuotesHold, SettleOrder, Types, Quotes
  <2>5. PaidSum(payments') = sent.quote.total
    BY <2>4, SplitsAddUp
  <2>6. PaidSum(payments') = bill'.total
    BY <2>1, <2>2, <2>3 DEF BillingInv, BillHolds, Open, SettleOrder, Bill
  <2> QED
    BY <2>5, <2>6
<1> QED
  BY <1>1, Invariance, PTL DEF Spec, QuoteIsCharged

\* A settlement that is quoted from the order as it is, under the limit as it is,
\* is not refused: previewSettlement and settleOrder agree on every discount and fee.
THEOREM ShownIsHonoured == Spec => QuoteIsHonoured
<1>1. ASSUME BillingInv, [Next]_vars
      PROVE  [sent # NotSent /\ sent' = NotSent /\ Open /\ bill' = bill =>
                 \/ sent.body # sent.quote.body \/ sent.quote.version # version
                 \/ sent.expected # version \/ sent.quote.limit # limit \/ PendingPix]_vars
  <2> SUFFICES ASSUME Next, sent # NotSent, sent' = NotSent, Open, bill' = bill,
                      sent.body = sent.quote.body, sent.quote.version = version,
                      sent.expected = version, sent.quote.limit = limit, ~PendingPix
               PROVE  FALSE
    BY <1>1
  <2> DEFINE b == sent.body
             total == TotalOf(subtotal, Discount(subtotal, b), SettleBps(b))
  <2>1. ~Settles(sent)
    <3>1. SettleOrder => bill' # bill
      BY DEF SettleOrder, Bill, Open
    <3>2. Receive => bill' # bill
      BY DEF Receive, Bill, Open
    <3> QED
      BY <3>1, <3>2 DEF Next, AddItem, UpdateDiscountPolicy, Edit, PreviewSettlement,
         ShowPreview, Reopen, SubmitSettlement, RefuseSettlement, AskCharge, InsertCharge,
         Expire, orderVars, screenVars
  <2>2. /\ Resolves(subtotal, b) /\ Discount(subtotal, b) <= subtotal
        /\ MayDiscount(subtotal, Discount(subtotal, b))
        /\ sent.quote.total = total
    BY <1>1 DEF BillingInv, QuotesHold, Quoted
  <2>3. /\ sent.rows \in Splits(sent.quote.total)
        /\ \A i \in DOMAIN sent.rows : ValidRow(sent.rows[i])
        /\ sent.quote.total \in Nat \cup {NoValue}
    BY <1>1 DEF BillingInv, QuotesHold, Types, Quotes
  <2>4. sent.rows # <<>> /\ PaidSum(sent.rows) = sent.quote.total
    BY <2>3, SplitsAddUp
  <2>5. ValidPayments(sent.rows, total)
    BY <2>2, <2>3, <2>4 DEF ValidPayments
  <2> QED
    BY <2>1, <2>2, <2>5 DEF Settles
<1> QED
  BY <1>1, Invariance, PTL DEF Spec, QuoteIsHonoured
=============================================================================
