SPECIFICATION FairSpec
CONSTANTS
    rent = rent
    show = show
    jan = jan
    feb = feb
    Req = {r1, r2}
    Product = {beer, soda}
    Template = {rent, show}
    Month = {jan, feb}
    NoTemplate = NoTemplate
    NoMonth = NoMonth
    Due <- MCDue
    Price <- MCPrice
    Amount = {1, 2}
    Database = "postgresql"
    MaxRequests = 3
INVARIANTS
    PaidWithinAmount
    OneExpensePerMonth
    GenerationCovers
    StockMatchesMovements
PROPERTIES
    NothingPaidAfterCancel
    EveryRequestEnds
CHECK_DEADLOCK FALSE
