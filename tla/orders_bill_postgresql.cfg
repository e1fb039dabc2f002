SPECIFICATION Spec
CONSTANTS
    o1 = o1
    o2 = o2
    t1 = t1
    t2 = t2
    r1 = r1
    r2 = r2
    NoTable = NoTable
    Order <- OneOrder
    Table <- OneTable
    Req <- TwoReqs
    Database = "postgresql"
    StockControlled = FALSE
    Ops <- BillOps
    MaxVersion = 5
    MaxItems = 2
SYMMETRY AllReqs
INVARIANTS
    PaidTheBillByHand
    ChargePaysOnce
    PaidChargeIsSettled
PROPERTIES
    StatusOnlyAdvances
