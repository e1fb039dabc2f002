SPECIFICATION Spec
CONSTANTS
    o1 = o1
    o2 = o2
    t1 = t1
    t2 = t2
    r1 = r1
    r2 = r2
    NoTable = NoTable
    Order <- TwoOrders
    Table <- TwoTables
    Req <- TwoReqs
    Database = "sqlite"
    StockControlled = TRUE
    Ops <- TableOps
    MaxVersion = 4
    MaxItems = 1
SYMMETRY AllIds
INVARIANTS
    OneOrderPerTable
    FinishedFreesTable
PROPERTIES
    ImplementsLedger
