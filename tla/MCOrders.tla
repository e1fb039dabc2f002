------------------------------ MODULE MCOrders ------------------------------
(* Instances of Orders for the model checker.  Two requests are in flight at *)
(* a time; requests, tables and orders are interchangeable.                  *)
EXTENDS OrdersRefinement, TLC

CONSTANTS o1, o2, t1, t2, r1, r2

OneOrder  == {o1}
TwoOrders == {o1, o2}
OneTable  == {t1}
TwoTables == {t1, t2}
TwoReqs   == {r1, r2}

\* Handlers that change what an order costs or pays it.
BillOps == {"createOrder", "updateOrderStatus", "addItem", "settleOrder",
            "closeOrder", "createCharge", "receive"}

\* Handlers that occupy and free tables.
TableOps == {"createOrder", "updateOrderStatus", "transferTable",
             "closeOrder", "deleteTable", "updateTable"}

AllReqs == Permutations(TwoReqs)
AllIds  == AllReqs \cup Permutations(TwoTables)
=============================================================================
