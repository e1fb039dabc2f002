-------------------------- MODULE OrdersRefinement --------------------------
(* On SQLite, where transactions run alone, Orders implements OrderLedger.   *)
EXTENDS Orders

Phase(o) == CASE status[o] = "absent" -> "none"
              [] status[o] \in Finished -> IF payments[o] = {} THEN "unpaid" ELSE "settled"
              [] OTHER -> "open"

\* The money received for an order: one settlement is all there is.
Received(o) == IF payments[o] = {} THEN 0 ELSE (CHOOSE p \in payments[o] : TRUE).amount

Ledger == INSTANCE OrderLedger WITH
    phase <- [o \in Order |-> Phase(o)],
    units <- items,
    place <- tableId,
    received <- [o \in Order |-> Received(o)],
    taken <- sold

\* Whatever the interleaving of requests, what the database shows is a run of the
\* ledger: each accepted call is one of its actions and each refused one nothing.
ImplementsLedger == Ledger!Spec
=============================================================================
