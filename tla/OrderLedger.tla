----------------------------- MODULE OrderLedger -----------------------------
(***************************************************************************)
(* What the order API promises, with one atomic action per accepted call:  *)
(* units accumulate on an open order, an order occupies at most one table  *)
(* and shares it with none, and it ends once, either settled for exactly   *)
(* its units, which then leave the stock, or closed without payment.       *)
(* Requests, versions, Pix charges and transactions do not exist here.     *)
(***************************************************************************)
EXTENDS Naturals

CONSTANTS Order, Table, NoTable, StockControlled

VARIABLES phase, units, place, received, taken

ledger == <<phase, units, place, received, taken>>

Free(t) == \A o \in Order : place[o] # t

Init ==
    /\ phase = [o \in Order |-> "none"]
    /\ units = [o \in Order |-> 0]
    /\ place = [o \in Order |-> NoTable]
    /\ received = [o \in Order |-> 0]
    /\ taken = [o \in Order |-> 0]

Open(o, t) ==
    /\ phase[o] = "none"
    /\ t = NoTable \/ Free(t)
    /\ phase' = [phase EXCEPT ![o] = "open"]
    /\ place' = [place EXCEPT ![o] = t]
    /\ UNCHANGED <<units, received, taken>>

AddUnit(o) ==
    /\ phase[o] = "open"
    /\ units' = [units EXCEPT ![o] = @ + 1]
    /\ UNCHANGED <<phase, place, received, taken>>

Move(o, t) ==
    /\ phase[o] = "open"
    /\ Free(t)
    /\ place' = [place EXCEPT ![o] = t]
    /\ UNCHANGED <<phase, units, received, taken>>

Settle(o) ==
    /\ phase[o] = "open" /\ units[o] > 0
    /\ phase' = [phase EXCEPT ![o] = "settled"]
    /\ place' = [place EXCEPT ![o] = NoTable]
    /\ received' = [received EXCEPT ![o] = units[o]]
    /\ taken' = [taken EXCEPT ![o] = IF StockControlled THEN units[o] ELSE 0]
    /\ UNCHANGED units

CloseUnpaid(o) ==
    /\ phase[o] = "open"
    /\ phase' = [phase EXCEPT ![o] = "unpaid"]
    /\ place' = [place EXCEPT ![o] = NoTable]
    /\ UNCHANGED <<units, received, taken>>

Next ==
    \E o \in Order :
        \/ AddUnit(o) \/ Settle(o) \/ CloseUnpaid(o)
        \/ \E t \in Table : Move(o, t)
        \/ \E t \in Table \cup {NoTable} : Open(o, t)

Spec == Init /\ [][Next]_ledger
=============================================================================
