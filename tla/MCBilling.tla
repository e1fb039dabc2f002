----------------------------- MODULE MCBilling -----------------------------
(* An instance of Billing with amounts at which percentages round both ways. *)
EXTENDS Billing

Body(type, cents, value, bps) ==
    [type |-> type, cents |-> cents, value |-> value, bps |-> bps]

\* Nothing asked for; 15 % off, with cents that fit some subtotals only, and a fee
\* of 12.5 %; one cent off, which is all of the smallest subtotal.
MCBodies == {Body(NoType, NoValue, NoValue, NoValue),
             Body("percent", 1, 1500, 1250),
             Body("fixed", 1, 1, 1000)}
MCPrices == {1, 5}
MCLimits == {1900, 10000}
=============================================================================
