--------------------------- MODULE MCIdempotency ---------------------------
(* One key, sent with two settlements of one order that differ in their       *)
(* payments, and with the same change of status of two orders, whose requests *)
(* have one body.  Calls under different keys meet at the order only, which   *)
(* SettleElsewhere stands for.                                                *)
EXTENDS Idempotency

CONSTANTS k1, settle1, settle2, status1, status2, sameBody, order

Calls == {settle1, settle2, status1, status2}
ReservingCalls == {settle1, settle2}
SettledOrder == [c \in ReservingCalls |-> order]
CallKeys == [c \in Calls |-> k1]
CallBodies == [c \in Calls |-> IF c \in ReservingCalls THEN c ELSE sameBody]
=============================================================================
