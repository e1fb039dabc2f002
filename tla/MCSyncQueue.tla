---------------------------- MODULE MCSyncQueue ----------------------------
(* Instances of SyncQueue: an order created offline, items for it and its     *)
(* closing, which depend on the creation.                                    *)
EXTENDS SyncQueue

CONSTANTS create, item, close, p1, p2, order

Two   == {create, close}
Three == {create, item, close}

OnePass   == {p1}
TwoPasses == {p1, p2}

ParentTwo   == [m \in Two |-> IF m = create THEN None ELSE create]
ParentThree == [m \in Three |-> IF m = create THEN None ELSE create]

OrderTwo   == [m \in Two |-> order]
OrderThree == [m \in Three |-> order]

OnlyClose == {close}
=============================================================================
