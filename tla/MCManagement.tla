---------------------------- MODULE MCManagement ----------------------------
(* Two products, two templates of which one is due in one month, two requests. *)
EXTENDS Management

CONSTANTS rent, show, jan, feb

MCDue   == [t \in Template |-> IF t = rent THEN Month ELSE {jan}]
MCPrice == [t \in Template |-> 2]
=============================================================================
