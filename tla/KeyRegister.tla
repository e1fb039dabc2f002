---------------------------- MODULE KeyRegister ----------------------------
(***************************************************************************)
(* What an idempotency key promises: a key belongs to the first call that  *)
(* is completed under it and to no other, and whoever asks again with the  *)
(* same request is told of that call.                                      *)
(***************************************************************************)
CONSTANTS Key, Call, NoCall, KeyOf, HashOf

VARIABLES owner, told

register == <<owner, told>>

Init == /\ owner = [k \in Key |-> NoCall]
        /\ told = [c \in Call |-> NoCall]

Take(c) == /\ owner[KeyOf[c]] = NoCall
           /\ owner' = [owner EXCEPT ![KeyOf[c]] = c]
           /\ UNCHANGED told

Tell(c) == /\ owner[KeyOf[c]] # NoCall
           /\ HashOf[owner[KeyOf[c]]] = HashOf[c]
           /\ told' = [told EXCEPT ![c] = owner[KeyOf[c]]]
           /\ UNCHANGED owner

Next == \E c \in Call : Take(c) \/ Tell(c)

Spec == Init /\ [][Next]_register
=============================================================================
