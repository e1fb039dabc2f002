------------------------------- MODULE Outbox -------------------------------
(***************************************************************************)
(* What the offline queue promises the user: a change that was queued is   *)
(* kept, in view of the user once it has failed, until it has taken effect *)
(* and never comes back after; it takes effect once, after the creation of *)
(* its order and before the order is closed.  Passes, requests, answers,   *)
(* restarts and the server's keys do not exist here.                       *)
(***************************************************************************)
CONSTANTS Mutation, None, Parent, OrderOf, Closing

VARIABLES
    stage,  \* "unseen", "kept", "shown" as failed, or "gone"
    done    \* the mutations that have taken effect

outbox == <<stage, done>>

Init ==
    /\ stage = [m \in Mutation |-> "unseen"]
    /\ done = {}

Keep(m) ==
    /\ stage[m] = "unseen"
    /\ Parent[m] # None => stage[Parent[m]] # "unseen"
    /\ stage' = [stage EXCEPT ![m] = "kept"]
    /\ UNCHANGED done

Show(m) ==
    /\ stage[m] = "kept"
    /\ stage' = [stage EXCEPT ![m] = "shown"]
    /\ UNCHANGED done

Retry(m) ==
    /\ stage[m] = "shown"
    /\ stage' = [stage EXCEPT ![m] = "kept"]
    /\ UNCHANGED done

OrderIsClosed(m) == \E n \in Closing \ {m} : OrderOf[n] = OrderOf[m] /\ n \in done

TakeEffect(m) ==
    /\ stage[m] # "unseen" /\ m \notin done
    /\ Parent[m] # None => Parent[m] \in done
    /\ ~OrderIsClosed(m)
    /\ done' = done \cup {m}
    /\ UNCHANGED stage

Forget(m) ==
    /\ stage[m] \in {"kept", "shown"} /\ m \in done
    /\ stage' = [stage EXCEPT ![m] = "gone"]
    /\ UNCHANGED done

Next == \E m \in Mutation : Keep(m) \/ Show(m) \/ Retry(m) \/ TakeEffect(m) \/ Forget(m)

Spec == Init /\ [][Next]_outbox
=============================================================================
