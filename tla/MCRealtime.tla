----------------------------- MODULE MCRealtime -----------------------------
(* One user of two tenants, and two sockets: the one of the current attempt   *)
(* and one that was overtaken, broken or given up.                            *)
EXTENDS Realtime
=============================================================================
