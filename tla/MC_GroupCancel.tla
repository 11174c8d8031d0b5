---------------------------- MODULE MC_GroupCancel ----------------------------
(* One client that asks again and again beside a stop by the output policy,    *)
(* so that it starts the operation, joins it or comes late; a leader and one   *)
(* other process; a grace period of one tick and one more to settle.           *)
EXTENDS GroupCancel
=============================================================================
