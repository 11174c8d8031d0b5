--------------------------- MODULE MC_OuterWrapper ---------------------------
(* OuterWrapper with two remote proxies at one time, made small: two bytes in  *)
(* both directions together where the two --nobuffer options agree, so that a  *)
(* window slides and a replay has an order; one byte where they do not.  A     *)
(* session expires before there is input, or with one byte of it and no output *)
(* (so that a second run of the command could be given it again); and only a   *)
(* session with input has its stdin closed by the command.                     *)
EXTENDS OuterWrapper

Small ==
    /\ inEnd' + outEnd' <= IF window = live THEN 2 ELSE 1
    /\ session = "live" /\ session' = "none" => inEnd = 0 \/ inEnd + outEnd = 1
    /\ stdin' = "closed" => inEnd > 0
=============================================================================
