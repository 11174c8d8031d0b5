--------------------------- MODULE MC_LegacyCancel ----------------------------
(* Two requests at once, a leader and two other processes.                     *)
EXTENDS LegacyCancel
=============================================================================
