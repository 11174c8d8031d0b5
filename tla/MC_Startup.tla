----------------------------- MODULE MC_Startup -----------------------------
(* Two creators of one identifier, each with any of the options.           *)
EXTENDS Startup

EveryMode == {"ordinary", "hardened", "bounded"}
=============================================================================
