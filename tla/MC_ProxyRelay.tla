---------------------------- MODULE MC_ProxyRelay -----------------------------
(* Short streams, for TLC.                                                 *)
EXTENDS ProxyRelay
=============================================================================
