-------------------------- MODULE MC_SessionLifetime --------------------------
(* Two connections, and a TTL long enough to be restarted in the middle.     *)
EXTENDS SessionLifetime
=============================================================================
