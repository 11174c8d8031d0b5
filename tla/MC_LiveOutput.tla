----------------------------- MODULE MC_LiveOutput -----------------------------
(* A queue of one chunk, and enough chunks on one stream that a client can lag, *)
(* recover on the chunk that was kept, and lag again.                           *)
EXTENDS LiveOutput

MostlyStdout == [s \in Streams |-> IF s = "stdout" THEN 3 ELSE 1]
OneEach == [s \in Streams |-> 1]
=============================================================================
