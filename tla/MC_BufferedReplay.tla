--------------------------- MODULE MC_BufferedReplay --------------------------
(* Two bytes on one stream and one on the other, read and sent one at a time,  *)
(* and one frame between the sender and its client.                            *)
EXTENDS BufferedReplay

MostlyStdout == [s \in Streams |-> IF s = "stdout" THEN 2 ELSE 1]
OneEach == [s \in Streams |-> 1]
=============================================================================
