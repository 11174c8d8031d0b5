---------------------------- MODULE MC_StdinStream ----------------------------
(* Two connections, of which one is displaced by the other and comes back too  *)
(* late.  Two bytes: a frame of both can be written in part, in whole,         *)
(* repeated or skipped.  Two kinds of session: a buffered one that opted in    *)
(* and an ordinary --nobuffer one.                                             *)
EXTENDS StdinStream

(* What an ordinary session records of the wait differs in its name only, so   *)
(* that one of the two will do.                                                *)
Small == recorded' = "exit" => optedIn

SetUp == Init /\ optedIn = ~nobuffer
FairRun ==
    /\ SetUp
    /\ [][Next]_vars
    /\ Fairness
=============================================================================
