--------------------------- MODULE MC_BoundedOutput ---------------------------
(* What each stream may print: more than the limit on one of them, or a        *)
(* little on stdout while stderr only ends or fails.                           *)
EXTENDS BoundedOutput

Both == [s \in Streams |-> 3]
LittleStdout == [s \in Streams |-> IF s = "stdout" THEN 1 ELSE 0]

(* The run with a client, made small.  The control is checked and both pipes   *)
(* are there; a client leaves only before its replay is done, with the reader  *)
(* behind it; stdout is read after stderr has ended or failed; the owner of    *)
(* the cancellation notifies only when it has changed something, which leaves  *)
(* the fewest wakeups to rely on.                                              *)
SetUp == Init /\ verified = TRUE /\ stopped = FALSE
Small ==
    /\ spc # "detached" /\ spc' = "detached" => rpc # "none"
    /\ read' # read => collection["stderr"] # "Reading"
    /\ cpc = "select" => cpc' # "stop"
    /\ cancel' # "failed" \/ finish = "due" \/ cancel = "failed"
    /\ control' # control \/ facts' # facts \/ collector' # collector \/ writers' # writers
       \/ sender' # sender

(* Besides the clock and the tasks, the files answer and the client reads. *)
FairRun ==
    /\ SetUp
    /\ [][Next]_vars
    /\ WF_vars(Clock \/ OwnerExpires) /\ WF_vars(Collector) /\ WF_vars(Worker)
    /\ WF_vars(Storage) /\ WF_vars(Replay) /\ WF_vars(Sender)
=============================================================================
