------------------------------ MODULE OutputLog ------------------------------
(***************************************************************************)
(* What a buffered session promises about its output: the broker keeps     *)
(* everything that the command printed on either stream, a client that     *)
(* attaches is given it from the beginning or from where it stopped, and   *)
(* learns of the command's exit when it has all of it.                     *)
(***************************************************************************)
EXTENDS Integers, SequencesExt

CONSTANT Streams

VARIABLES
    log,         \* what was printed on each stream, so far
    ended,       \* no more will come
    status,      \* the command has exited
    delivered,   \* what the client has of each stream
    told         \* the client was told of the exit

vars == <<log, ended, status, delivered, told>>

Nothing == [s \in Streams |-> <<>>]

Init ==
    /\ log = Nothing
    /\ ended = [s \in Streams |-> FALSE]
    /\ status = FALSE
    /\ delivered = Nothing
    /\ told = FALSE

Grow(s) ==
    /\ ~ended[s]
    /\ IsStrictPrefix(log[s], log'[s])
    /\ \A t \in Streams \ {s} : log'[t] = log[t]
    /\ UNCHANGED <<ended, status, delivered, told>>

Close(s) ==
    /\ ended' = [ended EXCEPT ![s] = TRUE]
    /\ UNCHANGED <<log, status, delivered, told>>

Exit ==
    /\ status' = TRUE
    /\ UNCHANGED <<log, ended, delivered, told>>

Deliver(s) ==
    /\ \E n \in Len(delivered[s]) + 1 .. Len(log[s]) :
          delivered' = [delivered EXCEPT ![s] = SubSeq(log[s], 1, n)]
    /\ UNCHANGED <<log, ended, status, told>>

Tell ==
    /\ status /\ \A s \in Streams : ended[s]
    /\ delivered = log
    /\ told' = TRUE
    /\ UNCHANGED <<log, ended, status, delivered>>

Restart ==               \* a client that has nothing yet
    /\ delivered' = Nothing
    /\ told' = FALSE
    /\ UNCHANGED <<log, ended, status>>

Next ==
    \/ \E s \in Streams : Grow(s) \/ Close(s) \/ Deliver(s)
    \/ Exit \/ Tell \/ Restart

Spec == Init /\ [][Next]_vars
=============================================================================
