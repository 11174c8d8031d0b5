------------------------------ MODULE InputPipe ------------------------------
(***************************************************************************)
(* What a broker promises about its command's standard input, without      *)
(* connections, generations or locks: a stream of numbered bytes that is   *)
(* delivered in order, each byte at most once, up to an end that is        *)
(* declared once and then closes it.  StdinStream implements it.           *)
(***************************************************************************)
EXTENDS Integers

CONSTANT MaxPos   (* the largest offset *)

VARIABLES gaps,       \* may a client skip bytes (a --nobuffer session)?
          at,         \* bytes below it are delivered or, with gaps, given up
          eof,        \* the declared end, -1 before it is declared
          open,       \* the command can still be written to
          delivered   \* how often each byte was delivered

pipe == <<gaps, at, eof, open, delivered>>

Offsets == 0 .. MaxPos
Within(to, end) == end = -1 \/ to <= end

Init ==
    /\ gaps \in BOOLEAN
    /\ at = 0
    /\ eof = -1
    /\ open \in BOOLEAN           \* there may be no pipe at all
    /\ delivered = [b \in 0 .. (MaxPos - 1) |-> 0]

(* The command is given the bytes [from, to). *)
Deliver(from, to) ==
    /\ open
    /\ from = at \/ (gaps /\ from > at)
    /\ from < to
    /\ Within(to, eof)
    /\ at' = to
    /\ open' = (to # eof)
    /\ delivered' = [b \in 0 .. (MaxPos - 1) |->
                        IF from <= b /\ b < to THEN delivered[b] + 1 ELSE delivered[b]]
    /\ UNCHANGED <<gaps, eof>>

(* A client resumes at an offset, declares the end, or both. *)
Announce(to, end) ==
    /\ to = at \/ (gaps /\ to > at)
    /\ eof \in {-1, end}
    /\ Within(to, end)
    /\ at' = to
    /\ eof' = end
    /\ open' = (open /\ to # end)
    /\ UNCHANGED <<gaps, delivered>>

(* The command is gone, or cannot be waited for. *)
Exit ==
    /\ open
    /\ open' = FALSE
    /\ UNCHANGED <<gaps, at, eof, delivered>>

Next ==
    \/ \E from, to \in Offsets : Deliver(from, to)
    \/ \E to \in Offsets, end \in Offsets \cup {-1} : Announce(to, end)
    \/ Exit

Spec == Init /\ [][Next]_pipe
=============================================================================
