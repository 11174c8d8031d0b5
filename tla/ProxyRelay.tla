------------------------------ MODULE ProxyRelay ------------------------------
(***************************************************************************)
(* The proxy between a client's transport and the broker, from the opening *)
(* on (src/src/server.rs, proxy_attachment and relay_streams).  The broker *)
(* is any broker: an older or newer one, or one that answers wrongly.      *)
(*                                                                         *)
(* A byte is its offset in its stream, so a frame is an offset and a       *)
(* length, and what was given to the client shows which bytes they were.   *)
(* Offsets end at Top, where the code's unsigned ones end; a frame beyond  *)
(* it, one of the wrong kind or of a wrong length ends the relay           *)
(* (src/src/protocol.rs).                                                  *)
(***************************************************************************)
EXTENDS Integers, Sequences

CONSTANTS Top,      (* the last offset: u64::MAX *)
          MaxData   (* the largest frame, and the largest read of input *)

ASSUME RelayAssumption == Top \in Nat /\ MaxData \in Nat \ {0}

Streams == {"stdout", "stderr"}
Offsets == 0 .. Top
None == -1

(* The frames of each direction, validate_header and split_offset.         *)
DataFrames == [kind : Streams, offset : Offsets, len : 0 .. MaxData]
Positions == [kind : {"position"}, offset : Offsets]
Exits == [kind : {"exit"}]
Ends == [kind : {"end"}, limit : {"same", "other"}, retained : [Streams -> Offsets]]
Facts == [kind : {"state"}, limit : {"same", "other"}]
Malformed == [kind : {"malformed"}]
Frames == DataFrames \cup Positions \cup Exits \cup Facts \cup Ends \cup Malformed

Fits(f) == f.offset + f.len <= Top

VARIABLES
    mode,       \* raw, framed, or bounded
    start,      \* the offsets of the broker's hello
    eof,        \* the end of input that the client declared, or None
    stopped,    \* hello.stdin_eof
    relay,      \* opening, on, or how it ended
    output,     \* reading, or writing a frame to the client
    hand,       \* that frame
    position,   \* stdout_position, stderr_position
    receipt,    \* stdin_position
    given,      \* the bytes the client was given on each stream
    told,       \* the last frame it was given, if it was Exit or OutputEnd
    fed,        \* the bytes of input that were framed for the broker
    input       \* the position of forward_raw_stdin

opening == <<mode, start, eof, stopped>>
inward == <<fed, input>>
outward == <<output, hand, position, receipt, given, told>>
vars == <<mode, start, eof, stopped, relay, output, hand, position, receipt,
          given, told, fed, input>>

Framed == mode # "raw"
Over == {"exit", "lost", "failed", "refused"}

TypeOK ==
    /\ mode \in {"raw", "framed", "bounded"}
    /\ start \in [Streams \cup {"stdin"} -> Offsets]
    /\ eof \in Offsets \cup {None}
    /\ stopped \in BOOLEAN
    /\ relay \in {"opening", "on"} \cup Over
    /\ output \in {"read", "write"}
    /\ hand \in Frames
    /\ position \in [Streams -> Offsets]
    /\ receipt \in Offsets
    /\ \A s \in Streams : \A i \in DOMAIN given[s] : given[s][i] \in Offsets
    /\ told \in {"nothing", "exit", "end"}
    /\ \A i \in DOMAIN fed : fed[i] \in Offsets
    /\ input \in Offsets

Init ==
    /\ mode \in {"raw", "framed", "bounded"}
    /\ start \in [Streams \cup {"stdin"} -> Offsets]
    /\ eof \in Offsets \cup {None}
    /\ stopped \in BOOLEAN
    /\ relay = "opening" /\ output = "read" /\ hand = [kind |-> "malformed"]
    /\ position = [s \in Streams |-> start[s]]
    /\ receipt = start["stdin"]
    /\ given = [s \in Streams |-> <<>>] /\ told = "nothing"
    /\ fed = <<>> /\ input = start["stdin"]

Ending(how) == relay' = how /\ UNCHANGED <<opening, outward, inward>>

-----------------------------------------------------------------------------
(* proxy_attachment.  A framed client takes no other kind of attachment.   *)
Confirmed(attachment, policy) ==
    Framed => attachment = mode /\ (policy <=> mode = "bounded")

Open ==
    /\ relay = "opening"
    /\ \E attachment \in {"raw", "framed", "bounded"}, policy \in BOOLEAN :
          relay' = IF Confirmed(attachment, policy) THEN "on" ELSE "failed"
    /\ UNCHANGED <<opening, outward, inward>>

(* The broker's error line is passed on; an answer that is no header, or   *)
(* one with invalid facts, is not.                                         *)
OpenRefused ==
    /\ relay = "opening"
    /\ \E how \in {"refused", "failed"} : Ending(how)

-----------------------------------------------------------------------------
(* The output half.                                                        *)
Allowed(f) ==
    CASE f.kind \in Streams -> Fits(f)
      [] f.kind = "position" -> TRUE
      [] f.kind = "exit" -> mode # "bounded"
      [] f.kind \in {"state", "end"} -> mode = "bounded"
      [] OTHER -> FALSE

(* What the framed relay asks of a frame that is well formed.              *)
InPlace(f) ==
    CASE f.kind \in Streams -> f.offset = position[f.kind]
      [] f.kind = "position" -> f.offset >= receipt
      [] f.kind = "state" -> f.limit = "same"
      [] f.kind = "end" -> f.limit = "same" /\ f.retained = position
      [] OTHER -> TRUE

(* write_raw_output                                                        *)
NoGap(f) == f.kind \in Streams => f.offset <= position[f.kind]

\* Mutant: a frame is written whole.
NoSkip(f) == 0

Skip(f) == position[f.kind] - f.offset   \* bytes that the client has already

Useful(f) == f.kind \in Streams /\ Skip(f) < f.len

Begin(f) ==
    /\ relay = "on" /\ output = "read"
    /\ IF Framed
         THEN /\ Allowed(f) /\ InPlace(f)
              /\ hand' = f /\ output' = "write"
              /\ position' = [s \in Streams |->
                                 IF f.kind = s THEN f.offset + f.len ELSE position[s]]
              /\ receipt' = IF f.kind = "position" THEN f.offset ELSE receipt
         ELSE /\ Allowed(f) /\ NoGap(f)
              /\ IF Useful(f) \/ f.kind = "exit"
                   THEN hand' = f /\ output' = "write"
                   ELSE UNCHANGED <<hand, output>>
              /\ UNCHANGED <<position, receipt>>
    /\ UNCHANGED <<opening, relay, given, told, inward>>

Reject(f) ==             \* the relay fails; the client is not told why
    /\ relay = "on" /\ output = "read"
    /\ ~Allowed(f) \/ (Framed /\ ~InPlace(f)) \/ (~Framed /\ ~NoGap(f))
    /\ Ending("failed")

BrokerEnds ==            \* end of the broker's stream
    /\ relay = "on" /\ output = "read"
    /\ Ending("lost")

(* The bytes of the frame in hand that the client does not have yet.       *)
Fresh(f) ==
    LET skip == IF Framed THEN 0 ELSE Skip(f) IN
    [i \in 1 .. f.len - skip |-> f.offset + skip + i - 1]

Give(s, bytes) == given' = [given EXCEPT ![s] = @ \o bytes]

Written ==
    /\ relay = "on" /\ output = "write"
    /\ output' = "read"
    /\ IF hand.kind \in Streams
         THEN /\ Give(hand.kind, Fresh(hand))
              /\ position' = IF Framed THEN position ELSE
                    [position EXCEPT ![hand.kind] = @ + Len(Fresh(hand))]
         ELSE UNCHANGED <<given, position>>
    /\ told' = IF hand.kind \in {"exit", "end"} THEN hand.kind ELSE told
    /\ relay' = IF hand.kind \in {"exit", "end"} THEN "exit" ELSE relay
    /\ UNCHANGED <<opening, hand, receipt, inward>>

(* The write of it is dropped or fails.  A raw client keeps the bytes that *)
(* were written; a framed one has a part of a frame, which is none.        *)
Torn ==
    /\ relay = "on" /\ output = "write"
    /\ relay' = "lost"
    /\ IF ~Framed /\ hand.kind \in Streams
         THEN \E n \in 0 .. Len(Fresh(hand)) : Give(hand.kind, SubSeq(Fresh(hand), 1, n))
         ELSE UNCHANGED given
    /\ UNCHANGED <<opening, output, hand, position, receipt, told, inward>>

-----------------------------------------------------------------------------
(* The input half.  In a raw relay the proxy frames the bytes itself.      *)
Beyond == ~stopped /\ eof # None /\ input > eof
Room == IF eof = None THEN MaxData ELSE eof - input

ForwardRaw(n) ==
    /\ relay = "on" /\ ~Framed /\ ~stopped /\ ~Beyond
    /\ n <= Room
    /\ fed' = fed \o [i \in 1 .. n |-> input + i - 1]
    /\ input + n <= Top
    /\ input' = input + n
    /\ UNCHANGED <<opening, relay, outward>>

Overflows(n) ==          \* offset_payload refuses the frame
    /\ relay = "on" /\ ~Framed /\ ~stopped /\ ~Beyond
    /\ n <= Room /\ input + n > Top
    /\ Ending("failed")

ForwardFails ==          \* the client's end is behind the broker's position
    /\ relay = "on" /\ ~Framed /\ Beyond
    /\ Ending("failed")

(* The client's end, or an error.  A raw relay that has met the declared   *)
(* end, or one that was told of it by the broker, does not look any more.  *)
Looks == Framed \/ (~stopped /\ (eof = None \/ input < eof))

InputEnds ==
    /\ relay = "on" /\ Looks
    /\ \/ output = "read" /\ Ending("lost")
       \/ Torn

-----------------------------------------------------------------------------
Next ==
    \/ Open \/ OpenRefused
    \/ \E f \in Frames : Begin(f) \/ Reject(f)
    \/ BrokerEnds \/ Written \/ Torn
    \/ \E n \in 1 .. MaxData : ForwardRaw(n) \/ Overflows(n)
    \/ ForwardFails \/ InputEnds

Spec == Init /\ [][Next]_vars

-----------------------------------------------------------------------------
From(first, n) == [i \in 1 .. n |-> first + i - 1]

(* Whatever the broker sends, in whatever order and however the relay      *)
(* ends: a client has the bytes from the offset of its hello on, each once *)
(* and none left out, so that the number of bytes it counted is where it   *)
(* resumes; and an end that it is told of speaks of just these bytes.      *)
(* What a raw client typed is framed once, in order, and not past the end  *)
(* that it declared.                                                       *)
Relayed ==
    /\ TypeOK
    /\ \A s \in Streams : given[s] = From(start[s], Len(given[s]))
    /\ told = "end" => \A s \in Streams : hand.retained[s] = start[s] + Len(given[s])
    /\ told # "nothing" <=> relay = "exit"
    /\ fed = From(start["stdin"], Len(fed))
    /\ eof # None /\ fed # <<>> => start["stdin"] + Len(fed) <= eof
=============================================================================
