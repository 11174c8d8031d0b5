------------------------------ MODULE LiveOutput ------------------------------
(***************************************************************************)
(* The output side of a --nobuffer session (src/src/broker.rs): two drain  *)
(* tasks record what the command prints and publish it on bounded          *)
(* broadcast queues; the attached client's sender takes chunks from the    *)
(* queues in turn, sleeps when it finds none, and ends with the command's  *)
(* exit once the metadata is terminal.                                     *)
(*                                                                         *)
(* Offsets count chunks: a drain records and publishes whole chunks, and   *)
(* the hello of a --nobuffer session names an end it has recorded, so no   *)
(* offset falls inside one.  A queue is tokio's broadcast channel, of      *)
(* which a receiver keeps only a cursor: a receiver that is more than the  *)
(* capacity behind is told so once and moved to the oldest chunk kept.     *)
(***************************************************************************)
EXTENDS Integers

CONSTANTS QueueLen,   (* capacity of a broadcast channel (64 in the code)    *)
          MaxChunks   (* how much each stream may print: it bounds the model *)

Streams == {"stdout", "stderr"}

ASSUME LiveAssumption ==
    QueueLen \in Nat \ {0} /\ MaxChunks \in [Streams -> Nat]

Other(s) == IF s = "stdout" THEN "stderr" ELSE "stdout"
Counts == 0 .. (IF MaxChunks["stdout"] < MaxChunks["stderr"]
                THEN MaxChunks["stderr"] ELSE MaxChunks["stdout"])
Chunks == [stream : Streams, offset : Counts, content : Counts]
NoChunk == [stream |-> "stdout", offset |-> 0, content |-> 0]

VARIABLES
    end,       \* Meta.stdout_end, Meta.stderr_end
    closed,    \* Meta.stdout_closed, Meta.stderr_closed
    status,    \* Meta.status is recorded
    drain,     \* where each drain task stands
    waiter,    \* where the wait task stands
    sent,      \* how many chunks were published on each queue
    pc,        \* where the client's sender stands
    cursor,    \* the next chunk of each queue for this client's receiver
    position,  \* stdout_position, stderr_position of the sender
    prefer,    \* prefer_stdout, as the stream it names
    hand,      \* the chunk being written to the client
    armed,     \* the sender's Notified future is enabled
    woken,     \* and has been notified
    start,     \* the offsets of the hello
    expected,  \* client: the offset it expects next on each stream
    got,       \* client: the chunks it has received
    gap        \* client: it has seen an offset it did not expect

command == <<end, closed, status, drain, waiter, sent>>
client == <<start, expected, got, gap>>
vars == <<end, closed, status, drain, waiter, sent, pc, cursor, position,
          prefer, hand, armed, woken, start, expected, got, gap>>

(***************************************************************************)
(* The sender's program counter.                                           *)
(*   detached             no client                                        *)
(*   subscribed           receivers exist, no hello yet                    *)
(*   top                  head of the loop                                 *)
(*   preferred            try_recv of the preferred stream                 *)
(*   stdout, stderr       try_recv of either stream, in that order         *)
(*   enable, check        Notified::enable, then the metadata              *)
(*   select               asleep in select!                                *)
(*   write, exit          awaiting the write of a chunk, of Exit           *)
(*   ended                Exit is sent                                     *)
(***************************************************************************)
PCs == {"detached", "subscribed", "top", "preferred", "stdout", "stderr",
        "enable", "check", "select", "write", "exit", "ended"}
Attached == pc \notin {"detached", "subscribed"}

\* Mutant: the command's exit alone ends the session.
Terminal == status /\ \A s \in Streams : closed[s]

TypeOK ==
    /\ end \in [Streams -> Counts]
    /\ closed \in [Streams -> BOOLEAN]
    /\ status \in BOOLEAN
    /\ drain \in [Streams -> {"reading", "recorded", "notifying", "closing", "done"}]
    /\ waiter \in {"waiting", "notifying", "done"}
    /\ sent \in [Streams -> Counts]
    /\ pc \in PCs
    /\ cursor \in [Streams -> Counts]
    /\ position \in [Streams -> Counts]
    /\ prefer \in Streams
    /\ hand \in Chunks
    /\ armed \in BOOLEAN
    /\ woken \in BOOLEAN
    /\ start \in [Streams -> Counts]
    /\ expected \in [Streams -> Counts]
    /\ got \in [Streams -> SUBSET Counts]
    /\ gap \in BOOLEAN

Zero == [s \in Streams |-> 0]

Init ==
    /\ end = Zero
    /\ closed = [s \in Streams |-> FALSE]
    /\ status = FALSE
    /\ drain = [s \in Streams |-> "reading"]
    /\ waiter = "waiting"
    /\ sent = Zero
    /\ pc = "detached"
    /\ cursor = Zero
    /\ position = Zero
    /\ prefer = "stdout"
    /\ hand = NoChunk
    /\ armed = FALSE
    /\ woken = FALSE
    /\ start = Zero
    /\ expected = Zero
    /\ got = [s \in Streams |-> {}]
    /\ gap = FALSE

-----------------------------------------------------------------------------
(* The command's side: none of its steps waits for a client. *)

(* changed.notify_waiters() wakes the futures that are enabled, no other. *)
NotifyWaiters == woken' = (woken \/ armed)

sender == <<pc, cursor, position, prefer, hand, armed, start, expected, got, gap>>

(* drain_output has read a chunk: the end moves under the metadata lock ... *)
Record(s) ==
    /\ drain[s] = "reading"
    /\ end[s] < MaxChunks[s]
    /\ end' = [end EXCEPT ![s] = @ + 1]
    /\ drain' = [drain EXCEPT ![s] = "recorded"]
    /\ UNCHANGED <<closed, status, waiter, sent, sender, woken>>

(* ... then the chunk is published ... *)
PublishChunk(s) ==
    /\ drain[s] = "recorded"
    /\ sent' = [sent EXCEPT ![s] = @ + 1]
    /\ drain' = [drain EXCEPT ![s] = "notifying"]
    /\ UNCHANGED <<end, closed, status, waiter, sender, woken>>

(* ... then the sleepers are woken. *)
NotifyChunk(s) ==
    /\ drain[s] = "notifying"
    /\ NotifyWaiters
    /\ drain' = [drain EXCEPT ![s] = "reading"]
    /\ UNCHANGED <<end, closed, status, waiter, sent, sender>>

(* End of file or, in an ordinary session, a read error. *)
CloseStream(s) ==
    /\ drain[s] = "reading"
    /\ closed' = [closed EXCEPT ![s] = TRUE]
    /\ drain' = [drain EXCEPT ![s] = "closing"]
    /\ UNCHANGED <<end, status, waiter, sent, sender, woken>>

(* In an opted-in session a read error, and in any session an offset that   *)
(* would overflow, is a failure: the stream is not closed and nobody is     *)
(* told an exit.                                                            *)
FailStream(s) ==
    /\ drain[s] = "reading"
    /\ drain' = [drain EXCEPT ![s] = "closing"]
    /\ UNCHANGED <<end, closed, status, waiter, sent, sender, woken>>

NotifyClosed(s) ==
    /\ drain[s] = "closing"
    /\ NotifyWaiters
    /\ drain' = [drain EXCEPT ![s] = "done"]
    /\ UNCHANGED <<end, closed, status, waiter, sent, sender>>

RecordStatus ==
    /\ waiter = "waiting"
    /\ status' = TRUE
    /\ waiter' = "notifying"
    /\ UNCHANGED <<end, closed, drain, sent, sender, woken>>

NotifyStatus ==
    /\ waiter = "notifying"
    /\ NotifyWaiters
    /\ waiter' = "done"
    /\ UNCHANGED <<end, closed, status, drain, sent, sender>>

-----------------------------------------------------------------------------
(* The client's side. *)

(* attach subscribes to both queues ... *)
Subscribe ==
    /\ pc = "detached"
    /\ pc' = "subscribed"
    /\ cursor' = sent
    /\ UNCHANGED <<command, position, prefer, hand, armed, woken, client>>

(* ... before it takes the snapshot that becomes the hello. *)
Hello ==
    /\ pc = "subscribed"
    /\ pc' = "top"
    /\ position' = end
    /\ prefer' = "stdout"
    /\ start' = end
    /\ expected' = end
    /\ got' = [s \in Streams |-> {}]
    /\ gap' = FALSE
    /\ UNCHANGED <<command, cursor, hand, armed, woken>>

(* The attachment ends where the sender awaits or checks its generation. *)
Detach ==
    /\ pc \in {"subscribed", "top", "select", "write", "exit", "ended"}
    /\ pc' = "detached"
    /\ cursor' = Zero
    /\ position' = Zero
    /\ prefer' = "stdout"
    /\ hand' = NoChunk
    /\ armed' = FALSE
    /\ woken' = FALSE
    /\ start' = Zero
    /\ expected' = Zero
    /\ got' = [s \in Streams |-> {}]
    /\ gap' = FALSE
    /\ UNCHANGED command

(* The head of the loop also sends a coalesced stdin receipt. *)
Top ==
    /\ pc = "top"
    /\ pc' = "preferred"
    /\ UNCHANGED <<command, cursor, position, prefer, hand, armed, woken, client>>

(* tokio::sync::broadcast: empty, lagged, or the chunk at the cursor. *)
Empty(s) == cursor[s] = sent[s]
Lagged(s) == sent[s] - cursor[s] > QueueLen
Oldest(s) == sent[s] - QueueLen

\* Mutant: off by one at the hello's offset.
Covered_Through(s, content) == content <= position[s]

(* Chunks published after the subscription and counted in the hello. *)
Covered(s, content) == content < position[s]

\* Mutants: the frame is numbered by the sender's own count; by the chunk's end.
(* send_live_chunk drops what the hello already covered and otherwise       *)
(* writes the chunk at its own offset.                                      *)
Framed(s, content) == [stream |-> s, offset |-> content, content |-> content]

Deliver(s, next) ==
    LET content == cursor[s] IN
    /\ ~Empty(s)
    /\ ~Lagged(s)
    /\ cursor' = [cursor EXCEPT ![s] = @ + 1]
    /\ IF Covered(s, content)
       THEN pc' = next /\ UNCHANGED <<position, hand>>
       ELSE /\ pc' = "write"
            /\ position' = [position EXCEPT ![s] = content]
            /\ hand' = Framed(s, content)

(* A lagged receiver returns an error, which the sender ignores, and goes   *)
(* on from the oldest chunk kept.                                           *)
SkipLag(s, next) ==
    /\ Lagged(s)
    /\ cursor' = [cursor EXCEPT ![s] = Oldest(s)]
    /\ pc' = next
    /\ UNCHANGED <<position, prefer, hand>>

FindEmpty(s, next) ==
    /\ Empty(s)
    /\ pc' = next
    /\ UNCHANGED <<cursor, position, prefer, hand>>

(* try_recv, in the order preferred, stdout, stderr; a chunk taken makes    *)
(* the other stream the preferred one.                                      *)
TryRecv(at, s, next) ==
    /\ pc = at
    /\ \/ Deliver(s, "top") /\ prefer' = Other(s)
       \/ SkipLag(s, next)
       \/ FindEmpty(s, next)
    /\ UNCHANGED <<command, armed, woken, client>>

TryPreferred == TryRecv("preferred", prefer, "stdout")
TryStdout == TryRecv("stdout", "stdout", "stderr")
TryStderr == TryRecv("stderr", "stderr", "enable")

(* The write of the frame completes: a client that keeps the contract       *)
(* compares the frame's offset with the one it expects.                     *)
Written ==
    LET s == hand.stream IN
    /\ pc = "write"
    /\ pc' = "top"
    /\ position' = [position EXCEPT ![s] = @ + 1]
    /\ got' = [got EXCEPT ![s] = @ \cup {hand.content}]
    /\ gap' = (gap \/ hand.offset # expected[s])
    /\ expected' = [expected EXCEPT ![s] = hand.offset + 1]
    /\ hand' = NoChunk
    /\ UNCHANGED <<command, cursor, prefer, armed, woken, start>>

\* Mutant: the future is not enabled until select! polls it.
Enable_Late ==
    /\ pc = "enable"
    /\ pc' = "check"
    /\ UNCHANGED <<command, cursor, position, prefer, hand, armed, woken, client>>

(* The future is enabled before the metadata is read, so that a change in   *)
(* between is not slept through.                                            *)
Enable ==
    /\ pc = "enable"
    /\ armed' = TRUE
    /\ woken' = FALSE
    /\ pc' = "check"
    /\ UNCHANGED <<command, cursor, position, prefer, hand, client>>

Check ==
    /\ pc = "check"
    /\ pc' = IF Terminal THEN "exit" ELSE "select"
    /\ UNCHANGED <<command, cursor, position, prefer, hand, armed, woken, client>>

(* select!: a notification or a receipt, a chunk, or the news of a lag. *)
Wake ==
    /\ pc = "select"
    /\ woken
    /\ pc' = "top"
    /\ armed' = FALSE
    /\ woken' = FALSE
    /\ UNCHANGED <<command, cursor, position, prefer, hand, client>>

WakeForReceipt ==
    /\ pc = "select"
    /\ pc' = "top"
    /\ armed' = FALSE
    /\ woken' = FALSE
    /\ UNCHANGED <<command, cursor, position, prefer, hand, client>>

Recv(s) ==
    /\ pc = "select"
    /\ \/ Deliver(s, "top") /\ UNCHANGED prefer
       \/ SkipLag(s, "top")
    /\ armed' = FALSE
    /\ woken' = FALSE
    /\ UNCHANGED <<command, client>>

SendExit ==
    /\ pc = "exit"
    /\ pc' = "ended"
    /\ armed' = FALSE
    /\ woken' = FALSE
    /\ UNCHANGED <<command, cursor, position, prefer, hand, client>>

-----------------------------------------------------------------------------
Command ==
    \/ \E s \in Streams : \/ Record(s) \/ PublishChunk(s) \/ NotifyChunk(s)
                          \/ CloseStream(s) \/ FailStream(s) \/ NotifyClosed(s)
    \/ RecordStatus
    \/ NotifyStatus

Send ==
    \/ Top \/ TryPreferred \/ TryStdout \/ TryStderr \/ Written
    \/ Enable \/ Check \/ Wake \/ (\E s \in Streams : Recv(s)) \/ SendExit

Next == Command \/ Send \/ WakeForReceipt \/ Subscribe \/ Hello \/ Detach

Spec == Init /\ [][Next]_vars

(* Tasks that can run are run, and the client keeps reading.  The command   *)
(* need neither print nor exit, and clients need not come.                  *)
FairSpec ==
    /\ Spec
    /\ WF_vars(Send)
    /\ WF_vars(NotifyStatus)
    /\ \A s \in Streams : /\ WF_vars(PublishChunk(s))
                          /\ WF_vars(NotifyChunk(s))
                          /\ WF_vars(NotifyClosed(s))

-----------------------------------------------------------------------------
(* Properties. *)

(* Between the hello and the queue nothing falls through: every chunk the   *)
(* hello does not cover was received, is in hand, is still ahead of the     *)
(* cursor, or was pushed out of the queue by QueueLen newer ones.           *)
Accounted ==
    Attached => \A s \in Streams : \A i \in start[s] .. (sent[s] - 1) :
        \/ i \in got[s]
        \/ hand.stream = s /\ hand.content = i /\ pc = "write"
        \/ i >= cursor[s]
        \/ i < Oldest(s)

(* While a client has seen no gap it has exactly the chunks from the hello  *)
(* to the offset it expects: a lag shows as an offset, never as bytes that  *)
(* are skipped or repeated.                                                 *)
GapsVisible ==
    Attached /\ ~gap => \A s \in Streams : got[s] = start[s] .. (expected[s] - 1)

(* Exit is announced only when nothing more will be recorded or published,  *)
(* so the stream a client has seen the end of does not grow any more.       *)
ExitFinal ==
    pc \in {"exit", "ended"} =>
        /\ Terminal
        /\ \A s \in Streams : sent[s] = end[s] /\ drain[s] \in {"closing", "done"}

(* What a client of the live output can rely on, with the types: all but    *)
(* what fell out of the queue is on its way to it, what fell out shows, and *)
(* the end is the end (broker.rs send_live_output).                         *)
Reliable == TypeOK /\ Accounted /\ GapsVisible /\ ExitFinal

(* A sender never sleeps through the end of the session: a client that      *)
(* stays is told the exit, although wake-ups are not remembered for a       *)
(* future that is not yet enabled.                                          *)
ExitReached == (Attached /\ Terminal) ~> (pc \in {"ended", "detached"})

(* src/src/broker.rs:1311, where Exit is sent: "Any missing bytes have      *)
(* already fallen out of the live queue."                                   *)
MissingFellOut ==
    pc = "ended" => \A s \in Streams : \A i \in start[s] .. (end[s] - 1) :
        i \in got[s] \/ i < Oldest(s)
=============================================================================
