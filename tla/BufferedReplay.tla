---------------------------- MODULE BufferedReplay ----------------------------
(***************************************************************************)
(* The output side of a buffered session (src/src/broker.rs): two drain    *)
(* tasks append what the command prints to a spool file and then record    *)
(* the new end; the sender of an attachment replays the files up to the    *)
(* recorded ends, sleeps when it has caught up, and ends with the exit.    *)
(*                                                                         *)
(* A client keeps what it received when its transport breaks, and resumes  *)
(* behind it; what was on the wire is lost.  A displaced sender writes to  *)
(* its own client's socket only, so the sender of the attachment that is   *)
(* current is the one modelled.  Receipts of input share its loop: here    *)
(* they only wake it.                                                      *)
(***************************************************************************)
EXTENDS Integers, SequencesExt

CONSTANTS MaxBytes,    (* how much each stream may print: it bounds the model *)
          ChunkSize,   (* CHUNK_SIZE *)
          WireLen      (* frames that fit between the sender and its client *)

Streams == {"stdout", "stderr"}
Other(s) == IF s = "stdout" THEN "stderr" ELSE "stdout"

ASSUME ReplayAssumption ==
    /\ MaxBytes \in [Streams -> Nat]
    /\ ChunkSize \in Nat \ {0} /\ WireLen \in Nat \ {0}

Counts == 0 .. Max({MaxBytes[s] : s \in Streams})

VARIABLES
    printed,    \* how much the command printed on each stream: bytes 1, 2, ...
    held,       \* it, or a descendant, holds the stream open
    taken,      \* how much of it the drain has read
    file,       \* the spool files
    end,        \* Meta.stdout_end, Meta.stderr_end
    closed,     \* Meta.stdout_closed, Meta.stderr_closed
    status,     \* Meta.status is recorded
    drain,      \* where each drain task stands
    waiter,     \* where the wait task stands
    pc,         \* where the sender stands
    position,   \* stdout_position, stderr_position
    prefer,     \* prefer_stdout, as the stream it names
    seen,       \* the sender's snapshot of the metadata
    hand,       \* the frame it is writing
    armed,      \* its Notified future is enabled
    woken,      \* and has been notified
    wire,       \* frames on their way to the client
    got,        \* what the client has of each stream
    told,       \* it has received Exit
    cut         \* history: a read of a pipe failed

source == <<printed, held>>
record == <<file, end, closed, status>>
tasks == <<taken, drain, waiter>>
sender == <<pc, position, prefer, seen, hand>>
client == <<wire, got, told>>
vars == <<printed, held, taken, file, end, closed, status, drain, waiter, pc,
          position, prefer, seen, hand, armed, woken, wire, got, told, cut>>

Texts == UNION {[1 .. n -> Counts \ {0}] : n \in Counts}
Data(s, o, d) == [kind |-> s, offset |-> o, data |-> d]
Exit == [kind |-> "exit", offset |-> 0, data |-> <<>>]
Frames == [kind : Streams \cup {"exit"}, offset : Counts, data : Texts]

TypeOK ==
    /\ printed \in [Streams -> Counts]
    /\ held \in [Streams -> BOOLEAN]
    /\ taken \in [Streams -> Counts]
    /\ file \in [Streams -> Texts]
    /\ end \in [Streams -> Counts]
    /\ closed \in [Streams -> BOOLEAN]
    /\ status \in BOOLEAN
    /\ drain \in [Streams -> {"open", "read", "write", "flushed", "notify", "done"}]
    /\ waiter \in {"waiting", "notify", "done"}
    /\ pc \in {"none", "top", "look", "decide", "write", "select", "ended", "failed"}
    /\ position \in [Streams -> Counts]
    /\ prefer \in Streams
    /\ seen \in [end : [Streams -> Counts], terminal : BOOLEAN]
    /\ hand \in Frames
    /\ armed \in BOOLEAN
    /\ woken \in BOOLEAN
    /\ Len(wire) <= WireLen /\ \A i \in DOMAIN wire : wire[i] \in Frames
    /\ got \in [Streams -> Texts]
    /\ told \in BOOLEAN
    /\ cut \in BOOLEAN

Zero == [s \in Streams |-> 0]
Nothing == [s \in Streams |-> <<>>]

Init ==
    /\ printed = Zero /\ held = [s \in Streams |-> TRUE]
    /\ taken = Zero /\ file = Nothing /\ end = Zero
    /\ closed = [s \in Streams |-> FALSE] /\ status = FALSE
    /\ drain = [s \in Streams |-> "open"] /\ waiter = "waiting"
    /\ pc = "none" /\ position = Zero /\ prefer = "stdout"
    /\ seen = [end |-> Zero, terminal |-> FALSE] /\ hand = Exit
    /\ armed = FALSE /\ woken = FALSE
    /\ wire = <<>> /\ got = Nothing /\ told = FALSE /\ cut = FALSE

-----------------------------------------------------------------------------
(* The command and what it left running.                                   *)
Write(s) ==
    /\ held[s] /\ printed[s] < MaxBytes[s]
    /\ printed' = [printed EXCEPT ![s] = @ + 1]
    /\ UNCHANGED <<held, record, tasks, sender, armed, woken, client, cut>>

Release(s) ==
    /\ held[s]
    /\ held' = [held EXCEPT ![s] = FALSE]
    /\ UNCHANGED <<printed, record, tasks, sender, armed, woken, client, cut>>

(* The wait task.                                                          *)
NotifyWaiters == woken' = (woken \/ armed)
Still == UNCHANGED <<armed, woken>>

RecordStatus ==
    /\ waiter = "waiting"
    /\ status' = TRUE /\ waiter' = "notify"
    /\ UNCHANGED <<source, taken, file, end, closed, drain, sender, client, cut>>
    /\ Still

NotifyStatus ==
    /\ waiter = "notify"
    /\ waiter' = "done" /\ NotifyWaiters
    /\ UNCHANGED <<source, taken, drain, record, sender, armed, client, cut>>

-----------------------------------------------------------------------------
(* drain_output                                                            *)
DrainTo(s, place) ==
    /\ drain' = [drain EXCEPT ![s] = place]
    /\ UNCHANGED <<source, waiter, status, sender, armed, client>>

OpenSpool(s) ==
    /\ drain[s] = "open"
    /\ DrainTo(s, "read")
    /\ UNCHANGED <<taken, file, end, closed, woken, cut>>

OpenFails(s) ==
    /\ drain[s] = "open"
    /\ DrainTo(s, "done")
    /\ UNCHANGED <<taken, file, end, closed, woken, cut>>

Take(s) ==               \* as much as a buffer holds
    /\ drain[s] = "read" /\ taken[s] < printed[s]
    /\ taken' = [taken EXCEPT ![s] = Min({printed[s], @ + ChunkSize})]
    /\ DrainTo(s, "write")
    /\ UNCHANGED <<file, end, closed, woken, cut>>

Spooled(s, n) == [file EXCEPT ![s] = [i \in 1 .. n |-> i]]

WriteSpool(s) ==         \* write_all and flush
    /\ drain[s] = "write"
    /\ file' = Spooled(s, taken[s])
    /\ DrainTo(s, "flushed")
    /\ UNCHANGED <<taken, end, closed, woken, cut>>

\* Mutant: a failed write counts as the end of the stream.
WriteFailsCloses(s) ==
    /\ drain[s] = "write"
    /\ \E n \in end[s] .. taken[s] : file' = Spooled(s, n)
    /\ closed' = [closed EXCEPT ![s] = TRUE]
    /\ DrainTo(s, "notify")
    /\ UNCHANGED <<taken, end, woken, cut>>

WriteFails(s) ==         \* a part may be in the file; nobody is told
    /\ drain[s] = "write"
    /\ \E n \in end[s] .. taken[s] : file' = Spooled(s, n)
    /\ DrainTo(s, "done")
    /\ UNCHANGED <<taken, end, closed, woken, cut>>

Publish(s) ==
    /\ drain[s] = "flushed"
    /\ end' = [end EXCEPT ![s] = taken[s]]
    /\ DrainTo(s, "notify")
    /\ UNCHANGED <<taken, file, closed, woken, cut>>

EndOfFile(s) == ~held[s] /\ taken[s] = printed[s]

CloseStream(s) ==        \* end of file, or an error in an ordinary session
    /\ drain[s] = "read"
    /\ closed' = [closed EXCEPT ![s] = TRUE]
    /\ cut' = (cut \/ ~EndOfFile(s))
    /\ DrainTo(s, "notify")
    /\ UNCHANGED <<taken, file, end, woken>>

ReadFails(s) ==          \* in an opted-in session: Meta.failure, and a notification
    /\ drain[s] = "read"
    /\ cut' = TRUE
    /\ drain' = [drain EXCEPT ![s] = "done"] /\ NotifyWaiters
    /\ UNCHANGED <<source, waiter, status, sender, armed, client>>
    /\ UNCHANGED <<taken, file, end, closed>>

NotifyDrain(s) ==
    /\ drain[s] = "notify"
    /\ drain' = [drain EXCEPT ![s] = IF closed[s] THEN "done" ELSE "read"]
    /\ NotifyWaiters
    /\ UNCHANGED <<source, waiter, status, sender, armed, client>>
    /\ UNCHANGED <<taken, file, end, closed, cut>>

-----------------------------------------------------------------------------
(* The client's attachment.                                                *)
broker == <<source, record, tasks>>

Attach(have) ==          \* the offsets it asks for are not ahead of the stream
    /\ pc = "none"
    /\ \A s \in Streams : Len(have[s]) <= end[s]
    /\ position' = [s \in Streams |-> Len(have[s])]
    /\ prefer' = "stdout"
    /\ pc' = "top"
    /\ got' = have /\ told' = FALSE
    /\ UNCHANGED <<broker, seen, hand, armed, woken, wire, cut>>

Resume == ~told /\ Attach(got)
Fresh == Attach(Nothing)     \* another client, or one that kept nothing

Detach ==                \* the transport breaks, or a takeover
    /\ pc # "none"
    /\ pc' = "none" /\ wire' = <<>>
    /\ hand' = Exit /\ seen' = [end |-> Zero, terminal |-> FALSE]
    /\ armed' = FALSE /\ woken' = FALSE
    /\ UNCHANGED <<broker, position, prefer, got, told, cut>>

Receive ==
    /\ wire # <<>>
    /\ LET f == Head(wire) IN
          /\ got' = IF f.kind = "exit" THEN got
                    ELSE [got EXCEPT ![f.kind] = SubSeq(@, 1, f.offset) \o f.data]
          /\ told' = (f.kind = "exit")
    /\ wire' = Tail(wire)
    /\ UNCHANGED <<broker, sender, armed, woken, cut>>

-----------------------------------------------------------------------------
(* send_buffered_output                                                    *)
Turn(from, to) ==
    /\ pc = from /\ pc' = to
    /\ UNCHANGED <<broker, got, told, cut>>

\* Mutant: the future is first polled in select!.
EnableLate ==
    /\ Turn("top", "look")
    /\ armed' = FALSE /\ woken' = FALSE
    /\ UNCHANGED <<position, prefer, seen, hand, wire>>

Enable ==
    /\ Turn("top", "look")
    /\ armed' = TRUE /\ woken' = FALSE
    /\ UNCHANGED <<position, prefer, seen, hand, wire>>

Terminal == status /\ \A s \in Streams : closed[s]

Look ==
    /\ Turn("look", "decide")
    /\ seen' = [end |-> end, terminal |-> Terminal]
    /\ UNCHANGED <<position, prefer, hand, armed, woken, wire>>

Ready(s) == position[s] < seen.end[s]
Served(s) == Ready(s) /\ (prefer = s \/ ~Ready(Other(s)))

(* read_at: of the open file, up to the recorded end.                      *)
ReadAt(s) ==
    SubSeq(file[s], position[s] + 1, Min({seen.end[s], position[s] + ChunkSize}))

Read(s) ==               \* it fails when the file ends before its recorded position
    /\ Served(s)
    /\ Turn("decide", IF ReadAt(s) = <<>> THEN "failed" ELSE "write")
    /\ hand' = Data(s, position[s], ReadAt(s))
    /\ UNCHANGED <<position, prefer, seen, armed, woken, wire>>

CaughtUp == \A s \in Streams : ~Ready(s)

\* Mutant: asked of the metadata, not of the snapshot.
ExitDueNow == Terminal

ExitDue == seen.terminal

Finish ==
    /\ CaughtUp /\ ExitDue
    /\ Turn("decide", "write")
    /\ hand' = Exit
    /\ UNCHANGED <<position, prefer, seen, armed, woken, wire>>

Sleep ==
    /\ CaughtUp /\ ~ExitDue
    /\ Turn("decide", "select")
    /\ armed' = TRUE
    /\ UNCHANGED <<position, prefer, seen, hand, woken, wire>>

WriteFrame ==
    /\ Len(wire) < WireLen
    /\ wire' = Append(wire, hand)
    /\ IF hand.kind = "exit"
         THEN /\ Turn("write", "ended")
              /\ UNCHANGED <<position, prefer>>
         ELSE /\ Turn("write", "top")
              /\ position' = [position EXCEPT ![hand.kind] = @ + Len(hand.data)]
              /\ prefer' = Other(hand.kind)
    /\ UNCHANGED <<seen, hand, armed, woken>>

Wake ==
    /\ woken /\ Turn("select", "top")
    /\ UNCHANGED <<position, prefer, seen, hand, armed, woken, wire>>

ReceiptWakes ==
    /\ Turn("select", "top")
    /\ UNCHANGED <<position, prefer, seen, hand, armed, woken, wire>>

-----------------------------------------------------------------------------
Drain(s) ==
    \/ OpenSpool(s) \/ OpenFails(s) \/ Take(s) \/ WriteSpool(s) \/ WriteFails(s)
    \/ Publish(s) \/ CloseStream(s) \/ ReadFails(s) \/ NotifyDrain(s)

Sender ==
    \/ Enable \/ Look \/ Finish \/ Sleep \/ WriteFrame \/ Wake
    \/ \E s \in Streams : Read(s)

Next ==
    \/ \E s \in Streams : Write(s) \/ Release(s) \/ Drain(s)
    \/ RecordStatus \/ NotifyStatus
    \/ Resume \/ Fresh \/ Detach \/ Receive
    \/ Sender \/ ReceiptWakes

Spec == Init /\ [][Next]_vars

(* The broker's tasks run, and a client that stays takes what is sent.     *)
FairSpec ==
    /\ Spec
    /\ \A s \in Streams : WF_vars(Drain(s))
    /\ WF_vars(NotifyStatus) /\ WF_vars(Sender) /\ WF_vars(Receive)

-----------------------------------------------------------------------------
(* What is recorded can be replayed: the files hold it, so no sender ends  *)
(* with an error; an offset that a client resumes at is never ahead; and   *)
(* with Exit the client has all that the command printed, unless a read    *)
(* of the pipe failed.  A write that failed does not cut it short.         *)
Replayable ==
    /\ TypeOK
    /\ \A s \in Streams : Len(file[s]) >= end[s]
    /\ pc # "failed"
    /\ \A s \in Streams : Len(got[s]) <= end[s]
    /\ told /\ ~cut => \A s \in Streams : Len(got[s]) = printed[s]

(* A client is given the log of each stream, and the exit behind it.       *)
Recorded == [s \in Streams |-> SubSeq(file[s], 1, end[s])]
Log == INSTANCE OutputLog WITH log <- Recorded, ended <- closed, delivered <- got
ImplementsLog == Log!Spec

(* When nobody holds the streams open and the exit is known, a client that *)
(* is attached is told of it or loses its transport: no wake-up is lost.   *)
(* Only a drain that stopped on an error, which it tells no one of, leaves *)
(* the client waiting (drain_output).                                      *)
Abandoned(s) == drain[s] = "done" /\ ~closed[s]
ExitTold ==
    status /\ (\A s \in Streams : ~held[s]) /\ pc # "none"
        ~> told \/ pc = "none" \/ \E s \in Streams : Abandoned(s)
=============================================================================
