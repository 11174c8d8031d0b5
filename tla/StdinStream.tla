----------------------------- MODULE StdinStream -----------------------------
(***************************************************************************)
(* The standard-input side of a pipekeep broker (src/src/broker.rs): which *)
(* connection holds the attachment, and what its frames, its opening       *)
(* request and the generation-free EOF control do to the one stream that   *)
(* is written to the command.                                              *)
(*                                                                         *)
(* Three locks guard that state.  child_stdin is a tokio Mutex held across *)
(* awaits, so its holder is a variable here; attachment and meta are std   *)
(* mutexes never held across an await, so each of their critical sections  *)
(* is one atomic step.  A connection is a task: a step of the module is    *)
(* what the task does between two points where another task may run.  A    *)
(* connection can only be dropped where its future awaits.                 *)
(***************************************************************************)
EXTENDS Integers

CONSTANTS
    Conns,     (* connections that ask for the attachment; a slot is reused  *)
    NoConn,    (* "nobody holds child_stdin"                                 *)
    MaxPos,    (* the largest stream offset: it plays u64::MAX               *)
    MaxLen,    (* the longest data frame                                     *)
    MaxGen     (* where next_generation cannot be incremented: u64::MAX      *)

ASSUME ConstantsAssumption ==
    /\ NoConn \notin Conns
    /\ MaxPos \in Nat
    /\ MaxLen \in Nat
    /\ MaxGen \in Nat \ {0}

Positions == 0 .. MaxPos
Bytes == 0 .. (MaxPos - 1)         \* byte b lies between offsets b and b + 1
Undeclared == -1                   \* stdin_eof_at = None
NoGen == 0                         \* attachment.current = None; generations start at 1
Frames == [offset : Positions, len : 0 .. MaxLen]
EmptyFrame == [offset |-> 0, len |-> 0]

VARIABLES
    nextGen,     \* AttachmentState.next_generation
    current,     \* AttachmentState.current: the generation in the slot
    position,    \* Meta.stdin_position
    eofReached,  \* Meta.stdin_eof
    eofAt,       \* Meta.stdin_eof_at
    stdinOpen,   \* Shared.child_stdin holds Some
    lock,        \* the task holding Shared.child_stdin
    recorded,    \* what the wait task has recorded: nothing, Meta.status (an exit,
                 \* or one that is assumed) or Meta.failure
    nobuffer,    \* the session's --nobuffer flag: gaps in stdin are allowed
    optedIn,     \* the session was created with group pidfds
    piped,       \* the stdin pipe could be set up
    pc,          \* where each connection's task stands
    gen,         \* AttachmentLease.generation of each connection
    cancel,      \* the value of each connection's lease.cancel
    frame,       \* the input frame the connection is working on
    ack,         \* the receipt each connection's client has been promised
    receipt,     \* the position a connection is about to publish
    times,       \* history: how often each byte was written to the command
    by           \* history: the generation that wrote each byte

authority == <<nextGen, current, cancel, gen>>
stream == <<position, eofReached, eofAt, stdinOpen>>
session == <<nobuffer, optedIn, piped>>    \* fixed when it is created
ending == <<recorded, session>>
history == <<times, by>>
vars == <<nextGen, current, position, eofReached, eofAt, stdinOpen, lock,
          recorded, nobuffer, optedIn, piped, pc, gen, cancel, frame, ack, receipt,
          times, by>>

(***************************************************************************)
(* Where a connection's task can stand.                                    *)
(*   closed     no task                                                    *)
(*   installed  holds a lease, offsets not yet checked                     *)
(*   opening    in apply_opening_stdin, waiting for child_stdin            *)
(*   opened     apply_opening_stdin returned Ok                            *)
(*   hello      the hello is built and not yet sent                        *)
(*   reading    in read_frame                                              *)
(*   data, eof  a frame is decoded, waiting for child_stdin                *)
(*   writing    holds child_stdin, between two polls of the write          *)
(*   acking     Wrote: the receipt is not published, more may follow       *)
(*   settling   the receipt is not published, the frame is finished        *)
(*   failing    the opening failed, fail_opening has not run               *)
(*   leaving    only the AttachmentGuard is left to drop                   *)
(***************************************************************************)
PCs == {"closed", "installed", "opening", "opened", "hello", "reading",
        "data", "eof", "writing", "acking", "settling", "failing", "leaving"}
Selecting == {"reading", "data", "eof", "writing"}   \* awaiting inside select!
Holding == {"writing", "acking", "settling"}         \* owning the stdin guard

IsCurrent(c) == gen[c] = current

TypeOK ==
    /\ nextGen \in 1 .. MaxGen
    /\ current \in 0 .. MaxGen
    /\ position \in Positions
    /\ eofReached \in BOOLEAN
    /\ eofAt \in Positions \cup {Undeclared}
    /\ stdinOpen \in BOOLEAN
    /\ lock \in Conns \cup {NoConn}
    /\ recorded \in {"nothing", "exit", "assumed", "failure"}
    /\ nobuffer \in BOOLEAN /\ optedIn \in BOOLEAN /\ piped \in BOOLEAN
    /\ pc \in [Conns -> PCs]
    /\ gen \in [Conns -> 0 .. MaxGen]
    /\ cancel \in [Conns -> BOOLEAN]
    /\ frame \in [Conns -> Frames]
    /\ ack \in [Conns -> Positions]
    /\ receipt \in [Conns -> Positions]
    /\ times \in [Bytes -> Nat]
    /\ by \in [Bytes -> 0 .. MaxGen]

Init ==
    /\ nextGen = 1
    /\ current = NoGen
    /\ position = 0
    /\ eofReached = FALSE
    /\ eofAt = Undeclared
    /\ nobuffer \in BOOLEAN /\ optedIn \in BOOLEAN
    /\ piped \in BOOLEAN /\ (~piped => optedIn)
    /\ stdinOpen = piped
    /\ lock = NoConn
    /\ recorded = "nothing"
    /\ pc = [c \in Conns |-> "closed"]
    /\ gen = [c \in Conns |-> NoGen]
    /\ cancel = [c \in Conns |-> FALSE]
    /\ frame = [c \in Conns |-> EmptyFrame]
    /\ ack = [c \in Conns |-> 0]
    /\ receipt = [c \in Conns |-> 0]
    /\ times = [b \in Bytes |-> 0]
    /\ by = [b \in Bytes |-> NoGen]

Goto(c, l) == pc' = [pc EXCEPT ![c] = l]
FrameDone(c) == frame' = [frame EXCEPT ![c] = EmptyFrame]

-----------------------------------------------------------------------------
(* Attachment authority. *)

\* Mutant: the displaced client is not told.
Displaced_Untold(d) == FALSE

(* previous.cancel.send_replace(true) reaches the lease in the slot. *)
Displaced(d) == current # NoGen /\ gen[d] = current

(* install_attachment: a free slot, or force, and a generation left.  The   *)
(* displaced lease is told to cancel in the same critical section.          *)
Install(c, force) ==
    /\ pc[c] = "closed"
    /\ current = NoGen \/ force
    /\ nextGen < MaxGen
    /\ nextGen' = nextGen + 1
    /\ current' = nextGen
    /\ gen' = [gen EXCEPT ![c] = nextGen]
    /\ cancel' = [d \in Conns |-> d # c /\ (cancel[d] \/ Displaced(d))]
    /\ Goto(c, "installed")
    /\ UNCHANGED <<stream, lock, ending, frame, ack, receipt, history>>

(* The request is answered with an error and changes nothing. *)
Refuse(c, force) ==
    /\ pc[c] = "closed"
    /\ \/ current # NoGen /\ ~force
       \/ nextGen = MaxGen
    /\ UNCHANGED vars

(* The output offsets asked for are ahead of the streams. *)
OffsetsAhead(c) ==
    /\ pc[c] = "installed"
    /\ Goto(c, "failing")
    /\ UNCHANGED <<authority, stream, lock, ending, frame, ack, receipt, history>>

OffsetsChecked(c) ==
    /\ pc[c] = "installed"
    /\ Goto(c, IF IsCurrent(c) THEN "opening" ELSE "leaving")
    /\ UNCHANGED <<authority, stream, lock, ending, frame, ack, receipt, history>>

\* Mutants: a guard that empties whatever it finds; one that forgets the slot.
CompareClear_Any(c) == current' = NoGen
(* compare_clear_attachment: only the generation in the slot empties it. *)
CompareClear(c) == current' = IF IsCurrent(c) THEN NoGen ELSE current

(* fail_opening empties the slot at once; the error line and the guard's    *)
(* own compare-and-clear come later, when another may hold the slot.        *)
FailOpening(c) ==
    /\ pc[c] = "failing"
    /\ CompareClear(c)
    /\ Goto(c, "leaving")
    /\ UNCHANGED <<nextGen, cancel, gen, stream, lock, ending, frame, ack,
                   receipt, history>>

(* AttachmentGuard::drop, after both halves of the stream were dropped. *)
Leave(c) ==
    /\ pc[c] = "leaving"
    /\ CompareClear(c)
    /\ Goto(c, "closed")
    /\ gen' = [gen EXCEPT ![c] = NoGen]
    /\ cancel' = [cancel EXCEPT ![c] = FALSE]
    /\ ack' = [ack EXCEPT ![c] = 0]
    /\ UNCHANGED <<nextGen, stream, lock, ending, frame, receipt, history>>

-----------------------------------------------------------------------------
(* Opening an attachment. *)

(* apply_opening_stdin refuses a resume point or an EOF that contradicts    *)
(* what the stream already holds.                                           *)
EffectiveEof(requested) == IF requested = Undeclared THEN eofAt ELSE requested
Resumed(start) == IF start > position THEN start ELSE position

OpeningAllowed(start, requested) ==
    /\ start > position => /\ ~eofReached
                           /\ nobuffer
                           /\ eofAt # Undeclared => start <= eofAt
    /\ (requested # Undeclared /\ eofAt # Undeclared) => eofAt = requested
    /\ EffectiveEof(requested) # Undeclared
          => Resumed(start) <= EffectiveEof(requested)

(* One critical section of child_stdin, attachment and meta: there is no    *)
(* await in it.  A displaced connection returns Ok without touching it.     *)
OpeningStdin(c, start, requested) ==
    /\ pc[c] = "opening"
    /\ lock = NoConn
    /\ IF IsCurrent(c) /\ OpeningAllowed(start, requested)
       THEN LET closes == EffectiveEof(requested) = Resumed(start) IN
            /\ position' = Resumed(start)
            /\ eofAt' = EffectiveEof(requested)
            /\ eofReached' = (eofReached \/ closes)
            /\ stdinOpen' = (stdinOpen /\ ~closes)
       ELSE UNCHANGED stream
    /\ Goto(c, IF IsCurrent(c) /\ ~OpeningAllowed(start, requested)
               THEN "failing" ELSE "opened")
    /\ UNCHANGED <<authority, lock, ending, frame, ack, receipt, history>>

(* The hello takes its receipt from one snapshot of the metadata, between   *)
(* two checks of the generation: this step is the first check and the       *)
(* snapshot, the next one the second check and the hello.                   *)
Snapshot(c) ==
    /\ pc[c] = "opened"
    /\ IF IsCurrent(c)
       THEN Goto(c, "hello") /\ receipt' = [receipt EXCEPT ![c] = position]
       ELSE Goto(c, "leaving") /\ UNCHANGED receipt
    /\ UNCHANGED <<authority, stream, lock, ending, frame, ack, history>>

SendHello(c) ==
    /\ pc[c] = "hello"
    /\ IF IsCurrent(c)
       THEN Goto(c, "reading") /\ ack' = [ack EXCEPT ![c] = receipt[c]]
       ELSE Goto(c, "leaving") /\ UNCHANGED ack
    /\ receipt' = [receipt EXCEPT ![c] = 0]
    /\ UNCHANGED <<authority, stream, lock, ending, frame, history>>

-----------------------------------------------------------------------------
(* Input frames. *)

ReceiveData(c, f) ==
    /\ pc[c] = "reading"
    /\ frame' = [frame EXCEPT ![c] = f]
    /\ Goto(c, "data")
    /\ UNCHANGED <<authority, stream, lock, ending, ack, receipt, history>>

ReceiveEof(c, offset) ==
    /\ pc[c] = "reading"
    /\ frame' = [frame EXCEPT ![c] = [offset |-> offset, len |-> 0]]
    /\ Goto(c, "eof")
    /\ UNCHANGED <<authority, stream, lock, ending, ack, receipt, history>>

(* stdin_frame_start_locked: how much of the frame is already accepted, and *)
(* where the rest of it goes.                                               *)
Start(f) == IF position <= f.offset THEN 0
            ELSE IF position - f.offset <= f.len THEN position - f.offset
            ELSE f.len

\* Mutant: the bytes behind a gap are counted from the position.
Logical_Dense(f) == position

Logical(f) == IF position < f.offset THEN f.offset ELSE position

\* Mutant: without checked_end.
FrameAllowed_Unchecked(f) ==
    /\ ~eofReached
    /\ f.offset <= position \/ nobuffer
    /\ eofAt # Undeclared => Logical(f) + (f.len - Start(f)) <= eofAt

FrameAllowed(f) ==
    /\ f.offset + f.len <= MaxPos                               \* checked_end
    /\ ~eofReached
    /\ f.offset <= position \/ nobuffer                          \* a gap
    /\ eofAt # Undeclared => Logical(f) + (f.len - Start(f)) <= eofAt

(* The attachment ends where it awaits: its lease was cancelled, the        *)
(* transport or the output half ended, or a frame was refused.  A pending   *)
(* write is dropped with its guard.                                         *)
Drop(c) ==
    /\ pc[c] \in Selecting
    /\ lock' = IF lock = c THEN NoConn ELSE lock
    /\ Goto(c, "leaving")
    /\ FrameDone(c)
    /\ UNCHANGED <<authority, stream, ending, ack, receipt, history>>

(* accept_stdin takes the lock, and keeps it over all of the frame. *)
LockForData(c) ==
    /\ pc[c] = "data"
    /\ frame[c].len > 0
    /\ lock = NoConn
    /\ lock' = c
    /\ Goto(c, "writing")
    /\ UNCHANGED <<authority, stream, ending, frame, ack, receipt, history>>

(* An empty frame only moves the position, over a gap that is allowed. *)
AcceptEmpty(c) ==
    LET to == Logical(frame[c])
        closes == eofAt = to
    IN  /\ pc[c] = "data"
        /\ frame[c].len = 0
        /\ lock = NoConn
        /\ IsCurrent(c)
        /\ FrameAllowed(frame[c])
        /\ lock' = c
        /\ position' = to
        /\ eofReached' = closes
        /\ stdinOpen' = (stdinOpen /\ ~closes)
        /\ receipt' = [receipt EXCEPT ![c] = to]
        /\ Goto(c, "settling")
        /\ UNCHANGED <<authority, eofAt, ending, frame, ack, history>>

\* Mutant: a later declaration replaces the first.
EofAllowed_Again(offset) == offset >= position

(* declare_stdin_eof_locked, for an EOF frame and for the EOF control. *)
EofAllowed(offset) ==
    /\ offset >= position
    /\ eofAt \in {Undeclared, offset}

\* Mutant: an EOF declared at the position already reached closes nothing.
DeclareEof_Late(offset) ==
    /\ EofAllowed(offset)
    /\ eofAt' = offset
    /\ UNCHANGED <<position, eofReached, stdinOpen>>

DeclareEof(offset) ==
    /\ EofAllowed(offset)
    /\ eofAt' = offset
    /\ eofReached' = (eofReached \/ offset = position)
    /\ stdinOpen' = (stdinOpen /\ offset # position)
    /\ UNCHANGED position

AcceptEof(c) ==
    /\ pc[c] = "eof"
    /\ lock = NoConn
    /\ IsCurrent(c)
    /\ DeclareEof(frame[c].offset)
    /\ lock' = c
    /\ receipt' = [receipt EXCEPT ![c] = position]
    /\ Goto(c, "settling")
    /\ UNCHANGED <<authority, ending, frame, ack, history>>

(* A displaced connection's empty frame or EOF frame is silently ignored. *)
IgnoreFrame(c) ==
    /\ \/ pc[c] = "data" /\ frame[c].len = 0
       \/ pc[c] = "eof"
    /\ lock = NoConn
    /\ ~IsCurrent(c)
    /\ Goto(c, "reading")
    /\ FrameDone(c)
    /\ UNCHANGED <<authority, stream, lock, ending, ack, receipt, history>>

(* What the frame says contradicts the stream: the attachment ends. *)
RefuseFrame(c) ==
    /\ \/ pc[c] = "data" /\ frame[c].len = 0 /\ lock = NoConn /\ ~FrameAllowed(frame[c])
       \/ pc[c] = "eof" /\ lock = NoConn /\ ~EofAllowed(frame[c].offset)
       \/ pc[c] = "writing" /\ ~FrameAllowed(frame[c])
    /\ IsCurrent(c)
    /\ lock' = NoConn
    /\ Goto(c, "leaving")
    /\ FrameDone(c)
    /\ UNCHANGED <<authority, stream, ending, ack, receipt, history>>

(* A poll of the write that finds the lease displaced, or the command's     *)
(* stdin already taken: the frame is abandoned without a receipt.           *)
AbandonWrite(c) ==
    /\ pc[c] = "writing"
    /\ \/ ~IsCurrent(c)
       \/ /\ FrameAllowed(frame[c])
          /\ Start(frame[c]) < frame[c].len
          /\ ~stdinOpen
    /\ lock' = NoConn
    /\ Goto(c, "reading")
    /\ FrameDone(c)
    /\ UNCHANGED <<authority, stream, ending, ack, receipt, history>>

(* A poll that finds all of the frame accepted. *)
FindDuplicate(c) ==
    /\ pc[c] = "writing"
    /\ IsCurrent(c)
    /\ FrameAllowed(frame[c])
    /\ Start(frame[c]) = frame[c].len
    /\ receipt' = [receipt EXCEPT ![c] = position]
    /\ Goto(c, "settling")
    /\ UNCHANGED <<authority, stream, lock, ending, frame, ack, history>>

(* A poll in which the pipe takes count bytes.  The bytes written are those *)
(* of the frame from start on; the position moves to the logical position   *)
(* plus count.  In the step are the generation check, the write and the     *)
(* recording of it, as in the code's poll_fn.                               *)
WritePoll(c, count) ==
    LET f == frame[c]
        first == f.offset + Start(f)
        to == Logical(f) + count
        closes == eofAt = to
    IN  /\ pc[c] = "writing"
        /\ IsCurrent(c)
        /\ FrameAllowed(f)
        /\ stdinOpen
        /\ count <= f.len - Start(f)
        /\ position' = to
        /\ eofReached' = closes
        /\ stdinOpen' = ~closes
        /\ receipt' = [receipt EXCEPT ![c] = to]
        /\ times' = [b \in Bytes |-> IF first <= b /\ b < first + count
                                     THEN times[b] + 1 ELSE times[b]]
        /\ by' = [b \in Bytes |-> IF first <= b /\ b < first + count
                                  THEN gen[c] ELSE by[b]]
        /\ Goto(c, IF closes THEN "settling" ELSE "acking")
        /\ UNCHANGED <<authority, eofAt, lock, ending, frame, ack>>

\* Mutants: the whole frame is acknowledged after a partial write; a displaced
\* connection's client is told.
Receipted_Frame(c) == frame[c].offset + frame[c].len
Receipted_Unfenced(c) == IF receipt[c] >= ack[c] THEN receipt[c] ELSE ack[c]

(* latest.send_if_modified: fenced by the generation, never backwards. *)
Receipted(c) == IF IsCurrent(c) /\ receipt[c] >= ack[c] THEN receipt[c] ELSE ack[c]

(* publish_receipt, a critical section of its own after the write.  The     *)
(* lock is released when the frame is finished.                             *)
Publish(c) ==
    /\ pc[c] \in {"acking", "settling"}
    /\ ack' = [ack EXCEPT ![c] = Receipted(c)]
    /\ IF pc[c] = "acking"
       THEN Goto(c, "writing") /\ UNCHANGED <<lock, frame>>
       ELSE Goto(c, "reading") /\ lock' = NoConn /\ FrameDone(c)
    /\ receipt' = [receipt EXCEPT ![c] = 0]
    /\ UNCHANGED <<authority, stream, ending, history>>

-----------------------------------------------------------------------------
(* The EOF control and the command's exit. *)

(* declare_stdin_eof from a control connection holds no generation. *)
ControlEof(offset) ==
    /\ lock = NoConn
    /\ DeclareEof(offset)
    /\ UNCHANGED <<authority, lock, ending, pc, frame, ack, receipt, history>>

(* The wait task records its result before it waits for child_stdin.  An   *)
(* ordinary session takes a wait that failed for an exit, an opted-in one   *)
(* for a failure; either way the command may still be there.                *)
Waited(result) ==
    /\ recorded = "nothing"
    /\ recorded' = result
    /\ UNCHANGED <<authority, stream, lock, session, pc, frame, ack, receipt, history>>

RecordExit == Waited("exit")

WaitFails == Waited(IF optedIn THEN "failure" ELSE "assumed")

TakeStdin ==
    /\ recorded # "nothing"
    /\ lock = NoConn
    /\ stdinOpen
    /\ stdinOpen' = FALSE
    /\ UNCHANGED <<authority, position, eofReached, eofAt, lock, ending, pc,
                   frame, ack, receipt, history>>

-----------------------------------------------------------------------------
Attach(c) ==
    \/ \E force \in BOOLEAN : Install(c, force) \/ Refuse(c, force)
    \/ OffsetsAhead(c)
    \/ OffsetsChecked(c)
    \/ \E start \in Positions, requested \in Positions \cup {Undeclared} :
          OpeningStdin(c, start, requested)
    \/ Snapshot(c)
    \/ SendHello(c)
    \/ FailOpening(c)
    \/ Leave(c)

Input(c) ==
    \/ \E f \in Frames : ReceiveData(c, f)
    \/ \E offset \in Positions : ReceiveEof(c, offset)
    \/ LockForData(c)
    \/ AcceptEmpty(c)
    \/ AcceptEof(c)
    \/ IgnoreFrame(c)
    \/ RefuseFrame(c)
    \/ AbandonWrite(c)
    \/ FindDuplicate(c)
    \/ \E count \in 1 .. MaxLen : WritePoll(c, count)
    \/ Publish(c)
    \/ Drop(c)

Command ==
    \/ \E offset \in Positions : ControlEof(offset)
    \/ RecordExit
    \/ WaitFails
    \/ TakeStdin

Next == (\E c \in Conns : Attach(c) \/ Input(c)) \/ Command

Spec == Init /\ [][Next]_vars

(***************************************************************************)
(* Fairness: tokio keeps polling a task that can run, so every step a task *)
(* can take without waiting for a peer is taken, and a cancelled lease     *)
(* wins its select!.  child_stdin is a FIFO mutex: a waiter for which it   *)
(* comes free again and again gets it, hence SF.  Nothing is assumed of    *)
(* the command (it may never read), of the clients or of the transport.    *)
(***************************************************************************)
DropCancelled(c) == cancel[c] /\ Drop(c)

Fairness ==
    \A c \in Conns :
        /\ WF_vars(OffsetsChecked(c))
        /\ SF_vars(\E start \in Positions, requested \in Positions \cup {Undeclared} :
                       OpeningStdin(c, start, requested))
        /\ WF_vars(Snapshot(c))
        /\ WF_vars(SendHello(c))
        /\ WF_vars(FailOpening(c))
        /\ WF_vars(DropCancelled(c))
        /\ WF_vars(Publish(c))
        /\ WF_vars(Leave(c))

FairSpec == Spec /\ Fairness

-----------------------------------------------------------------------------
(* Properties. *)

(* Across takeovers, retries, duplicated and overlapping frames and partial *)
(* writes dropped half way, no byte reaches the command twice and none is   *)
(* written beyond the recorded position; in a buffered session every byte   *)
(* below the position was written.                                          *)
ExactlyOnce ==
    \A b \in Bytes :
        /\ times[b] <= 1
        /\ b >= position => times[b] = 0
        /\ b < position /\ ~nobuffer => times[b] = 1

(* The bytes of a later attachment never precede those of an earlier one:   *)
(* a displaced client writes nothing once its successor has written.        *)
TakeoverOrder ==
    \A a, b \in Bytes :
        a < b /\ times[a] > 0 /\ times[b] > 0 => by[a] <= by[b]

(* Both: the command's stdin has each byte once, and attachment after       *)
(* attachment (broker.rs accept_stdin).                                     *)
InOrderOnce == ExactlyOnce /\ TakeoverOrder

(* The command's stdin ends exactly when the position meets the declared    *)
(* EOF, whichever of the six paths moves either of them: never early, never *)
(* missed, never passed.  Otherwise it is closed only behind a result of    *)
(* the wait for the command, which the session has recorded before, or when *)
(* there never was a pipe (broker.rs:320-347).                              *)
EofExact ==
    /\ eofReached <=> eofAt = position
    /\ eofAt # Undeclared => position <= eofAt
    /\ eofReached => ~stdinOpen
    /\ ~stdinOpen => eofReached \/ recorded # "nothing" \/ ~piped

(* A receipt a client holds, or is about to be sent, is never ahead of what *)
(* was accepted: in a buffered session the client may forget those bytes.   *)
ReceiptsCovered ==
    \A c \in Conns :
        /\ ack[c] <= position
        /\ receipt[c] <= position
        /\ \A b \in Bytes : b < ack[c] /\ ~nobuffer => times[b] = 1

(* The slot is never left to a connection that is gone: a session that is   *)
(* occupied always has a task whose guard will free it, and no other task   *)
(* shares its generation.                                                   *)
SlotOwned ==
    /\ current # NoGen => \E c \in Conns : pc[c] # "closed" /\ gen[c] = current
    /\ \A c, d \in Conns : c # d /\ gen[c] = gen[d] => gen[c] = NoGen

(* Whoever holds child_stdin across an await is current or has been told to *)
(* cancel, so a pending write cannot keep its successor waiting.            *)
HolderCancellable ==
    \A c \in Conns :
        pc[c] \in Selecting \cup Holding /\ ~IsCurrent(c) => cancel[c]

(* Both: neither the slot nor the lock is ever kept by nobody               *)
(* (broker.rs AttachmentGuard).                                             *)
Occupied == SlotOwned /\ HolderCancellable

(* A connection that changes the stream, or is promised a receipt, is the   *)
(* newest one ever admitted: takeover linearizes before that or after it.   *)
(* Only the EOF control and the wait task's steps, which are no             *)
(* connection's, are exempt.                                                *)
FencedStream ==
    [][/\ stream' # stream /\ pc' # pc
            => \E c \in Conns : pc'[c] # pc[c] /\ gen[c] = nextGen - 1
       /\ \A c \in Conns : ack'[c] > ack[c] => gen[c] = nextGen - 1]_vars

(* A takeover gets past the lock although the command never reads and its   *)
(* predecessor's write is pending, unless it is itself taken over; and the  *)
(* attached client that it displaced is disconnected.                       *)
TakeoverPasses ==
    \A c \in Conns :
        /\ (pc[c] = "opening" /\ IsCurrent(c)) ~> (pc[c] # "opening" \/ ~IsCurrent(c))
        /\ (pc[c] \in Selecting \cup Holding /\ ~IsCurrent(c)) ~> (pc[c] = "closed")

(* What all of it promises: a pipe that takes each byte once, in order. *)
Pipe == INSTANCE InputPipe WITH at <- position, eof <- eofAt, open <- stdinOpen,
                                delivered <- times, gaps <- nobuffer
ImplementsPipe == Pipe!Spec
=============================================================================
