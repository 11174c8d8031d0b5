---------------------------- MODULE BoundedOutput ----------------------------
(***************************************************************************)
(* A session with a finite output policy (finite-output-v1):               *)
(* src/src/broker/bounds.rs and the facts of src/src/output.rs.  One       *)
(* collector reads both pipes of the command and gives what fits in the    *)
(* budget to at most one blocking writer a stream; an attachment's sender  *)
(* replays what the writers retained, through a blocking reader behind a   *)
(* gate, up to an end of replay.                                           *)
(*                                                                         *)
(* The facts are kept behind the metadata mutex: each of its critical      *)
(* sections is one step.  The group cancellation is here as far as its     *)
(* users see it; GroupCancel has its inside.                               *)
(***************************************************************************)
EXTENDS Integers

CONSTANTS Limit,     (* the shared byte budget                               *)
          ReadSize,  (* READ_SIZE: the collector's largest read              *)
          TailBytes, (* TAIL_BYTES: what the tail drain may discard          *)
          MaxOut,    (* how much each stream may print: it bounds the model  *)
          Attachable (* somebody may attach in this instance                 *)

Streams == {"stdout", "stderr"}

ASSUME BoundsAssumption ==
    /\ Limit \in Nat
    /\ ReadSize \in Nat \ {0}
    /\ TailBytes \in Nat \ {0}
    /\ MaxOut \in [Streams -> Nat]
    /\ Attachable \in BOOLEAN

Counts == 0 .. MaxOut["stdout"] + MaxOut["stderr"]
Least(a, b) == IF a < b THEN a ELSE b

VARIABLES
    retained, reserved, discarded,                  \* StreamFact, by stream:
    prefix, collection, fault,                      \* fault: storage_fault is set
    stopped,    \* first_stop is set
    inflight,   \* io_inflight
    tailRead,   \* tail_read
    exit,       \* leader_exit: the actual status is recorded
    verified,   \* Cancellation.verified: the session may be attached
    cancel,     \* the group cancellation: ready, active, settled or failed
    absent,     \* Cancellation.group_absent
    finish,     \* finish_deadline: none, set or due
    cpc,        \* where the collector stands
    view,       \* what it saw of the facts at the head of its loop
    tail,       \* tail_deadline: none, set or due
    hand,       \* what it has read and not yet given to a writer
    wpc,        \* where each stream's blocking writer stands
    left,       \* the bytes a writer still has to write
    src,        \* which byte of the stream comes next in the writer's buffer
    rpc,        \* where the blocking replay stands; it holds the gate
    spc,        \* where the attachment's sender stands
    snap,       \* the facts it took at the head of its loop
    pos,        \* its positions: what it has delivered
    cwoken,     \* the collector's Notified future was notified
    swoken,     \* the sender's was
    read        \* history: how many bytes were read from each pipe

streamFacts == <<retained, reserved, discarded, prefix, collection, fault>>
facts == <<streamFacts, stopped, inflight, tailRead>>
control == <<exit, verified, cancel, absent, finish>>
collector == <<cpc, view, tail, hand>>
writers == <<wpc, left, src>>
sender == <<rpc, spc, snap, pos>>
woken == <<cwoken, swoken>>
vars == <<facts, control, collector, writers, sender, woken, read>>

-----------------------------------------------------------------------------
(* What the facts say. *)

Charged == retained["stdout"] + retained["stderr"] + reserved["stdout"] + reserved["stderr"]
Available == Limit - Charged
Collected == \A s \in Streams : collection[s] # "Reading"
CancelFinished == cancel \in {"settled", "failed"}
WritersBack == \A s \in Streams : wpc[s] = "idle"

\* Mutant: the flag of the facts is told as soon as the end was read.
PrefixComplete(s) ==
    prefix[s] /\ collection[s] = "Eof" /\ reserved[s] = 0 /\ inflight = 0

(* complete(), of what fact() tells. *)
Complete == ~stopped /\ inflight = 0 /\ \A s \in Streams : PrefixComplete(s)

Fact == [retained |-> retained, stopped |-> stopped, collected |-> Collected,
         idle |-> inflight = 0, exit |-> exit, absent |-> absent,
         complete |-> Complete]
NoFact == [retained |-> [s \in Streams |-> 0], stopped |-> FALSE, collected |-> FALSE,
           idle |-> FALSE, exit |-> FALSE, absent |-> FALSE, complete |-> FALSE]

NotifyWaiters == cwoken' = TRUE /\ swoken' = TRUE

(* start_hardened: the operation starts, or is joined. *)
StartHardened ==
    IF cancel = "ready"
    THEN cancel' = "active" /\ finish' = "set" /\ UNCHANGED <<exit, verified, absent>>
    ELSE UNCHANGED control

TypeOK ==
    /\ retained \in [Streams -> Counts]
    /\ reserved \in [Streams -> Counts]
    /\ discarded \in [Streams -> Counts]
    /\ prefix \in [Streams -> BOOLEAN]
    /\ collection \in [Streams -> {"Reading", "Eof", "Unconfirmed"}]
    /\ fault \in [Streams -> BOOLEAN]
    /\ stopped \in BOOLEAN
    /\ inflight \in 0 .. 3
    /\ tailRead \in 0 .. TailBytes
    /\ exit \in BOOLEAN /\ verified \in BOOLEAN /\ absent \in BOOLEAN
    /\ cancel \in {"ready", "active", "settled", "failed"}
    /\ finish \in {"none", "set", "due"}
    /\ cpc \in {"top", "decide", "select", "reserve", "stop", "admit", "done"}
    /\ view \in [stopped : BOOLEAN, available : 0 .. Limit, timed : BOOLEAN]
    /\ tail \in {"none", "set", "due"}
    /\ hand \in [stream : Streams, len : Counts, at : Counts]
    /\ wpc \in [Streams -> {"idle", "write", "fault", "start", "unpin", "back"}]
    /\ left \in [Streams -> Counts]
    /\ src \in [Streams -> Counts]
    /\ rpc \in {"none", "read", "fault", "start", "unpin", "drop"}
    /\ spc \in {"detached", "top", "gate", "replay", "frame", "check", "wait", "ended"}
    /\ pos \in [Streams -> Counts]
    /\ cwoken \in BOOLEAN /\ swoken \in BOOLEAN
    /\ read \in [Streams -> Counts]

Zero == [s \in Streams |-> 0]
NoView == [stopped |-> FALSE, available |-> 0, timed |-> FALSE]
NoHand == [stream |-> "stdout", len |-> 0, at |-> 0]

(* A pipe may be missing, of stdin too: then the policy has stopped before  *)
(* anything else, and a missing output is not collected.                    *)
(* The pidfd may be missing: then there is no operation to start.           *)
Init ==
    /\ retained = Zero /\ reserved = Zero /\ discarded = Zero
    /\ prefix = [s \in Streams |-> TRUE]
    /\ collection \in [Streams -> {"Reading", "Unconfirmed"}]
    /\ fault = [s \in Streams |-> FALSE]
    /\ stopped \in BOOLEAN
    /\ (\E s \in Streams : collection[s] # "Reading") => stopped
    /\ inflight = 0 /\ tailRead = 0
    /\ exit = FALSE /\ absent = FALSE
    /\ verified \in BOOLEAN
    /\ cancel = IF ~verified THEN "failed" ELSE IF stopped THEN "active" ELSE "ready"
    /\ finish = IF cancel = "active" THEN "set" ELSE "none"
    /\ cpc = "top" /\ view = NoView /\ tail = "none" /\ hand = NoHand
    /\ wpc = [s \in Streams |-> "idle"] /\ left = Zero /\ src = Zero
    /\ rpc = "none" /\ spc = "detached" /\ snap = NoFact /\ pos = Zero
    /\ cwoken = FALSE /\ swoken = FALSE
    /\ read = Zero

-----------------------------------------------------------------------------
(* The cancellation and the clock, as their users see them. *)

outside == <<facts, collector, writers, sender, read>>

LeaderExits ==
    /\ ~exit
    /\ exit' = TRUE
    /\ NotifyWaiters
    /\ UNCHANGED <<outside, verified, cancel, absent, finish>>

CancelRequest ==
    /\ cancel = "ready"
    /\ StartHardened
    /\ UNCHANGED <<outside, woken>>

(* The owner notifies after every step, whatever came of it. *)
OwnerStep ==
    /\ cancel = "active"
    /\ \/ UNCHANGED <<cancel, absent>>
       \/ ~absent /\ exit /\ absent' = TRUE /\ UNCHANGED cancel
       \/ absent /\ exit /\ (\A s \in Streams : collection[s] = "Eof")
          /\ cancel' = "settled" /\ UNCHANGED absent
    /\ NotifyWaiters
    /\ UNCHANGED <<outside, exit, verified, finish>>

(* A failed wait or signal at any time, or the deadline. *)
OwnerFails ==
    /\ cancel = "active"
    /\ cancel' = "failed"
    /\ NotifyWaiters
    /\ UNCHANGED <<outside, exit, verified, absent, finish>>

DeadlinePasses ==
    /\ finish = "set"
    /\ finish' = "due"
    /\ UNCHANGED <<outside, woken, exit, verified, cancel, absent>>

(* The tail deadline is clamped to the finish deadline. *)
TailPasses ==
    /\ tail = "set"
    /\ tail' = "due"
    /\ UNCHANGED <<facts, control, cpc, view, hand, writers, sender, woken, read>>

-----------------------------------------------------------------------------
(* The collector. *)

outsiders == <<control, sender>>

(* The Notified future is enabled before the facts are read. *)
Top ==
    /\ cpc = "top"
    /\ IF Collected /\ WritersBack
       THEN cpc' = "done" /\ UNCHANGED view
       ELSE /\ cpc' = "decide"
            /\ view' = [stopped |-> stopped, available |-> Available, timed |-> FALSE]
    /\ cwoken' = FALSE
    /\ UNCHANGED <<facts, outsiders, tail, hand, writers, swoken, read>>

\* Mutant: the tail does not wait for the original group.
TailMayStart == view.stopped /\ absent /\ WritersBack /\ tail = "none"

\* Mutant: the collection is not closed by the deadline of the cancellation.
GivesUp_NoDeadline(tailing, over) ==
    \/ CancelFinished /\ ~absent /\ (view.stopped \/ finish # "none")
    \/ tailing /\ (over = "due" \/ tailRead = TailBytes)

(* The four conditions under which the collection is closed unconfirmed. *)
GivesUp(tailing, over) ==
    \/ finish = "due"
    \/ CancelFinished /\ ~absent /\ (view.stopped \/ finish # "none")
    \/ tailing /\ (over = "due" \/ tailRead = TailBytes)

(* The tail deadline is min(now + TAIL_MILLIS, finish). *)
Decide ==
    /\ cpc = "decide"
    /\ LET over    == IF TailMayStart THEN "set" ELSE tail
           tailing == view.stopped /\ over # "none"
       IN  /\ tail' = over
           /\ IF GivesUp(tailing, over)
              THEN /\ collection' = [s \in Streams |->
                          IF collection[s] = "Reading" THEN "Unconfirmed" ELSE collection[s]]
                   /\ NotifyWaiters
                   /\ cpc' = "done"
                   /\ UNCHANGED view
              ELSE /\ cpc' = "select"
                   /\ view' = [view EXCEPT !.timed = finish # "none"]
                   /\ UNCHANGED <<collection, woken>>
    /\ UNCHANGED <<retained, reserved, discarded, prefix, fault, stopped, inflight, tailRead,
                   outsiders, hand, writers, read>>

Tailing == view.stopped /\ tail # "none"

(* The deadline armed in the select is the tail's, or the one seen above.  *)
Wake ==
    /\ cpc = "select"
    /\ \/ cwoken
       \/ tail = "due"
       \/ tail = "none" /\ view.timed /\ finish = "due"
    /\ cpc' = "top"
    /\ UNCHANGED <<facts, outsiders, view, tail, hand, writers, woken, read>>

(* The writer's task is joined: its file is back. *)
WriteBack(s) ==
    /\ cpc = "select" /\ wpc[s] = "back"
    /\ cpc' = "top"
    /\ wpc' = [wpc EXCEPT ![s] = "idle"]
    /\ UNCHANGED <<facts, outsiders, view, tail, hand, left, src, woken, read>>

(* At the exact budget a pipe is read although its writer is busy. *)
ReadEnabled(s) ==
    /\ cpc = "select"
    /\ ~view.stopped \/ Tailing
    /\ collection[s] = "Reading"
    /\ wpc[s] = "idle" \/ (~Tailing /\ view.available = 0)

\* Mutant: a read is as large as the buffer.
\* Mutant: the tail's reads are as large as the buffer.
ReadCap == Least(IF Tailing THEN TailBytes - tailRead ELSE view.available + 1, ReadSize)

ReadSome(s) ==
    /\ ReadEnabled(s)
    /\ \E n \in 1 .. Least(ReadCap, MaxOut[s] - read[s]) :
           /\ read' = [read EXCEPT ![s] = @ + n]
           /\ IF Tailing
              THEN /\ tailRead' = tailRead + n
                   /\ discarded' = [discarded EXCEPT ![s] = @ + n]
                   /\ prefix' = [prefix EXCEPT ![s] = FALSE]
                   /\ cpc' = "top"
                   /\ UNCHANGED hand
              ELSE /\ hand' = [stream |-> s, len |-> n, at |-> read[s]]
                   /\ cpc' = "reserve"
                   /\ UNCHANGED <<tailRead, discarded, prefix>>
    /\ UNCHANGED <<retained, reserved, collection, fault, stopped, inflight, outsiders,
                   view, tail, writers, woken>>

ReadEof(s) ==
    /\ ReadEnabled(s) /\ ReadCap > 0
    /\ collection' = [collection EXCEPT ![s] = "Eof"]
    /\ NotifyWaiters
    /\ cpc' = "top"
    /\ UNCHANGED <<retained, reserved, discarded, prefix, fault, stopped, inflight, tailRead,
                   outsiders, view, tail, hand, writers, read>>

ReadError(s) ==
    /\ ReadEnabled(s)
    /\ collection' = [collection EXCEPT ![s] = "Unconfirmed"]
    /\ prefix' = [prefix EXCEPT ![s] = FALSE]
    /\ stopped' = TRUE
    /\ cpc' = "stop"
    /\ UNCHANGED <<retained, reserved, discarded, fault, inflight, tailRead, outsiders,
                   view, tail, hand, writers, woken, read>>

\* Mutant: the stop is not looked at again under the lock.
Retainable_Unchecked(n) == Least(n, Available)

\* Mutant: the budget is not looked at again under the lock.
(* What of a read may be kept, decided under the reservation lock. *)
Retainable(n) == IF stopped THEN 0 ELSE Least(n, Available)

\* Mutant: the pin is left to the writer.
Pinned_Late(k) == inflight

(* The pin is installed with the reservation. *)
Pinned(k) == inflight + (IF k = 0 THEN 0 ELSE 1)

Reserve ==
    /\ cpc = "reserve"
    /\ LET s == hand.stream
           k == Retainable(hand.len)
       IN  /\ reserved' = [reserved EXCEPT ![s] = @ + k]
           /\ discarded' = [discarded EXCEPT ![s] = @ + hand.len - k]
           /\ prefix' = [prefix EXCEPT ![s] = @ /\ k = hand.len]
           /\ stopped' = (stopped \/ k # hand.len)
           /\ inflight' = Pinned(k)
           /\ cpc' = IF k = hand.len THEN "admit" ELSE "stop"
           /\ hand' = IF k = 0 THEN NoHand ELSE [hand EXCEPT !.len = k]
    /\ UNCHANGED <<retained, collection, fault, tailRead, outsiders, view, tail, writers,
                   woken, read>>

(* stop(): the first reason is already there; the operation is admitted. *)
Stop ==
    /\ cpc = "stop"
    /\ StartHardened
    /\ NotifyWaiters
    /\ cpc' = IF hand.len = 0 THEN "top" ELSE "admit"
    /\ UNCHANGED <<facts, sender, view, tail, hand, writers, read>>

Admit ==
    /\ cpc = "admit"
    /\ wpc' = [wpc EXCEPT ![hand.stream] = "write"]
    /\ left' = [left EXCEPT ![hand.stream] = hand.len]
    /\ src' = [src EXCEPT ![hand.stream] = hand.at]
    /\ hand' = NoHand
    /\ cpc' = "top"
    /\ UNCHANGED <<facts, outsiders, view, tail, woken, read>>

-----------------------------------------------------------------------------
(* The blocking writers. *)

beyond == <<collector, sender, read>>

WriteSome(s) ==
    /\ wpc[s] = "write"
    /\ \E n \in 1 .. left[s] :
           /\ reserved' = [reserved EXCEPT ![s] = @ - n]
           /\ retained' = [retained EXCEPT ![s] = @ + n]
           /\ left' = [left EXCEPT ![s] = @ - n]
           /\ src' = [src EXCEPT ![s] = @ + n]
    /\ NotifyWaiters
    /\ UNCHANGED <<discarded, prefix, collection, fault, stopped, inflight, tailRead,
                   control, beyond, wpc>>

(* All is written and flushed. *)
WriteDone(s) ==
    /\ wpc[s] = "write" /\ left[s] = 0
    /\ wpc' = [wpc EXCEPT ![s] = "unpin"]
    /\ UNCHANGED <<facts, control, beyond, left, src, woken>>

\* Mutant: the release does not stop the admission.
\* Mutant: a failed write gives its reservation back as if nothing was lost.
LostBy_Nothing(s) == 0

(* The critical section that gives a failed write's bytes back stops too. *)
StopsAtRelease == TRUE
LostBy(s) == left[s]

(* A write or, with nothing left to write, the flush fails. *)
WriteFails(s) ==
    /\ wpc[s] = "write"
    /\ reserved' = [reserved EXCEPT ![s] = @ - left[s]]
    /\ discarded' = [discarded EXCEPT ![s] = @ + LostBy(s)]
    /\ prefix' = [prefix EXCEPT ![s] = @ /\ left[s] = 0]
    /\ stopped' = StopsAtRelease
    /\ left' = [left EXCEPT ![s] = 0]
    /\ wpc' = [wpc EXCEPT ![s] = "fault"]
    /\ UNCHANGED <<retained, collection, fault, inflight, tailRead, control, beyond, src, woken>>

(* storage_fault, its critical section. *)
Faulted(s) ==
    /\ fault' = [fault EXCEPT ![s] = TRUE]
    /\ prefix' = [prefix EXCEPT ![s] = FALSE]
    /\ stopped' = TRUE
    /\ UNCHANGED <<retained, reserved, discarded, collection, inflight, tailRead>>

WriteFault(s) ==
    /\ wpc[s] = "fault"
    /\ Faulted(s)
    /\ wpc' = [wpc EXCEPT ![s] = "start"]
    /\ UNCHANGED <<control, beyond, left, src, woken>>

WriteStart(s) ==
    /\ wpc[s] = "start"
    /\ StartHardened
    /\ NotifyWaiters
    /\ wpc' = [wpc EXCEPT ![s] = "unpin"]
    /\ UNCHANGED <<facts, beyond, left, src>>

\* Mutant: nobody is told that the last worker has returned.
NotifyUnpinned_Silent == UNCHANGED woken

NotifyUnpinned == NotifyWaiters

Unpin(s) ==
    /\ wpc[s] = "unpin"
    /\ inflight' = inflight - 1
    /\ NotifyUnpinned
    /\ wpc' = [wpc EXCEPT ![s] = "back"]
    /\ src' = [src EXCEPT ![s] = 0]
    /\ UNCHANGED <<streamFacts, stopped, tailRead, control, beyond, left>>

-----------------------------------------------------------------------------
(* The attachment's sender, and its blocking replay. *)

others == <<control, collector, writers, read>>

(* The session is verified, and the offsets are not ahead of the streams. *)
Attach ==
    /\ Attachable /\ verified /\ spc = "detached"
    /\ pos' \in {p \in [Streams -> Counts] : \A s \in Streams : p[s] <= retained[s]}
    /\ spc' = "top"
    /\ UNCHANGED <<facts, others, rpc, snap, woken>>

(* The client goes, or another takes over: the sender's future is dropped, *)
(* a blocking replay is not.                                               *)
Detach ==
    /\ spc # "detached"
    /\ spc' = "detached" /\ snap' = NoFact /\ pos' = Zero /\ swoken' = FALSE
    /\ UNCHANGED <<facts, others, rpc, cwoken>>

Behind(s) == pos[s] < snap.retained[s]

(* The head of the loop, to the choice of a stream. *)
Snap ==
    /\ spc = "top"
    /\ snap' = Fact
    /\ swoken' = FALSE
    /\ spc' = IF \E s \in Streams : pos[s] < retained[s] THEN "gate" ELSE "check"
    /\ UNCHANGED <<facts, others, rpc, pos, cwoken>>

(* The gate is held inside the blocking reader. *)
GateFree == rpc = "none"

Gate ==
    /\ spc = "gate" /\ GateFree
    /\ inflight' = inflight + 1
    /\ rpc' = "read" /\ spc' = "replay"
    /\ UNCHANGED <<streamFacts, stopped, tailRead, others, snap, pos, woken>>

ReplayReads ==
    /\ rpc = "read"
    /\ rpc' \in {"unpin", "fault"}
    /\ UNCHANGED <<facts, others, spc, snap, pos, woken>>

ReplayFault ==
    /\ rpc = "fault"
    /\ \E s \in Streams : retained[s] > 0 /\ Faulted(s)
    /\ rpc' = "start"
    /\ UNCHANGED <<others, spc, snap, pos, woken>>

ReplayStart ==
    /\ rpc = "start"
    /\ StartHardened
    /\ NotifyWaiters
    /\ rpc' = "drop"
    /\ UNCHANGED <<facts, collector, writers, read, spc, snap, pos>>

(* The sender, if it still waits, gets the data or gives up. *)
ReplayUnpin ==
    /\ rpc \in {"unpin", "drop"}
    /\ inflight' = inflight - 1
    /\ rpc' = "none"
    /\ IF spc = "replay"
       THEN IF rpc = "unpin"
            THEN spc' = "frame" /\ UNCHANGED <<snap, pos>>
            ELSE spc' = "detached" /\ snap' = NoFact /\ pos' = Zero
       ELSE UNCHANGED <<spc, snap, pos>>
    /\ NotifyWaiters
    /\ UNCHANGED <<streamFacts, stopped, tailRead, others>>

(* A frame of what was replayed: some of what the sender was behind. *)
SendFrame ==
    /\ spc = "frame"
    /\ \E s \in Streams : Behind(s) /\ \E n \in 1 .. snap.retained[s] - pos[s] :
           pos' = [pos EXCEPT ![s] = @ + n]
    /\ spc' = "top" /\ snap' = NoFact
    /\ UNCHANGED <<facts, others, rpc, woken>>

\* Mutant: the end of replay does not wait for the blocking workers.
(* When OutputEnd may be sent; cancel_finished is read after the facts. *)
AtEnd ==
    /\ snap.collected /\ snap.idle
    /\ snap.exit \/ CancelFinished
    /\ ~snap.stopped \/ snap.absent \/ CancelFinished

Check ==
    /\ spc = "check"
    /\ IF AtEnd THEN spc' = "ended" /\ UNCHANGED snap
                ELSE spc' = "wait" /\ snap' = NoFact
    /\ UNCHANGED <<facts, others, rpc, pos, woken>>

(* Woken by the facts, or by a receipt of stdin. *)
Awake ==
    /\ spc = "wait" /\ swoken
    /\ spc' = "top"
    /\ UNCHANGED <<facts, others, rpc, snap, pos, woken>>

-----------------------------------------------------------------------------
Clock == DeadlinePasses \/ TailPasses
Owner == LeaderExits \/ CancelRequest \/ OwnerStep \/ OwnerFails
Collector == Top \/ Decide \/ Wake \/ (\E s \in Streams : WriteBack(s)) \/ Reserve \/ Stop \/ Admit
Pipe == \E s \in Streams : ReadSome(s) \/ ReadEof(s) \/ ReadError(s)
Storage == \E s \in Streams : WriteSome(s) \/ WriteDone(s) \/ WriteFails(s)
Worker == \E s \in Streams : WriteFault(s) \/ WriteStart(s) \/ Unpin(s)
Replay == ReplayReads \/ ReplayFault \/ ReplayStart \/ ReplayUnpin
Sender == Snap \/ Gate \/ SendFrame \/ Check \/ Awake

Next ==
    \/ Clock \/ Owner \/ Collector \/ Pipe \/ Storage \/ Worker
    \/ Replay \/ Sender \/ Attach \/ Detach

Spec == Init /\ [][Next]_vars

(* The owner of the operation fails at its deadline. *)
OwnerExpires == finish = "due" /\ OwnerFails

(* The clock runs and the tasks are scheduled.  No file answers, no pipe   *)
(* is read and no client reads.                                            *)
StuckSpec ==
    /\ Spec
    /\ WF_vars(Clock \/ OwnerExpires)
    /\ WF_vars(Collector) /\ WF_vars(Worker)

-----------------------------------------------------------------------------
(* What must hold. *)

(* The retained and the reserved bytes of both streams never exceed the    *)
(* budget, whatever was released and reserved again between a read and its *)
(* admission (available() would panic under the metadata lock).            *)
WithinLimit == Charged <= Limit

(* Every byte taken from a pipe is retained, reserved, discarded or in the *)
(* collector's hand: no fault or race loses one without counting it.       *)
Accounted ==
    \A s \in Streams :
        read[s] = retained[s] + reserved[s] + discarded[s]
                  + (IF cpc = "reserve" /\ hand.stream = s THEN hand.len ELSE 0)

(* What a writer appends is the next byte of the stream: the spool is a    *)
(* prefix of what the command printed, with no hole in it.                 *)
Faithful == \A s \in Streams : wpc[s] = "write" /\ left[s] > 0 => src[s] = retained[s]

(* When the collector starts a writer the stream's file is back: the       *)
(* take().unwrap() of it cannot panic, although a pipe is also read while  *)
(* its writer is busy.                                                     *)
OneWriter == cpc = "admit" => wpc[hand.stream] = "idle"

(* sealed means what it says: no blocking worker still holds a file, and   *)
(* no byte is still reserved.                                              *)
Sealed == inflight = 0 /\ (stopped \/ Collected)
SealedQuiet ==
    Sealed => /\ \A s \in Streams : wpc[s] \in {"idle", "back"} /\ reserved[s] = 0
              /\ rpc = "none"

(* A prefix told complete is all the command printed on the stream: its    *)
(* end was read, nothing was discarded and no storage fault is known.      *)
CompleteTruth ==
    \A s \in Streams : PrefixComplete(s) =>
        /\ collection[s] = "Eof" /\ ~fault[s]
        /\ retained[s] = read[s] /\ discarded[s] = 0

(* An overflow reads exactly one byte too many: without a fault nothing    *)
(* else is discarded before the tail (src/README.md:412-413).              *)
OneExcess ==
    ~(\E s \in Streams : fault[s] \/ wpc[s] = "fault") =>
        discarded["stdout"] + discarded["stderr"] <= tailRead + 1

(* Nothing is discarded by a tail drain before the leader is reaped and    *)
(* the group is known to be absent, nor while a write is outstanding.      *)
TailAfterGroup == tailRead > 0 => exit /\ absent /\ WritersBack

(* The budget: it is kept, each byte of it is accounted, and no more is    *)
(* read from the command than the policy allows (bounds.rs collect).       *)
Budget == TypeOK /\ WithinLimit /\ Accounted /\ OneExcess /\ TailAfterGroup

(* The spool: a prefix without holes, written by one writer, and called    *)
(* complete when it is (bounds.rs write_prefix, fact).                     *)
Prefix == Faithful /\ OneWriter /\ CompleteTruth

(* An end of replay is final: collection has ended, no worker or           *)
(* reservation is left, and the client has every byte that was retained;   *)
(* if it was told complete, it has every byte that was printed.            *)
EndFinal ==
    spc = "ended" =>
        /\ pos = retained /\ Collected /\ reserved = Zero
        /\ \A s \in Streams : wpc[s] \in {"idle", "back"}
        /\ snap.complete => pos = read

(* Both: what is announced as over is over (bounds.rs fact, send_output).  *)
Final == SealedQuiet /\ EndFinal

(* Once the policy has stopped or a cancellation has begun, the collection *)
(* ends, even if no file ever answers and a pipe is held open for ever.    *)
CollectionEnds == (stopped \/ finish # "none") ~> Collected

(* A client that stays is told the end of replay, once the session has     *)
(* stopped, was cancelled, or has exited with both pipes collected.        *)
EndReached ==
    (spc # "detached" /\ (stopped \/ finish # "none" \/ (exit /\ Collected)))
        ~> spc \in {"ended", "detached"}
=============================================================================
