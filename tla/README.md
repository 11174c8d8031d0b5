# Verification of pipekeep

pipekeep keeps a command running on a remote machine while the connection to
its client comes and goes. A *broker* process owns the command; a *proxy*
(`src/src/server.rs`) joins one transport connection to the broker's socket; an
optional *outer wrapper* (`src/src/outer.rs`) reconnects transports for a
program that knows nothing of all this. Everything a client may resume is
addressed by absolute byte offsets.

This directory holds TLA+ models of that code, the TLC configurations that check
them on small instances, and TLAPS proofs of what holds for every instance.
Paths are relative to the repository's checkout in `src/`.

## 1. The system

| Component | State | Operations | Correct when |
|---|---|---|---|
| Attachment authority and stdin (`src/src/broker.rs`) | `AttachmentState` (slot, generation), `child_stdin` (async lock), `stdin_position`, `stdin_eof_at`, receipts | attach, force, data and EOF frames, EOF control, drop, exit | each byte is written once and in order, through takeovers; the end is exact; a receipt is never ahead; a takeover is never stuck behind its victim |
| Live output (`--nobuffer`) | `Meta.*_end`, broadcast queues, a cursor per client | drain, publish, subscribe, send, Exit | nothing falls between hello and queue; a lag is visible; Exit comes last and always |
| Buffered output | spool files, `Meta.*_end` | drain, replay, Exit | replay is the recorded prefix; Exit after its end |
| Finite output policy (`broker/bounds.rs`, `output.rs`) | `OutputFact`: retained, reserved, discarded, first stop, I/O pins, seal | collect, blocking writes, tail, replay, OutputEnd | never more than the limit is kept; what is told complete is complete; OutputEnd is final |
| Group cancellation (`cancellation.rs`, `broker.rs`) | `Phase`, deadlines, `signaled`, `group_absent`, result | start, step, join | one TERM, one KILL; a settlement is true; every request is answered |
| Group signalling (`group_pidfd.rs`) | a pidfd | preflight, acquire, signal | no error becomes an absent group |
| Session lifetime (`broker.rs`) | accept loop, connection count, TTL | accept, expire | no session ends under a client or an operation; idle ones end |
| Start-up (`server.rs`, `broker.rs`) | session directory, socket, `prelaunch` | create, dispatch, wait for readiness, remove | one creator; the directory is removed only when nothing runs |
| Proxy relay (`server.rs`) | positions | handshake, relay | no gap, no repetition, no regression of receipts |
| Outer wrapper (`outer.rs`) | delivered offsets, input backlog, create/resume | attempt, retry, EOF control | output once, input once, command run once |
| Ordinary cancellation (`broker.rs`) | none between requests | cancel | the outcome is honest |
| Wire protocol (`protocol.rs`) | none | header validation, frames, checked offsets | no accepted frame passes the end of the offset range |
| CLI, directory naming, build script | none | | |

Interaction. Proxies talk to the broker by one JSON request and then frames on a
Unix socket. In the broker every connection is a tokio task; the drains, the
exact-child wait, the cancellation's owner and the accept loop are tasks too.
They share `Meta`, the attachment slot and the cancellation behind standard
mutexes that are never held across an await, `child_stdin` behind a tokio mutex
that is, one `Notify` without memory (`changed`), and two broadcast queues.

What is hard. A task may be dropped at any await (takeover, a client that goes).
State is read under one lock and used under another. Wake-ups are lost unless a
`Notified` future is enabled before the state is looked at. A live queue
overflows. The processes of a group fork, leave and return while a cancellation
probes them. Replies are lost and requests are repeated. Two processes remove one
directory by its path. `PROJECT.json` lists each such hazard at its line, with the
properties that watch it.

## 2. The modules

### StdinStream, InputPipe

`StdinStream` is the stdin side of a broker. A connection's `pc` names the await
at which its task stands; a step is what the task does between two awaits, or
one critical section of a standard mutex where another task can come between.
`child_stdin` is the variable `lock`, taken by `LockForData`, held while a write is
pending and given up where the guard is dropped. Each action carries the name of
the function it stands for: `Install`/`Refuse` (`install_attachment`),
`OpeningStdin` (`apply_opening_stdin`), `WritePoll` (one poll of the write, which
accepts any part of the frame), `Publish` (`publish_receipt`), `ControlEof`,
`Drop` (the select! of `attach`), `Leave` (`AttachmentGuard`), and `Waited` and
`TakeStdin` (the wait task). The wait may fail with the command alive: `WaitFails` records a
failure in an opted-in session and an exit in an ordinary one, and `child_stdin` is taken
behind it as behind `RecordExit`. `recorded` says that one of the two was recorded, `piped` that the
pipe of stdin could be set up at all. `FrameAllowed`, `Start` and `Logical` are the
arithmetic of `stdin_frame_start_locked`. `times` and `by` are history: how
often a byte was written, and by which generation.

`InputPipe` is the abstract promise: an ordered pipe that takes each byte once
(or, for a `--nobuffer` session, skips some) up to one end. `StdinStream`
implements it with `gaps <- nobuffer, at <- position, eof <- eofAt, open <- stdinOpen, delivered <- times`.

### LiveOutput

The drains, the wait task, the broadcast queues with their lag, and one client's
sender, whose `pc` follows the loop of `send_live_output`: preferred queue, stdout,
stderr, enable, check of the metadata, select. A chunk is one unit of the
stream, with an `offset` (what the frame says) and a `content` (which chunk it
really is), so that a gap in the offsets and a gap in the bytes are different
things. `got`, `expected` and `gap` are what the client has seen.

### GroupCancel

The opted-in cancellation. `Cancellation::step` runs under the mutex (`Stepping`),
but the kernel does not wait for it, so the step is split at its system calls:
`Enter`, `Probe`, `Term`, `Kill`, `Settle`. `view` is what the owner read under the
metadata lock before. The group is a leader, which may leave the group, create it
again, exit and be reaped, and `members` other processes; nothing else is
assumed of them, and a signal has no effect but to have found a group or not.
`Request`, `Arm`, `Look`, `Await`, `Wake`, `Answer` follow `cancel_hardened`; `Stop` is
the finite output policy's entry into the same operation.

### BoundedOutput

The finite output policy. The facts stand behind the metadata mutex, and each of
its critical sections is one step; `Fact` is what `fact()` tells of them. The
collector's `cpc` follows the loop of `collect`: `Top` (enable, snapshot), `Decide`
(deadlines, tail, giving up), the select (`Wake`, `WriteBack`, `ReadSome`, `ReadEof`,
`ReadError`), `Reserve`, `Stop`, `Admit`. Each stream's blocking writer (`wpc`) is a
thread of its own: `WriteSome`, `WriteDone`, `WriteFails`, `WriteFault`, `WriteStart`,
`Unpin`; the bytes a failed write gives back, the typed fault, the admission of the
cancellation and the release of the pin are four steps, as in `write_prefix`. A
byte is a position of its stream: `src` is the next one in a writer's buffer, `read`
the history of how many came out of the pipe. The sender (`spc`) takes a snapshot,
replays behind the gate (`rpc`; a dropped attachment leaves its reader behind), sends a
frame, or checks for `OutputEnd`. The cancellation is as its users see it: it is
started, latches the group's absence after the exit, settles with both pipes at their end
or fails; `GroupCancel` has its inside. `verified` is false where the pidfd could not be
acquired after the launch: nobody may attach and no operation can start. A pipe that could not
be set up leaves its collection unconfirmed and the session stopped from the start; where it is
that of stdin, the session is stopped and both outputs are collected.

Left out: `WorkerLost`, which needs a writer thread to panic; the alternation
between the streams, of which any choice is possible here; receipts of stdin, which
share the sender's select but no state of it.

### BufferedReplay, OutputLog

The output of an ordinary buffered session. Each stream has its drain (`Take`, `WriteSpool`,
`Publish`, `CloseStream`, `NotifyDrain`, with `OpenFails`, `ReadFails`, `WriteFails`), and the
attached client its sender, whose `pc` follows `send_buffered_output`: enable, snapshot of the
metadata (`Look`), read of the file behind the snapshot's end (`Read`), frame, exit, sleep.
`file` is the spool and `end` what was recorded of it, so that a byte can be in the file
and not in the metadata, and the other way round never. Clients detach, resume behind what they
have (`Resume`) or come anew (`Fresh`); what was on the wire is lost.

`OutputLog` is the promise: each stream a log that grows and is closed, a client that is given
a prefix of it, and the exit, told when the client has all of both. `BufferedReplay`
implements it (`ImplementsLog`). An ordinary read error closes a stream, and a failed write
leaves it open for ever (`Abandoned`): nothing is then told as complete. Both are what
`src/design.md:436-443` says.

### SessionLifetime

The end of `run`: the accept loop (`Accept`, `AcceptFails`, `NapEnds`, `Shutdown`,
`ExpiryTick`), the count of connections, and the ordinary session's own task, split
where it polls (`SeesTerminal`, `SeesNobody`, `SleepEnds`, `SeesNobodyAgain`, `Send`). The
operation, the collection and the output I/O are flags that the rest of the session sets; the
operation is finished from the start where no pidfd could be acquired.
An expiry tick is one step: it holds the metadata and the cancellation, and the count it read
can only have gone down meanwhile. `quiet` and `vacated` are history.

### Startup

Creators of one identifier race for its directory. A proxy's steps are those of
`start_broker`, a broker's those of `run` up to the launch. `dir` says who made the directory
that is at the path now: `remove_dir_all` works on the path, whoever made it. A broker can
be killed in each state, hang, or fail. `End` assumes that a session does not end
while the proxy that created it is still in its loop of 20 ms and five seconds; otherwise
a slow proxy may meet the marker of a later session.

### ProxyRelay

`proxy_attachment` and `relay_streams` against a broker that sends any frame at any time.
A frame is an offset and a length, `given` the offsets of the bytes the client got. `Begin` and
`Written` are the two sides of the write that the other half of the select! may tear
(`Torn`). `Top` stands for `u64::MAX`.

### OuterWrapper

The wrapper's attempts (`Start`, `NoAnswer`, `Refused`, `Opened`, `Send`, `AskEof`, the EOF
control, `Copy`, `Stop`, `Finish`), their fatal ends (`SpawnFails`, where the transport
cannot be started, on a retry too, and `Unreadable`, where its opening is no answer), the transports, which break at any point and keep any part of
what was under way, and a remote proxy and a session as they look from there. An attempt that
was given up leaves its proxy behind: it may still create, attach, deliver input and
hold the slot. A transport may close one of its streams and go on (`StreamEnds`), and the wrapper then
waits for its end and asks for no EOF any more. `wrote` has what every run of the command was
given, so that a second run would be given again what the first one had. A byte of output names the session that it comes from, a byte of input the offset
at which it was read and at which it was delivered. The session here repeats in short what
`StdinStream`, `BufferedReplay` and `SessionLifetime` have in full. One output stream stands for
both. `Expire` assumes that a request which a lost transport had already
delivered is acted on before a TTL has passed.

### LegacyCancel

`cancel_process_group`, a request at a time: `KILL` after the grace period, the look at the group
by its number, the wait for the terminal state. The processes are those of `GroupCancel`; in
addition the number can be given to strangers when nothing of the group is left (`Recycle`).

## 3. The runs

A run checks the safety and, under the specification with fairness, the liveness of one
component; the finite output policy has two.

| Run | Instance | What it shows |
|---|---|---|
| `stdin` | 2 connections, generations 1 and 2, offsets 0..2, frames up to 2 bytes; a buffered opted-in session and an ordinary `--nobuffer` one | Each byte once and in takeover order, one exact end, `InputPipe`; a forced client gets past the lock and its victim leaves |
| `live_output` | queue of 1, up to 3 chunks of stdout and 1 of stderr | Accounting from hello to Exit; a lag shows; the sender never sleeps through the end |
| `live_exit_skips_queue` | queue of 1, 1 chunk a stream | A violation, see section 5 |
| `cancel` | a client that asks again, the policy's stop, a leader and 1 member, grace 1, settlement 1 | Signals, settlement and outcomes; the operation ends and is answered |
| `bounded_collect` | budget 2, reads up to 2, tail 1, 3 bytes a stream, nobody attaches, files may hang | Budget, accounting, prefixes; the collection ends after a stop or a cancellation |
| `bounded_end` | budget 1, 1 byte of stdout, attachments that leave a reader behind | Seal and `OutputEnd` are final, and told to a client that stays |
| `replay` | 2 bytes of stdout and 1 of stderr, reads of 1, one frame on the wire, faults | The spool is replayed whole, as an `OutputLog`; the sender never sleeps through the end |
| `lifetime` | 2 connections, TTL 2, every mode | No session ends in use or before its TTL; an unused one ends |
| `startup` | 2 creators, each with any options, brokers killed | A launched session with a limit keeps its directory and no creator is told a wrong thing; every creator is answered |
| `relay` | offsets 0..3, frames up to 2 bytes, every frame there is | Each byte from the hello's offset on once |
| `outer` | 2 proxies, 2 bytes in all, window 1, 1 break, 2 creations, expiry | Input once, output of one session once, a complete exit, and the wrapper ends with the command's exit unless its transport or its own output fails for good |
| `legacy_cancel` | 2 requests, 2 members and a leader, reuse of the number | An answer means an empty group, if the leader stayed; a cancellation gets past the group, and is answered if the outputs close |

Why these bounds are enough to see the interesting cases. Two connections are
the predecessor and the successor of a takeover; a third generation, which would be the
takeover of the successor, is left to the proofs. Two bytes and frames of two give
overlap, partial writes and a resend on either side of a declared end.
`MaxPos` plays `u64::MAX`: frames that would pass it are among the inputs, and so is
the exhausted generation. The kind of session is chosen in the initial state: the client of a
`--nobuffer` session skips bytes, in its opening (`Resumed`) or by a frame (`Logical`). A queue of one with three
chunks overflows twice, so a client can lag, recover and lag again. A client of a
cancellation that asks again, with the policy's stop beside it, starts the operation, joins it
or comes late; any number of them is left to the proofs. One group member besides
the leader is enough for the group to outlive its leader and to be joined again. Grace and
settlement of one tick each separate before, at and after each deadline. A budget of two with
three bytes a stream is met exactly by one stream or by both, and passed by one byte
or two; reads and writes of two can be cut in the middle (`bounded_end`, with
one byte of output and a limit of one, has no stop at the limit, and its constraint no read error
and no pipe that was not set up: its liveness is that of the sender, and these ends of the
collection are in `bounded_collect`); a tail of one byte has its
cap reached and not reached. Two bytes read one at a time let the drain record while the
sender is between its snapshot and its read. A TTL of two has a middle. Two creators
are the one that lost its broker and the one that comes after. Two remote proxies are the one
left behind and its successor, and one byte more than the window slides it. In the relay two
bytes behind an offset of two pass `Top`, overlap the position or leave a gap. Two requests and
two members let one cancellation answer while the other still signals. No run uses SYMMETRY,
for with liveness it would not be sound.

Three runs restrict their environment by an ACTION_CONSTRAINT, `Small` of the MC module, which forbids
only steps that no fairness is stated of. In `bounded_end` it leaves out attachments that go after
their replay, stdout before the end of stderr, failures before the deadline and notifications
without a change. In `outer` it bounds the bytes of both directions together; a session expires before there is
input, or with one byte of it and no output, and only a session with input has its stdin closed by
the command. In `stdin` it leaves out one of the two names under which an ordinary session records
the result of the wait, which nothing tells apart.

Fairness. WF of a task's own steps: tokio polls a task that was woken. SF of
taking `child_stdin`: the tokio mutex is first in, first out, so whoever waits is
served when it is released again and again. WF of `Tick`: time passes. In
`BoundedOutput` WF of the clock (`DeadlinePasses`, `TailPasses`, the owner's failure at
its deadline), of the collector and of the steps of a writer that wait for no file;
`bounded_end` also has WF of the files and of the sender, since a stuck file
does keep `OutputEnd` back. In
`BufferedReplay` and `LiveOutput` WF of the sender includes its writes, so `ExitReached` is about a client
that reads. In `SessionLifetime` WF of the clock and of the TTL task, and SF of `Shutdown`
and `ExpiryTick`, since select! chooses among ready branches at random and `accept` may be
ready for ever. In `Startup` WF of each proxy's steps and of its deadline, not of a broker's.
In `OuterWrapper` WF of the wrapper and of the proxies' steps, and the control's transport is
assumed to answer or fail; `SpawnFails`, `Unreadable` and `StreamEnds` may happen and need not. In
`LegacyCancel` WF of the request, of the clock, of a group that was
sent KILL, and of the broker's record of the exit, but not of the end of the outputs. Nothing is assumed of the command: it may never read, never exit, never
close its outputs; of a client: it may never send, and may go at any time; or of the
processes of the group, which may outlive every signal.

Most properties of a run are conjunctions of named parts, the types among them:
`InOrderOnce`, `Occupied`, `Outcomes`, `Reliable`, `Budget`, `Prefix`, `Final`, `Relayed`; each part is stated
and explained for itself in its module.

Every property has a mutant in `PROJECT.json`: a slip in one definition that the
run then finds, such as an EOF compared before the write, a cursor one off, a KILL
repeated each tick or a future enabled after the look. Mutated operators stand beside
the original with a suffix and a comment, and nothing else refers to them.

## 4. The proofs

`StdinStreamProofs` proves for every set of connections, every kind of session and every
limit, assuming only `ConstantsAssumption`:

* `TypeCorrect`; `Invariance` of `IInv`; from it `Delivery` (`InOrderOnce`, which is
  `ExactlyOnce` and `TakeoverOrder`), `EndOfInput` (`EofExact`: the end of stdin is where the position meets the declared
  EOF, and otherwise it is only closed behind a recorded result of the wait for the command, which
  may be a failure of the wait, or where there never was a pipe), `Receipts` (`ReceiptsCovered`),
  `Occupancy` (`Occupied`, which is `SlotOwned` and `HolderCancellable`), `Fencing` (`FencedStream`: who
  changes the stream or is promised a receipt is the newest connection) and
  `Refinement` (`ImplementsPipe`).

`TakeoverOrder` is not inductive: a displaced connection between two polls could
write, if it were let. `AuthorityInv` says who may act: the slot holds nobody or the
newest generation, generations are not shared, and whoever lost the slot has been
told. `LockInv` ties the lock to the tasks that hold it. With them a writer
is the newest generation, hence at least as new as the writer of any earlier byte;
`DeliveryInv` adds that no recorded writer is from the future. `AppendDelivers`
isolates the arithmetic of one write, so that the step only has to show that the
write begins at the position.

`GroupCancelProofs` proves for any number of requests, any deadlines and groups of
any size, assuming only `CancelAssumption`:

* `TypeCorrect`, `Signals` (`OneTermOneKill`), `SettledForGood` (`AbsenceFinal`),
  `Outcome` (`Outcomes`: `SettledTruth`, `OutcomeHonest`, `OneWinner`), `Finality` (`ResultFinal`).

The strengthening says that what the owner read before its step is still true
(`WorldInv`: an exit is not taken back), that the owner stands where the phase says
(`ControlInv`), that a group given up is gone for good because its leader is reaped and a
group that does not exist cannot be joined (`AbsenceInv`), how many signals were sent by
each point of the step (`SignalInv`), and that at most one request started the operation
(`RequestInv`). TLC checked each part before it was proved.

The same module has the ordinary cancellation: `Ordinary` is `LegacyCancel` over the same processes,
with variables of its own for the requests, and `OrdinaryLeavesNothing` (`LeftEmpty`) follows from
`OrdinaryInv`. A leader that never left its group is in it, so an empty group has a reaped leader
and nobody can fork or come back. That the number is given away only when the leader is reaped is
a part of the invariant: the type invariant alone is lost when a leader comes back to a number
that was given away.

`SessionLifetimeProofs` proves for every set of connections and every TTL, assuming only
`LifetimeAssumption`:

* `IdleForTheTtl` (`HardenedIdle`) and `ServedForTheTtl` (`OrdinaryServed`), both from
  `Lifetime`, the invariance of `LifetimeInv`.

Neither property is inductive, since both speak only of a session that has ended. `IdleClock`
says that while `idle_since` runs nothing uses the session, and that it is no longer than the
quiet time: although only `Accept` and the tick write it, every step that begins a use needs a
connection, the operation or the collection, each of which keeps the clock reset.
`TaskClock` follows the TTL task by its places, and `Vacancy` says that a terminal command with
nobody connected has been noticed. `RecordedStep` covers in one lemma what accepting, leaving
and the rest of the broker do.

`StartupProofs` proves for any number of creators, killed or not, assuming only
`StartupAssumption`:

* `RetainedForever` (`Retained`) and `ToldTruthfully` (`Truthful`), from `StartupInv`.

Both have the premise that all creators ask for a limit, and so has the invariant. `Owner` says that
the path belongs to whoever has a proxy or a broker at work on it, so that a removal by path
hits nobody else's directory; `Progress` what a broker can have done by where its creator is,
in particular that a clean-up runs only behind a broker that never launched; `Marked`
that the marker is gone before the launch; and `Answer` that nothing runs any more which could belie
what was told.

`LiveOutputProofs` proves for every queue length and any number of chunks, assuming only
`LiveAssumption`:

* `Reliability` (`Reliable`), from `LiveInv`.

`Flow` keeps a drain at most one chunk ahead of its queue; `Behind` keeps the sender's position behind
its receiver's cursor from the first chunk on that it writes, so that what it drops as covered is
what the hello covers; `InHand` says that the chunk it holds came out of the queue at its own offset.
Without the last two a write could be counted for a chunk that nobody received.

`BufferedReplayProofs` proves for any amount of output, every read size and every length of the
wire, assuming only `ReplayAssumption`:

* `ReplayedInFull` (`Replayable`), from `ReplayInv`;
* `LogImplemented` (`ImplementsLog`): the initial states are a log's, and each step
  adds to the log, closes it, delivers the next bytes, starts a client or leaves all as it was.

The parts of `ReplayInv` follow a byte on its way: the spool is what was printed so far and its
recorded end is never ahead of it (`Spool`), the frames on the wire continue what the client has
(`InFlight`), the sender's snapshot is never ahead of the record (`Snapshot`), what it has in its
hand continues the wire (`InHand`), and nothing is behind an exit (`ExitLast`). The log of the
mapping is the recorded part of the file (`Recorded`).

`BoundedOutputProofs` proves for every limit, read size, tail size and amount of output, assuming
only `BoundsAssumption`:

* `BudgetKept` (`Budget`), `PrefixFaithful` (`Prefix`) and `EndIsFinal` (`Final`), from `BoundsInv`.

None of the three is inductive. `Pins` says that the I/O count is the writers, the pending
reservation and the replay, and no more, so that a sealed fact has nobody behind it. `ViewInv` says
that the collector's snapshot of the budget is the budget still when it reads, unless a file failed
meanwhile, and `HandInv` that a read which finds its stream's writer busy found no budget, so that
a second writer is never started. `Excess` counts the byte beyond the budget, `TailInv` says that
the tail is read with the group gone and the writers back, and `EndInv` that a fact which the
sender took for final has no worker, no reservation and nothing unsent behind it from then on.

`OuterWrapperProofs` proves for any number of proxies, any amount of input and output, every window
and any number of broken transports and of creations, assuming only `WrapperAssumption`:

* `TypesHold` (`TypeOK`), `InputDelivered` (`InputOnce`), `OutputDelivered` (`OutputOnce`) and
  `ExitIsComplete` (`ExitComplete`), from `WrapperInv`.

None of these is inductive, since they speak of the wrapper and of the command, and most of the state
is on the way between them. `Shapes` types the messages and `Attempt` says where the current attempt and
its transport stand. `Behind` is about a proxy that was left behind: it answers nobody, only the
holder of the slot has input under way, and what it was asked to do stays true of the local input.
`Sole` says that nobody creates a session behind one that the wrapper has reached, without
which the output of two sessions could mix; `Fresh` that a wrapper which was never attached has sent
nothing, so that a session created again is never behind one that was given input. `Input` says that the bytes under way continue at the
session's position and that the wrapper's own position is not ahead of them. `Flow` says that
the output under way continues what was written (`Written`), and counts it: exactly where the
transport was silent, and otherwise up to `Spare`, the bytes that the transport may have added. The
bound by what the proxy has sent came out of a failed proof, since a bound by the end of
the output alone does not survive the next byte that the proxy sends. `Final` says that a proxy which told of the exit has
told of all the output. What many actions do is proved once: an attempt that ends (`Quit`), a
transport that breaks (`Sever`), a byte that joins those under way (`Joins`), a request that is
accepted or declined (`Advance`, `Decline`).

The same module has the proxy's relay: `Relay` is `ProxyRelay` with variables of its own, and
`ClientRelayed` (`Relayed`) holds for every top offset and frame length (`RelayBounds`), from
`RelayInv`: besides that what was given has no gap, the position counts it together with the frame in
hand (`Positioned`, `InHand`), and an end that was told is that of the position (`Told`).

TLC checked each of these invariants on small instances of its component before it was proved.

Only model-checked: the liveness properties (TLAPS does not prove liveness under fairness or
ENABLED here), and that mutants are caught. Every safety property of a run that passes is stated by a
theorem.

## 5. Findings

`live_exit_skips_queue`. `src/src/broker.rs:1311` says at the place where Exit is sent "Any
missing bytes have already fallen out of the live queue." The sender reads the
metadata after its last `try_recv` and does not look at the queues again: a
chunk recorded and published in between is in the queue when Exit is sent. The same
happens after a lag, whose error `try_recv` reports and the sender ignores, although
the newest chunk is retained. The client is told Exit, which has no offset, and
cannot see that output is missing.

In four more places what the code does is the reason for a premise of a property. TLC shows each of
them when the premise is dropped; no run is kept for them.

* `OrdinaryServed` speaks of one TTL. `src/README.md:318` says "A broker keeps completed output
  and exit state for the TTL so a final transport failure can still be resumed." The task of an
  ordinary session sleeps the TTL once, from the first moment at which the command is
  terminal and nobody is connected (`src/src/broker.rs:353-366`). A client that came back within
  the TTL and then loses its transport finds no session, and one that is accepted between the
  last look at the count and the shutdown message is cut off (`Active = {} /\ quiet = TTL` does not
  hold at the end). The opted-in tick starts the TTL again.
* `Retained` is about creators that all ask for an output limit. `src/src/broker.rs:153` says "Once
  dispatch is possible the broker owns cleanup." In an ordinary session the proxy owns it too:
  when its deadline has passed and its last connect failed just before the broker bound its
  socket, it kills the broker, which may have launched the command, and removes the
  directory (`src/src/server.rs:232-241`).
* So is `Truthful`. `src/design.md:167` says "Creation fails if the ID already exists." A broker
  without an output limit that fails removes its directory itself; another creator makes
  it anew before the first proxy looks again, and that proxy attaches its client to the other's
  session.
* `LeftEmpty` is about a leader that has never left its group (`strayed`). `src/design.md:108-110`
  says that cancel "waits until the entire process group is settled and the broker has recorded the
  terminal result". In an ordinary session these are two waits in a row
  (`src/src/broker.rs:1546-1550`): a leader that is out of its group at the first comes back,
  forks and exits, and the answer is given while its child lives.

Two properties of progress have premises that the code does nothing to bring about, and no document
promises it.

* `RequestEnds` promises an answer only if both outputs close some time. The last wait of an ordinary
  cancellation is for the terminal state and has no deadline (`src/src/broker.rs:1550-1551`). A
  descendant that has left the group keeps a pipe open (`src/README.md:146-151`), and a drain that gave up
  on its spool leaves its stream open for ever (`src/src/broker.rs:428-431`, `471-474`): the
  request is then never answered. Getting past the group needs no such premise, but that the leader
  does not come back and that the number is not given to another group. A wait for the child that
  fails, which records a synthetic exit, is not in `LegacyCancel`.
* `ExitTold` of the wrapper ends with the command's exit only if every transport can be started and its
  opening read (`src/src/outer.rs:94-96`, `119-126`: either failure ends the wrapper, on a retry
  too, with the session retained), if local output can be written, if the transport is silent on stderr,
  and if the session is still there. A wrapper that keeps only a window of its input
  (`--nobuffer`) before a buffered session is not meant at all: it bails on "buffered stdin contains a gap"
  when the window has slid past what the session has. Transports break as often
  as `Breaks` allows, once in the run.

Seen while modelling, and no disagreement with what is documented: the wrapper counts
whatever the transport says on stderr as output (`src/design.md:266-300`); when its first creation
is still under way while a second one is sent, "already exists" ends the wrapper although the
command runs; a local read error of stdin, or a failed write of its spool, looks like the end of
input; a raw relay whose broker ends without Exit reports success; a failed write of the log or
of the marker (`src/src/server.rs:183-187`) leaves a directory without a broker.

## 6. What is not modelled

Not modelled: argument parsing and help, directory naming, the build script, byte layout and JSON
encodings, log texts. They hold no state and are sequential, and their tests reach them. The
system calls behind `group_pidfd.rs` and the reading of the SIGCHLD disposition are the
kernel's; the models say what they may report. `WorkerLost` needs a panic in a writer thread.
The end of a drain whose recorded end would pass `u64::MAX` (`src/src/broker.rs:460-467`) needs 2^64 bytes of output.
A wrapper whose `child.wait()` fails ends at once (`src/src/outer.rs:201-203`); that is the
kernel's refusal to wait for a child of its own. A pipe of the finite output policy that could not be set up
has its collection unconfirmed together with the stop, where the code has one step after
the other before anybody may attach.
Framed input passes through the relay unchanged. Dropped attachments of one session are followed
one by one in `BufferedReplay`, since a displaced sender writes only to its own socket.
