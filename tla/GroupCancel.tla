----------------------------- MODULE GroupCancel -----------------------------
(***************************************************************************)
(* Cancellation of an opted-in (group-pidfd-cancel-v1) session:            *)
(* src/src/cancellation.rs, with the task that owns the operation and the  *)
(* requests that join it (src/src/broker.rs), against the processes of the *)
(* command's original group, which fork, exit, leave and come back as the  *)
(* kernel lets them.                                                       *)
(*                                                                         *)
(* The cancellation mutex is held over a whole step of the operation, but  *)
(* the kernel does not hold still: the step is split at its system calls.  *)
(* A signal has no effect of its own here, because a process may end at    *)
(* any moment anyway and may ignore TERM; what counts is whether a group   *)
(* was there to receive it.                                                *)
(***************************************************************************)
EXTENDS Integers

CONSTANTS Clients,      (* control connections that ask for cancellation     *)
          Grace,        (* time from admission to KILL                       *)
          Settlement,   (* time from KILL to giving up                       *)
          MaxMembers    (* bound on the group's processes besides its leader *)

ASSUME CancelAssumption ==
    /\ Grace \in Nat
    /\ Settlement \in Nat \ {0}
    /\ MaxMembers \in Nat

Deadline == Grace + Settlement

VARIABLES
    leader,      \* the command's leader: live, zombie or reaped
    leaderIn,    \* the leader is in its original group
    members,     \* other processes in that group
    waiter,      \* the one exact-child wait
    status,      \* Meta.status: the actual exit is recorded
    outputs,     \* both output streams: open, closed, or a read failed
    elapsed,     \* time since admission, as far as the deadlines tell apart
    phase,       \* Cancellation.phase
    signaled,    \* Cancellation.signaled
    absent,      \* Cancellation.group_absent; the handle is gone
    fault,       \* Cancellation.fault
    result,      \* Cancellation.result
    owner,       \* where the owning task stands
    first,       \* first_step
    view,        \* what the owner read before the step
    cpc,         \* where each request's handler stands
    mine,        \* the request started the operation
    woken,       \* its Notified future was notified
    terms,       \* history: TERM calls
    kills,       \* history: KILL calls
    delivered,   \* history: one of them found a group
    wins         \* history: requests answered with cancel_won

group == <<leader, leaderIn, members>>
meta == <<waiter, status, outputs>>
operation == <<phase, signaled, absent, fault, result>>
requests == <<cpc, mine, woken>>
history == <<terms, kills, delivered>>
vars == <<leader, leaderIn, members, waiter, status, outputs, elapsed, phase,
          signaled, absent, fault, result, owner, first, view, cpc, mine,
          woken, terms, kills, delivered, wins>>

Present == (leaderIn /\ leader # "reaped") \/ members > 0
Failure == waiter = "failed" \/ outputs = "failed"
Terminal == status /\ outputs = "closed"
Active == phase \in {"Term", "Kill", "NoSignal"}
Finished == result # "none"
Stepping == owner \in {"probe", "term", "kill", "settle"}   \* the mutex is held

TypeOK ==
    /\ leader \in {"live", "zombie", "reaped"}
    /\ leaderIn \in BOOLEAN
    /\ members \in 0 .. MaxMembers
    /\ waiter \in {"waiting", "reaped", "recorded", "failed"}
    /\ status \in BOOLEAN
    /\ outputs \in {"open", "closed", "failed"}
    /\ elapsed \in 0 .. Deadline
    /\ phase \in {"Ready", "Term", "Kill", "NoSignal", "Complete", "Failed"}
    /\ signaled \in BOOLEAN
    /\ absent \in BOOLEAN
    /\ fault \in {"none", "Unavailable", "Wait", "Deadline", "Signal"}
    /\ result \in {"none", "cancel_won", "already_exited", "error"}
    /\ owner \in {"none", "read", "enter", "probe", "term", "kill", "settle",
                  "notify", "sleep", "done"}
    /\ first \in BOOLEAN
    /\ view \in [exit : BOOLEAN, terminal : BOOLEAN, failure : BOOLEAN,
                 now : 0 .. Deadline]
    /\ cpc \in [Clients -> {"idle", "arm", "look", "looked", "wait", "told"}]
    /\ mine \in [Clients -> BOOLEAN]
    /\ woken \in [Clients -> BOOLEAN]
    /\ terms \in Nat /\ kills \in Nat /\ wins \in Nat
    /\ delivered \in BOOLEAN
    /\ Finished <=> phase \in {"Complete", "Failed"}

Nothing == [exit |-> FALSE, terminal |-> FALSE, failure |-> FALSE, now |-> 0]

(* verify_acquired: the pidfd was opened and probed, or the operation is    *)
(* failed from the start.                                                   *)
Init ==
    /\ leader = "live" /\ leaderIn = TRUE /\ members = 0
    /\ waiter = "waiting" /\ status = FALSE /\ outputs = "open"
    /\ elapsed = 0
    /\ \/ phase = "Ready" /\ fault = "none" /\ result = "none"
       \/ phase = "Failed" /\ fault = "Unavailable" /\ result = "error"
    /\ signaled = FALSE /\ absent = FALSE
    /\ owner = "none" /\ first = TRUE /\ view = Nothing
    /\ cpc = [c \in Clients |-> "idle"]
    /\ mine = [c \in Clients |-> FALSE]
    /\ woken = [c \in Clients |-> FALSE]
    /\ terms = 0 /\ kills = 0 /\ delivered = FALSE /\ wins = 0

-----------------------------------------------------------------------------
(* The processes of the group, by the kernel's rules. *)

broker == <<operation, owner, first, view, requests, history, wins, elapsed>>

(* A process forks in the group, or joins it: only a group that exists can  *)
(* be joined.                                                               *)
Join ==
    /\ Present
    /\ members < MaxMembers
    /\ members' = members + 1
    /\ UNCHANGED <<leader, leaderIn, meta, broker>>

(* A process exits and is reaped, or leaves the group. *)
Go ==
    /\ members > 0
    /\ members' = members - 1
    /\ UNCHANGED <<leader, leaderIn, meta, broker>>

(* A living leader may leave its group, and may create it anew. *)
LeaderMoves ==
    /\ leader = "live"
    /\ leaderIn' = ~leaderIn
    /\ UNCHANGED <<leader, members, meta, broker>>

LeaderExits ==
    /\ leader = "live"
    /\ leader' = "zombie"
    /\ UNCHANGED <<leaderIn, members, meta, broker>>

-----------------------------------------------------------------------------
(* The wait task and the drains. *)

\* Mutant: a future hears only what is said while it is awaited.
NotifyWaiters_Awaited == woken' = [c \in Clients |-> woken[c] \/ cpc[c] = "wait"]

(* notify_waiters: a request's future is enabled from Arm on. *)
NotifyWaiters == woken' = [c \in Clients |-> woken[c] \/ cpc[c] \in {"look", "looked", "wait"}]
Quiet == <<operation, owner, first, view, cpc, mine, history, wins, elapsed>>

Reap ==
    /\ waiter = "waiting" /\ leader = "zombie"
    /\ leader' = "reaped"
    /\ waiter' = "reaped"
    /\ UNCHANGED <<leaderIn, members, status, outputs, broker>>

RecordStatus ==
    /\ waiter = "reaped"
    /\ waiter' = "recorded"
    /\ status' = TRUE
    /\ NotifyWaiters
    /\ UNCHANGED <<group, outputs, Quiet>>

(* A failed wait is a failure and never an exit in an opted-in session. *)
FailWait ==
    /\ waiter = "waiting"
    /\ waiter' = "failed"
    /\ NotifyWaiters
    /\ UNCHANGED <<group, status, outputs, Quiet>>

CloseOutputs ==
    /\ outputs = "open"
    /\ outputs' = "closed"
    /\ NotifyWaiters
    /\ UNCHANGED <<group, waiter, status, Quiet>>

FailOutput ==
    /\ outputs = "open"
    /\ outputs' = "failed"
    /\ NotifyWaiters
    /\ UNCHANGED <<group, waiter, status, Quiet>>

-----------------------------------------------------------------------------
(* The owning task. *)

Tick ==
    /\ Active
    /\ elapsed < Deadline
    /\ elapsed' = elapsed + 1
    /\ UNCHANGED <<group, meta, operation, owner, first, view, requests, history, wins>>

Fail(why) ==
    /\ phase' = "Failed"
    /\ fault' = why
    /\ result' = "error"
    /\ owner' = "notify"
    /\ UNCHANGED <<signaled, absent>>

Step(at) ==
    /\ owner = at
    /\ UNCHANGED <<group, meta, requests, elapsed, wins>>

(* The metadata is read under its own lock, before the step. *)
Read ==
    /\ Step("read")
    /\ owner' = "enter"
    /\ view' = [exit |-> status, terminal |-> Terminal, failure |-> Failure, now |-> 0]
    /\ UNCHANGED <<operation, first, history>>

\* Mutant: once no signal is left to send, the deadline is not looked at.
Expired_Signalling == phase # "NoSignal" /\ elapsed >= Deadline

Expired == elapsed >= Deadline

(* Cancellation::step, up to its first system call.  The order of the       *)
(* checks is the code's: a failure, then the deadline, then the group.      *)
Enter ==
    /\ Step("enter")
    /\ view' = [view EXCEPT !.now = elapsed]
    /\ \/ view.failure /\ Fail("Wait")
       \/ ~view.failure /\ Expired /\ Fail("Deadline")
       \/ /\ ~view.failure /\ ~Expired
          /\ owner' = IF phase = "NoSignal" THEN "settle" ELSE "probe"
          /\ UNCHANGED operation
    /\ UNCHANGED <<first, history>>

\* Mutant: KILL is repeated on every step after the grace period.
KillDue_Always == phase \in {"Term", "Kill"} /\ view.now >= Grace

KillDue == phase = "Term" /\ view.now >= Grace

(* Any system call on the pidfd may fail; the operation then stops. *)
SyscallFails ==
    /\ \/ Step("probe")
       \/ Step("term")
       \/ Step("kill") /\ KillDue
    /\ Fail("Signal")
    /\ UNCHANGED <<first, view, history>>

\* Mutant: an empty group is taken for a finished one.
Settled_Empty == ~Present

(* Signal zero finds no group, and the leader was reaped before. *)
Settled == ~Present /\ view.exit

Probe ==
    /\ Step("probe")
    /\ IF Settled
       THEN /\ absent' = TRUE /\ phase' = "NoSignal" /\ owner' = "settle"
            /\ UNCHANGED <<signaled, fault, result>>
       ELSE /\ owner' = IF first THEN "term" ELSE "kill"
            /\ UNCHANGED operation
    /\ UNCHANGED <<first, view, history>>

\* Mutant: the last call decides.
Signal_Last == signaled' = Present /\ delivered' = (delivered \/ Present)

Signal ==
    /\ signaled' = (signaled \/ Present)
    /\ delivered' = (delivered \/ Present)

Term ==
    /\ Step("term")
    /\ Signal
    /\ terms' = terms + 1
    /\ owner' = "kill"
    /\ UNCHANGED <<phase, absent, fault, result, first, view, kills>>

Kill ==
    /\ Step("kill")
    /\ IF KillDue
       THEN Signal /\ kills' = kills + 1 /\ phase' = "Kill"
       ELSE UNCHANGED <<signaled, delivered, kills, phase>>
    /\ owner' = "settle"
    /\ UNCHANGED <<absent, fault, result, first, view, terms>>

\* Mutant: the group's absence alone settles the operation.
Complete == phase = "NoSignal" /\ view.terminal

Settle ==
    /\ Step("settle")
    /\ IF Complete
       THEN /\ phase' = "Complete"
            /\ result' = IF signaled THEN "cancel_won" ELSE "already_exited"
       ELSE UNCHANGED <<phase, result>>
    /\ owner' = "notify"
    /\ UNCHANGED <<signaled, absent, fault, first, view, history>>

Notify ==
    /\ owner = "notify"
    /\ NotifyWaiters
    /\ owner' = IF Finished THEN "done" ELSE "sleep"
    /\ first' = FALSE
    /\ view' = Nothing
    /\ UNCHANGED <<group, meta, operation, cpc, mine, elapsed, history, wins>>

Sleep ==
    /\ Step("sleep")
    /\ owner' = "read"
    /\ UNCHANGED <<operation, first, view, history>>

-----------------------------------------------------------------------------
(* Requests. *)

ask == <<group, meta, first, view, history>>

\* Mutant: every request starts an operation.
Starts_Always == phase # "Complete"

Starts == phase = "Ready"

(* start_hardened: the operation is admitted and its task spawned; whoever   *)
(* comes later joins.                                                       *)
StartHardened ==
    /\ ~Stepping
    /\ IF Starts
       THEN phase' = "Term" /\ owner' = "read" /\ elapsed' = 0 /\ first' = TRUE
       ELSE UNCHANGED <<phase, owner, elapsed, first>>
    /\ UNCHANGED <<group, meta, signaled, absent, fault, result, view, history, wins>>

(* cancel_hardened *)
Request(c) ==
    /\ cpc[c] = "idle"
    /\ StartHardened
    /\ cpc' = [cpc EXCEPT ![c] = "arm"]
    /\ mine' = [mine EXCEPT ![c] = Starts]
    /\ UNCHANGED woken

(* A finite output policy stops the command by itself: its reason is not    *)
(* told here, its cancellation is the same one.                             *)
Stop ==
    /\ StartHardened
    /\ NotifyWaiters
    /\ UNCHANGED <<cpc, mine>>

(* Notified::enable, then the result under the mutex, then sleep. *)
Arm(c) ==
    /\ cpc[c] = "arm"
    /\ cpc' = [cpc EXCEPT ![c] = "look"]
    /\ UNCHANGED <<ask, operation, owner, elapsed, mine, woken, wins>>

Look(c) ==
    /\ cpc[c] = "look"
    /\ ~Finished /\ ~Stepping
    /\ cpc' = [cpc EXCEPT ![c] = "looked"]
    /\ UNCHANGED <<ask, operation, owner, elapsed, mine, woken, wins>>

Await(c) ==
    /\ cpc[c] = "looked"
    /\ cpc' = [cpc EXCEPT ![c] = "wait"]
    /\ UNCHANGED <<ask, operation, owner, elapsed, mine, woken, wins>>

\* Mutant: whoever asks is told the operation's outcome.
Told(c) == IF result = "error" \/ mine[c] THEN result ELSE "already_exited"

Answer(c) ==
    /\ cpc[c] = "look"
    /\ Finished /\ ~Stepping
    /\ cpc' = [cpc EXCEPT ![c] = "told"]
    /\ woken' = [woken EXCEPT ![c] = FALSE]
    /\ wins' = IF Told(c) = "cancel_won" THEN wins + 1 ELSE wins
    /\ UNCHANGED <<ask, operation, owner, elapsed, mine>>

Wake(c) ==
    /\ cpc[c] = "wait"
    /\ woken[c]
    /\ cpc' = [cpc EXCEPT ![c] = "arm"]
    /\ woken' = [woken EXCEPT ![c] = FALSE]
    /\ UNCHANGED <<ask, operation, owner, elapsed, mine, wins>>

(* The reply was sent, or lost: the client may ask again on a new           *)
(* connection.  A handler that is not answered waits on.                    *)
Hangup(c) ==
    /\ cpc[c] = "told"
    /\ cpc' = [cpc EXCEPT ![c] = "idle"]
    /\ mine' = [mine EXCEPT ![c] = FALSE]
    /\ UNCHANGED <<ask, operation, owner, elapsed, woken, wins>>

-----------------------------------------------------------------------------
Processes == Join \/ Go \/ LeaderMoves \/ LeaderExits
Metadata == Reap \/ RecordStatus \/ FailWait \/ CloseOutputs \/ FailOutput
Owner == Read \/ Enter \/ Probe \/ Term \/ Kill \/ Settle \/ Notify \/ Sleep
Handle(c) == Arm(c) \/ Look(c) \/ Await(c) \/ Answer(c) \/ Wake(c)

Next ==
    \/ Processes
    \/ Metadata
    \/ Tick
    \/ Owner
    \/ SyscallFails
    \/ Stop
    \/ \E c \in Clients : Request(c) \/ Handle(c) \/ Hangup(c)

Spec == Init /\ [][Next]_vars

(* Time passes and the broker's tasks run.  The processes may live forever  *)
(* and ignore every signal, nobody need ask, and a client need not go.      *)
FairSpec ==
    /\ Spec
    /\ WF_vars(Tick)
    /\ WF_vars(Owner)
    /\ \A c \in Clients : WF_vars(Handle(c))

-----------------------------------------------------------------------------
(* Properties. *)

(* However many requests join, retry or race, an operation sends at most    *)
(* one TERM, and at most one KILL after it (src/README.md:111).             *)
OneTermOneKill == terms <= 1 /\ kills <= terms

(* group_absent latches the truth: from then on the original group does not *)
(* exist and nobody can bring it back, so no signal can be owed to it.      *)
AbsenceFinal == absent => ~Present /\ leader = "reaped"

(* A settled operation is settled in fact: the actual exit is recorded, the *)
(* outputs are at their ends, the group is gone, and nothing failed.        *)
SettledTruth ==
    result \in {"cancel_won", "already_exited"} =>
        Terminal /\ ~Present /\ absent /\ ~Failure

(* The outcome tells whether any TERM or KILL found a group to receive it.  *)
OutcomeHonest ==
    /\ result = "cancel_won" => delivered
    /\ result = "already_exited" => ~delivered

(* One request at most is told that its cancellation won. *)
OneWinner == wins <= 1

(* All three: a result speaks the truth, to whoever is told of it           *)
(* (Cancellation::step, broker.rs cancel_hardened).                         *)
Outcomes == SettledTruth /\ OutcomeHonest /\ OneWinner

(* A result, once there, never changes, and after it no signal is sent. *)
ResultFinal ==
    [][Finished => UNCHANGED <<result, terms, kills>>]_vars

(* The operation ends although the processes may survive everything. *)
OperationEnds == Active ~> Finished

(* Every request is answered, whether it started the operation, joined it   *)
(* or came when it was over, and no wake-up is lost on the way.             *)
RequestAnswered == \A c \in Clients : cpc[c] # "idle" ~> cpc[c] = "told"
=============================================================================
