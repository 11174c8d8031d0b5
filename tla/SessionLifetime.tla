--------------------------- MODULE SessionLifetime ---------------------------
(***************************************************************************)
(* How long a broker lives: the accept loop, the count of its connections, *)
(* and what ends the session (src/src/broker.rs, the end of run).          *)
(*                                                                         *)
(* An ordinary session is ended by a task of its own, which sleeps for the *)
(* TTL once and tells the loop by a channel.  An opted-in session is ended *)
(* by the loop itself, at one of its expiry ticks.  The tick reads the     *)
(* connections, the operation, the output policy and the terminal flag     *)
(* with the metadata and the cancellation locked; of these only the count  *)
(* of connections can change meanwhile, and only go down, so the tick is   *)
(* one step.                                                               *)
(*                                                                         *)
(* Time is the action Tick, which ages whatever is being measured.         *)
(***************************************************************************)
EXTENDS Integers

CONSTANTS Connections,   (* connections to the broker's socket; slots are reused *)
          TTL            (* PIPEKEEP_SESSION_TTL_SECS *)

ASSUME LifetimeAssumption == TTL \in Nat

None == -1
Ages == None .. TTL

VARIABLES
    mode,        \* ordinary, hardened (group_pidfd) or bounded (output_limit too)
    conn,        \* out, queued in the listener's backlog, or counted
    terminal,    \* the terminal watch channel
    operation,   \* Cancellation: none, active, finished
    collecting,  \* ~OutputFact.collected()
    pinned,      \* OutputFact.io_inflight # 0
    loop,        \* the accept loop: select, nap, ended, failed
    idleSince,   \* age of idle_since, or None
    task,        \* the ordinary TTL task
    slept,       \* how long it has slept
    vacated,     \* history: age of the first moment that was terminal and without connections
    quiet        \* history: time since anything last kept the session

facts == <<terminal, operation, collecting, pinned>>
ttlTask == <<task, slept>>
history == <<vacated, quiet>>
vars == <<mode, conn, terminal, operation, collecting, pinned, loop, idleSince,
          task, slept, vacated, quiet>>

Hardened == mode # "ordinary"
Alive == loop \in {"select", "nap"}

(* active_attachments counts every connection, not only attachments.       *)
Active == {c \in Connections : conn[c] = "counted"}

TypeOK ==
    /\ mode \in {"ordinary", "hardened", "bounded"}
    /\ conn \in [Connections -> {"out", "queued", "counted"}]
    /\ terminal \in BOOLEAN
    /\ operation \in {"none", "active", "finished"}
    /\ collecting \in BOOLEAN
    /\ pinned \in BOOLEAN
    /\ loop \in {"select", "nap", "ended", "failed"}
    /\ idleSince \in Ages
    /\ task \in {"terminal", "drain", "sleep", "again", "send", "sent"}
    /\ slept \in 0 .. TTL
    /\ vacated \in Ages
    /\ quiet \in 0 .. TTL

(* Without a pidfd an opted-in session has no operation left to wait for.   *)
Init ==
    /\ mode \in {"ordinary", "hardened", "bounded"}
    /\ conn = [c \in Connections |-> "out"]
    /\ terminal = FALSE
    /\ operation \in IF Hardened THEN {"none", "finished"} ELSE {"none"}
    /\ collecting = (mode = "bounded")
    /\ pinned = FALSE
    /\ loop = "select"
    /\ idleSince = None
    /\ task = "terminal"
    /\ slept = 0
    /\ vacated = None
    /\ quiet = 0

(* hardened_lifetime_state                                                 *)
Busy == Active # {} \/ operation = "active" \/ pinned \/ collecting
Eligible == terminal \/ operation = "finished"

(* What restarts the time without use, seen from outside of the loop.      *)
Kept == (IF Hardened THEN Busy \/ ~Eligible ELSE Active # {} \/ ~terminal)
Record ==
    /\ quiet' = IF Kept \/ Kept' THEN 0 ELSE quiet
    /\ vacated' = IF vacated = None /\ terminal' /\ Active' = {} THEN 0 ELSE vacated

----------------------------------------------------------------------------
(* Time.                                                                   *)
Older(age) == IF age = None \/ age = TTL THEN age ELSE age + 1

Tick ==
    /\ Alive
    /\ idleSince' = Older(idleSince)
    /\ slept' = IF task = "sleep" THEN Older(slept) ELSE slept
    /\ vacated' = Older(vacated)
    /\ quiet' = IF Kept THEN 0 ELSE Older(quiet)
    /\ UNCHANGED <<mode, conn, facts, loop, task>>

----------------------------------------------------------------------------
(* The accept loop.                                                        *)
Connect(c) ==
    /\ Alive /\ conn[c] = "out"
    /\ conn' = [conn EXCEPT ![c] = "queued"]
    /\ UNCHANGED <<mode, facts, loop, idleSince, ttlTask, history>>

\* Mutant: only the tick resets the idle clock.
AcceptKeepsClock(c) ==
    /\ loop = "select" /\ conn[c] = "queued"
    /\ conn' = [conn EXCEPT ![c] = "counted"]
    /\ UNCHANGED <<mode, facts, loop, idleSince, ttlTask>>
    /\ Record

Accept(c) ==
    /\ loop = "select" /\ conn[c] = "queued"
    /\ conn' = [conn EXCEPT ![c] = "counted"]
    /\ idleSince' = IF Hardened THEN None ELSE idleSince
    /\ UNCHANGED <<mode, facts, loop, ttlTask>>
    /\ Record

(* Out of descriptors: an opted-in broker waits, an ordinary one returns   *)
(* the error, and its guard removes the session.                           *)
AcceptFails ==
    /\ loop = "select"
    /\ \E c \in Connections : conn[c] = "queued"
    /\ loop' = IF Hardened THEN "nap" ELSE "failed"
    /\ UNCHANGED <<mode, conn, facts, idleSince, ttlTask, history>>

NapEnds ==
    /\ loop = "nap"
    /\ loop' = "select"
    /\ UNCHANGED <<mode, conn, facts, idleSince, ttlTask, history>>

Shutdown ==
    /\ loop = "select" /\ ~Hardened /\ task = "sent"
    /\ loop' = "ended"
    /\ UNCHANGED <<mode, conn, facts, idleSince, ttlTask, history>>

\* Mutant: insert in place of get_or_insert.
ExpiryTickRestarts ==
    /\ loop = "select" /\ Hardened
    /\ IF Busy \/ ~Eligible
       THEN idleSince' = None /\ loop' = loop
       ELSE /\ idleSince' = 0
            /\ loop' = IF 0 >= TTL THEN "ended" ELSE loop
    /\ UNCHANGED <<mode, conn, facts, ttlTask, history>>

(* hardened_expired                                                        *)
ExpiryTick ==
    /\ loop = "select" /\ Hardened
    /\ LET since == IF idleSince = None THEN 0 ELSE idleSince IN
       IF Busy \/ ~Eligible
       THEN idleSince' = None /\ loop' = loop
       ELSE /\ idleSince' = since
            /\ loop' = IF since >= TTL THEN "ended" ELSE loop
    /\ UNCHANGED <<mode, conn, facts, ttlTask, history>>

(* ConnectionGuard: the handler is done, or its client is gone.            *)
Leave(c) ==
    /\ Alive /\ conn[c] = "counted"
    /\ conn' = [conn EXCEPT ![c] = "out"]
    /\ UNCHANGED <<mode, facts, loop, idleSince, ttlTask>>
    /\ Record

----------------------------------------------------------------------------
(* The TTL task of an ordinary session.                                    *)
TaskMoves(from, to) ==
    /\ Alive /\ ~Hardened /\ task = from
    /\ task' = to
    /\ UNCHANGED <<mode, conn, facts, loop, idleSince, history>>

SeesTerminal == TaskMoves("terminal", "drain") /\ terminal /\ UNCHANGED slept
\* Mutant: the TTL runs beside the last attachment.
SleepsAtOnce ==
    TaskMoves("drain", "sleep") /\ slept' = 0

SeesNobody == TaskMoves("drain", "sleep") /\ Active = {} /\ slept' = 0
SleepEnds == TaskMoves("sleep", "again") /\ slept >= TTL /\ UNCHANGED slept
SeesNobodyAgain == TaskMoves("again", "send") /\ Active = {} /\ UNCHANGED slept
Send == TaskMoves("send", "sent") /\ UNCHANGED slept

TtlTask == SeesTerminal \/ SeesNobody \/ SleepEnds \/ SeesNobodyAgain \/ Send

----------------------------------------------------------------------------
(* What the rest of the broker does to the facts the lifetime reads.       *)
Fact(p) == Alive /\ p /\ UNCHANGED <<mode, conn, loop, idleSince, ttlTask>> /\ Record

BecomesTerminal ==
    /\ ~terminal /\ terminal' = TRUE
    /\ UNCHANGED <<operation, collecting, pinned>>

(* start_hardened by a connection's request, or by the policy's stop.      *)
OperationStarts ==
    /\ Hardened /\ operation = "none"
    /\ Active # {} \/ collecting
    /\ operation' = "active"
    /\ UNCHANGED <<terminal, collecting, pinned>>

OperationEnds ==
    /\ operation = "active" /\ operation' = "finished"
    /\ UNCHANGED <<terminal, collecting, pinned>>

CollectionEnds ==
    /\ collecting /\ collecting' = FALSE
    /\ UNCHANGED <<terminal, operation, pinned>>

(* A blocking write of the collector, or the replay of an attachment,      *)
(* which outlives it.                                                      *)
Pin ==
    /\ mode = "bounded" /\ ~pinned
    /\ Active # {} \/ collecting
    /\ pinned' = TRUE
    /\ UNCHANGED <<terminal, operation, collecting>>

Unpin ==
    /\ pinned /\ pinned' = FALSE
    /\ UNCHANGED <<terminal, operation, collecting>>

World ==
    \/ Fact(BecomesTerminal)
    \/ Fact(OperationStarts)
    \/ Fact(OperationEnds)
    \/ Fact(CollectionEnds)
    \/ Fact(Pin)
    \/ Fact(Unpin)

Next ==
    \/ Tick
    \/ \E c \in Connections : Connect(c) \/ Accept(c) \/ Leave(c)
    \/ AcceptFails \/ NapEnds \/ Shutdown \/ ExpiryTick
    \/ TtlTask
    \/ World

Spec == Init /\ [][Next]_vars

(* Time passes, the TTL task is scheduled, and a nap ends.  select! takes  *)
(* ready branches in random order, so neither the shutdown message nor a   *)
(* tick is starved by connections or by accept errors.                     *)
Fairness ==
    /\ WF_vars(Tick)
    /\ WF_vars(TtlTask)
    /\ WF_vars(NapEnds)
    /\ SF_vars(Shutdown)
    /\ SF_vars(ExpiryTick)

FairSpec == Spec /\ Fairness

----------------------------------------------------------------------------
(* design.md:421-425: an opted-in session does not end under a connection, *)
(* an active operation or unfinished output I/O, and when one of these     *)
(* ends, at whichever moment between two ticks, the session has the whole  *)
(* TTL once more.  Failures to accept do not end it.  With the types.      *)
HardenedIdle ==
    /\ TypeOK
    /\ Hardened /\ ~Alive =>
          /\ loop = "ended"
          /\ ~Busy /\ Eligible
          /\ quiet = TTL

(* An ordinary session ends, unless accept fails, only when the TTL has    *)
(* passed since a moment at which the command was terminal and nobody was  *)
(* connected: whoever was attached at the end of the command is not        *)
(* counted against the TTL.                                                *)
OrdinaryServed ==
    ~Hardened /\ loop = "ended" => terminal /\ vacated = TTL

(* A session that is not used any more and may end does end, whichever     *)
(* mode it has, however its accept calls fail.                             *)
IdleEnds == <>[]~Kept => <>(~Alive)
=============================================================================
