------------------------------- MODULE Startup -------------------------------
(***************************************************************************)
(* How a session comes to be: the proxies that want to create it           *)
(* (src/src/server.rs, start_broker), the broker each of them starts       *)
(* (src/src/broker.rs, run, up to the launch of the command), and who      *)
(* removes the session directory.                                          *)
(*                                                                         *)
(* All creators use one identifier, and so one path.  A step on the path   *)
(* works on the directory that is there now, which need not be the one     *)
(* that its creator made.  A broker has the name of its creator.           *)
(*                                                                         *)
(* A process stops in the middle (Killed, Crash) or a system call of it    *)
(* fails.  remove_dir_all is one step and succeeds.                        *)
(***************************************************************************)
CONSTANTS Creators,
          Nobody,
          Modes,      (* of ordinary, hardened (--group-pidfd), bounded (--output-limit) *)
          Crashes     (* brokers may be killed from outside *)

ASSUME StartupAssumption ==
    /\ Nobody \notin Creators
    /\ Modes \subseteq {"ordinary", "hardened", "bounded"}
    /\ Crashes \in BOOLEAN

VARIABLES
    mode,        \* the creator's options, which it hands to its broker
    dir,         \* whose create_dir made the directory at the path, or Nobody
    marker,      \* the file prelaunch in it
    socket,      \* the broker that bound the broker.sock in it, or Nobody
    proxy,       \* where the creating proxy is
    late,        \* its deadline of five seconds has passed
    told,        \* what it reports
    server,      \* the broker that a connected proxy talks to
    broker,      \* where the broker is
    dispatched   \* history: the command was launched

path == <<dir, marker, socket>>
creator == <<proxy, late, told, server>>
vars == <<mode, dir, marker, socket, proxy, late, told, server, broker, dispatched>>

Looking == {"connect", "refused", "wait", "exited", "pause"}
Guarded == {"files", "bind", "pid", "unmark", "dispatch"}   \* _legacy_guard exists
Starting == {"mark", "probe"} \cup Guarded
Bound == {"pid", "unmark", "dispatch", "serving"}           \* its listener takes connections

Hardened(c) == mode[c] # "ordinary"
Finite(c) == mode[c] = "bounded"

TypeOK ==
    /\ mode \in [Creators -> Modes]
    /\ dir \in Creators \cup {Nobody}
    /\ marker \in BOOLEAN
    /\ socket \in Creators \cup {Nobody}
    /\ dir = Nobody => ~marker /\ socket = Nobody
    /\ proxy \in [Creators -> {"idle", "made", "marked", "clean", "done"} \cup Looking]
    /\ late \in [Creators -> BOOLEAN]
    /\ told \in [Creators -> {"nothing", "exists", "setup", "failed", "unknown",
                              "connected", "killed"}]
    /\ server \in [Creators -> Creators \cup {Nobody}]
    /\ broker \in [Creators -> {"none", "serving", "ended", "dead"} \cup Starting]
    /\ dispatched \in [Creators -> BOOLEAN]

Init ==
    /\ mode \in [Creators -> Modes]
    /\ dir = Nobody /\ marker = FALSE /\ socket = Nobody
    /\ proxy = [c \in Creators |-> "idle"]
    /\ late = [c \in Creators |-> FALSE]
    /\ told = [c \in Creators |-> "nothing"]
    /\ server = [c \in Creators |-> Nobody]
    /\ broker = [c \in Creators |-> "none"]
    /\ dispatched = [c \in Creators |-> FALSE]

(* The path after create_dir by d, or after remove_dir_all (d = Nobody).   *)
Fresh(d) == dir' = d /\ marker' = FALSE /\ socket' = Nobody

Exists == dir # Nobody

----------------------------------------------------------------------------
(* The creating proxy.                                                     *)
Go(c, p) ==
    /\ proxy' = [proxy EXCEPT ![c] = p]
    /\ UNCHANGED <<mode, late, told, server, dispatched>>

Report(c, what) ==
    /\ proxy' = [proxy EXCEPT ![c] = "done"]
    /\ told' = [told EXCEPT ![c] = what]
    /\ UNCHANGED <<mode, late, dispatched>>

CreateDir(c) ==
    /\ proxy[c] = "idle" /\ ~Exists
    /\ Fresh(c) /\ Go(c, "made")
    /\ UNCHANGED broker

AlreadyThere(c) ==
    /\ proxy[c] = "idle" /\ Exists
    /\ Report(c, "exists")
    /\ UNCHANGED <<path, server, broker>>

NotAllocated(c) ==       \* check_sigchld_policy or create_dir fails
    /\ proxy[c] = "idle"
    /\ Report(c, "setup")
    /\ UNCHANGED <<path, server, broker>>

(* Permissions, the log, and the marker of a bounded session.              *)
Prepare(c) ==
    /\ proxy[c] = "made" /\ Exists
    /\ marker' = (marker \/ Finite(c))
    /\ Go(c, "marked")
    /\ UNCHANGED <<dir, socket, broker>>

PrepareFails(c) ==       \* the directory stays
    /\ proxy[c] = "made"
    /\ Report(c, "setup")
    /\ UNCHANGED <<path, server, broker>>

Spawn(c) ==
    /\ proxy[c] = "marked"
    /\ broker' = [broker EXCEPT ![c] = "mark"]
    /\ Go(c, "connect")
    /\ UNCHANGED path

SpawnFails(c) ==
    /\ proxy[c] = "marked"
    /\ Go(c, "clean")
    /\ UNCHANGED <<path, broker>>

Listening == Exists /\ socket # Nobody /\ broker[socket] \in Bound

Connect(c) ==
    /\ proxy[c] = "connect" /\ Listening
    /\ Report(c, "connected")
    /\ server' = [server EXCEPT ![c] = socket]
    /\ UNCHANGED <<path, broker>>

ConnectFails(c) ==
    /\ proxy[c] = "connect" /\ ~Listening
    /\ Go(c, "refused")
    /\ UNCHANGED <<path, broker>>

Deadline(c) ==
    /\ proxy[c] \in Looking /\ ~late[c]
    /\ late' = [late EXCEPT ![c] = TRUE]
    /\ UNCHANGED <<mode, path, proxy, told, server, broker, dispatched>>

\* Mutant: no deadline.
NeverTimedOut(c) == FALSE

TimedOut(c) == late[c]

GoOn(c) ==
    /\ proxy[c] = "refused" /\ ~TimedOut(c)
    /\ Go(c, "wait")
    /\ UNCHANGED <<path, broker>>

GiveUp(c) ==             \* an opted-in session is retained
    /\ proxy[c] = "refused" /\ TimedOut(c) /\ Hardened(c)
    /\ Report(c, "unknown")
    /\ UNCHANGED <<path, server, broker>>

KillBroker(c) ==
    /\ proxy[c] = "refused" /\ TimedOut(c) /\ ~Hardened(c)
    /\ broker' = [broker EXCEPT ![c] = IF @ = "ended" THEN @ ELSE "dead"]
    /\ Go(c, "clean")
    /\ UNCHANGED path

Exited(c) == broker[c] \in {"ended", "dead"}

StillRuns(c) ==
    /\ proxy[c] = "wait" /\ ~Exited(c)
    /\ Go(c, "pause")
    /\ UNCHANGED <<path, broker>>

SeesExit(c) ==
    /\ proxy[c] = "wait" /\ Exited(c)
    /\ Go(c, "exited")
    /\ UNCHANGED <<path, broker>>

WaitFails(c) ==          \* somebody else took the exit status
    /\ proxy[c] = "wait" /\ Exited(c)
    /\ Report(c, IF Hardened(c) THEN "unknown" ELSE "setup")
    /\ UNCHANGED <<path, server, broker>>

\* Mutant: the marker is not looked at.
MayCleanAlways(c) == TRUE

MayClean(c) == Finite(c) => marker

Retain(c) ==
    /\ proxy[c] = "exited" /\ ~MayClean(c)
    /\ Report(c, "unknown")
    /\ UNCHANGED <<path, server, broker>>

BeginClean(c) ==
    /\ proxy[c] = "exited" /\ MayClean(c)
    /\ Go(c, "clean")
    /\ UNCHANGED <<path, broker>>

Clean(c) ==
    /\ proxy[c] = "clean"
    /\ Fresh(Nobody) /\ Report(c, "failed")
    /\ UNCHANGED <<server, broker>>

Pause(c) ==
    /\ proxy[c] = "pause"
    /\ Go(c, "connect")
    /\ UNCHANGED <<path, broker>>

Killed(c) ==             \* the transport that runs the proxy is lost
    /\ proxy[c] \notin {"idle", "done"}
    /\ Report(c, "killed")
    /\ UNCHANGED <<path, server, broker>>

----------------------------------------------------------------------------
(* The broker.  Every step of its set-up fails when the path is gone.      *)
Advance(c, from, to) ==
    /\ broker[c] = from
    /\ broker' = [broker EXCEPT ![c] = to]
    /\ UNCHANGED <<mode, creator>>

Mark(c) ==
    /\ Finite(c) => Exists
    /\ Advance(c, "mark", "probe")
    /\ marker' = (marker \/ Finite(c))
    /\ UNCHANGED <<dir, socket, dispatched>>

Probe(c) ==
    /\ Advance(c, "probe", "files")
    /\ UNCHANGED <<path, dispatched>>

Files(c) ==
    /\ Exists
    /\ Advance(c, "files", "bind")
    /\ UNCHANGED <<path, dispatched>>

Bind(c) ==
    /\ Exists /\ socket = Nobody
    /\ Advance(c, "bind", "pid")
    /\ socket' = c
    /\ UNCHANGED <<dir, marker, dispatched>>

WritePid(c) ==
    /\ Exists
    /\ Advance(c, "pid", "unmark")
    /\ UNCHANGED <<path, dispatched>>

Unmark(c) ==
    /\ Finite(c) => marker
    /\ Advance(c, "unmark", "dispatch")
    /\ marker' = (marker /\ ~Finite(c))
    /\ UNCHANGED <<dir, socket, dispatched>>

Dispatch(c) ==
    /\ Advance(c, "dispatch", "serving")
    /\ dispatched' = [dispatched EXCEPT ![c] = TRUE]
    /\ UNCHANGED path

\* Mutant: the guard of a bounded session too.
CleansAll(c) == broker[c] \in Guarded

(* Until the launch only a session without a limit has its guard.          *)
Cleans(c) == broker[c] \in Guarded /\ ~Finite(c)

SetupFails(c) ==
    /\ broker[c] \in Starting
    /\ broker[c] = "probe" => Hardened(c)
    /\ broker' = [broker EXCEPT ![c] = "dead"]
    /\ IF Cleans(c) THEN Fresh(Nobody) ELSE UNCHANGED path
    /\ UNCHANGED <<mode, creator, dispatched>>

Crash(c) ==
    /\ Crashes
    /\ broker[c] \in Starting \cup {"serving"}
    /\ broker' = [broker EXCEPT ![c] = "dead"]
    /\ UNCHANGED <<mode, path, creator, dispatched>>

(* run returns, and the guard of either kind removes the path.  The TTL     *)
(* passes first: it is longer than the creator's pauses of 20 ms.          *)
End(c) ==
    /\ broker[c] = "serving"
    /\ proxy[c] \notin Looking
    /\ broker' = [broker EXCEPT ![c] = "ended"]
    /\ Fresh(Nobody)
    /\ UNCHANGED <<mode, creator, dispatched>>

----------------------------------------------------------------------------
Proxy(c) ==
    \/ CreateDir(c) \/ AlreadyThere(c) \/ NotAllocated(c)
    \/ Prepare(c) \/ PrepareFails(c)
    \/ Spawn(c) \/ SpawnFails(c) \/ Connect(c) \/ ConnectFails(c)
    \/ GoOn(c) \/ GiveUp(c) \/ KillBroker(c) \/ StillRuns(c) \/ SeesExit(c)
    \/ WaitFails(c) \/ Retain(c) \/ BeginClean(c) \/ Clean(c) \/ Pause(c)

Broker(c) ==
    \/ Mark(c) \/ Probe(c) \/ Files(c) \/ Bind(c) \/ WritePid(c) \/ Unmark(c)
    \/ Dispatch(c) \/ SetupFails(c) \/ Crash(c) \/ End(c)

Next == \E c \in Creators : Proxy(c) \/ Deadline(c) \/ Killed(c) \/ Broker(c)

Spec == Init /\ [][Next]_vars

(* The proxy's own steps and time; nothing is asked of the broker.         *)
FairSpec ==
    Spec /\ \A c \in Creators : WF_vars(Proxy(c)) /\ WF_vars(Deadline(c))

----------------------------------------------------------------------------
(* Once a command was launched, its session keeps the identifier until its *)
(* broker ends in order: no proxy, and no failing broker, removes the      *)
(* directory, so nobody launches a second command under the name.  So it   *)
(* is where every creator asks for an output limit: they neither clean up  *)
(* after a launch nor by two owners, as the others do.  With TypeOK.       *)
AllFinite == \A c \in Creators : Finite(c)
Retained ==
    /\ TypeOK
    /\ AllFinite => \A c \in Creators :
          dispatched[c] /\ broker[c] # "ended" => dir = c /\ socket = c /\ ~marker

(* What these creators are told is true: after a failure that does not     *)
(* speak of a launched command there is none, and who succeeds is          *)
(* connected to the session it created itself.                             *)
Truthful ==
    AllFinite => \A c \in Creators :
        /\ told[c] \in {"exists", "setup", "failed"} => ~dispatched[c]
        /\ told[c] = "connected" => server[c] = c

(* The creator gets an answer, though its broker hangs in its set-up.      *)
CreatorAnswered == \A c \in Creators : proxy[c] = "connect" ~> proxy[c] = "done"
=============================================================================
