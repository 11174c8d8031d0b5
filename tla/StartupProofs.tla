---------------------------- MODULE StartupProofs ----------------------------
(***************************************************************************)
(* Proofs that Retained and Truthful of Startup hold for every set of      *)
(* creators, whatever their options and whether brokers crash or not.      *)
(***************************************************************************)
EXTENDS Startup, TLAPS

(* When every session is bounded, the path belongs to one creator at a     *)
(* time, from its create_dir until its clean-up or its broker's end.       *)
Owner(c) ==
    /\ proxy[c] \in {"made", "marked", "clean"} \cup Looking => dir = c
    /\ broker[c] \in Starting \cup {"serving"} => dir = c
    /\ broker[c] \in Bound => socket = c

(* Where the broker is, by where its creator is: one that ended in order   *)
(* has an answered creator, and one that is cleaned up never launched.     *)
Progress(c) ==
    /\ proxy[c] \in {"idle", "made", "marked"} => broker[c] = "none"
    /\ proxy[c] \in Looking => broker[c] # "ended"
    /\ proxy[c] = "exited" => broker[c] = "dead"
    /\ proxy[c] = "clean" => broker[c] \in {"none", "dead"} /\ ~dispatched[c]
    /\ broker[c] \in {"none"} \cup Starting => ~dispatched[c]

(* The marker is the promise that nothing was launched: it is gone before. *)
Marked(c) ==
    /\ broker[c] \in {"dispatch", "serving"} => ~marker
    /\ dispatched[c] /\ broker[c] # "ended" => dir = c /\ socket = c /\ ~marker

(* What was told stays true, because nothing runs any more to belie it.    *)
Answer(c) ==
    /\ told[c] # "nothing" => proxy[c] = "done"
    /\ told[c] \in {"exists", "setup"} => broker[c] = "none"
    /\ told[c] = "failed" => broker[c] \in {"none", "dead"} /\ ~dispatched[c]
    /\ told[c] = "connected" => server[c] = c

CreatorInv(c) == Owner(c) /\ Progress(c) /\ Marked(c) /\ Answer(c)

StartupInv ==
    /\ TypeOK
    /\ AllFinite => /\ socket # Nobody => socket = dir
                    /\ \A c \in Creators : CreatorInv(c)

-----------------------------------------------------------------------------
(* Types.                                                                   *)

LEMMA TypeInit == Init => TypeOK
<1> SUFFICES ASSUME Init PROVE TypeOK
    OBVIOUS
<1>1. late \in [Creators -> BOOLEAN] /\ dispatched \in [Creators -> BOOLEAN]
  BY DEF Init
<1>2. marker \in BOOLEAN /\ (dir = Nobody => ~marker /\ socket = Nobody)
  BY DEF Init
<1> QED
  BY <1>1, <1>2 DEF Init, TypeOK

(* A step of the proxy, and the clock and the loss of it.                   *)
LEMMA ProxyType ==
    ASSUME TypeOK, NEW c \in Creators, Proxy(c) \/ Deadline(c) \/ Killed(c)
    PROVE  TypeOK'
<1>1. CASE CreateDir(c)
  BY <1>1 DEF CreateDir, Go, Fresh, TypeOK, Looking, Starting, Guarded
<1>2. CASE AlreadyThere(c) \/ NotAllocated(c) \/ PrepareFails(c) \/ GiveUp(c) \/ WaitFails(c) \/ Retain(c)
  BY <1>2 DEF AlreadyThere, NotAllocated, PrepareFails, GiveUp, WaitFails, Retain, Report, path, TypeOK, Looking, Starting, Guarded
<1>3. CASE Prepare(c) \/ Spawn(c) \/ SpawnFails(c)
  <2>1. /\ mode' \in [Creators -> Modes]
        /\ proxy' \in [Creators -> {"idle", "made", "marked", "clean", "done"} \cup Looking]
        /\ late' \in [Creators -> BOOLEAN]
        /\ told' \in [Creators -> {"nothing", "exists", "setup", "failed", "unknown",
                                   "connected", "killed"}]
        /\ server' \in [Creators -> Creators \cup {Nobody}]
        /\ broker' \in [Creators -> {"none", "serving", "ended", "dead"} \cup Starting]
        /\ dispatched' \in [Creators -> BOOLEAN]
    BY <1>3 DEF Prepare, Spawn, SpawnFails, Go, Exists, path, TypeOK, Looking, Starting, Guarded
  <2>2. /\ dir' \in Creators \cup {Nobody} /\ marker' \in BOOLEAN
        /\ socket' \in Creators \cup {Nobody}
        /\ dir' = Nobody => ~marker' /\ socket' = Nobody
    <3>1. CASE Prepare(c)
      BY <3>1 DEF Prepare, Exists, TypeOK
    <3>2. CASE Spawn(c) \/ SpawnFails(c)
      BY <3>2 DEF Spawn, SpawnFails, path, TypeOK
    <3> QED
      BY <1>3, <3>1, <3>2
  <2> QED
    BY <2>1, <2>2 DEF TypeOK
<1>4. CASE Connect(c)
  BY <1>4 DEF Connect, Report, Listening, path, TypeOK, Looking, Starting, Guarded
<1>5. CASE ConnectFails(c) \/ GoOn(c) \/ StillRuns(c) \/ SeesExit(c) \/ BeginClean(c) \/ Pause(c)
  BY <1>5 DEF ConnectFails, GoOn, StillRuns, SeesExit, BeginClean, Pause, Go, path, TypeOK, Looking, Starting, Guarded
<1>6. CASE KillBroker(c)
  BY <1>6 DEF KillBroker, Go, path, TypeOK, Looking, Starting, Guarded
<1>7. CASE Clean(c)
  BY <1>7 DEF Clean, Report, Fresh, TypeOK, Looking, Starting, Guarded
<1>8. CASE Deadline(c) \/ Killed(c)
  <2>1. /\ mode' \in [Creators -> Modes]
        /\ proxy' \in [Creators -> {"idle", "made", "marked", "clean", "done"} \cup Looking]
        /\ late' \in [Creators -> BOOLEAN]
        /\ told' \in [Creators -> {"nothing", "exists", "setup", "failed", "unknown",
                                   "connected", "killed"}]
        /\ server' \in [Creators -> Creators \cup {Nobody}]
        /\ broker' \in [Creators -> {"none", "serving", "ended", "dead"} \cup Starting]
        /\ dispatched' \in [Creators -> BOOLEAN]
    BY <1>8 DEF Deadline, Killed, Report, path, TypeOK, Looking, Starting, Guarded
  <2>2. /\ dir' \in Creators \cup {Nobody} /\ marker' \in BOOLEAN
        /\ socket' \in Creators \cup {Nobody}
        /\ dir' = Nobody => ~marker' /\ socket' = Nobody
    BY <1>8 DEF Deadline, Killed, Report, path, TypeOK
  <2> QED
    BY <2>1, <2>2 DEF TypeOK
<1> QED
  BY <1>1, <1>2, <1>3, <1>4, <1>5, <1>6, <1>7, <1>8 DEF Proxy

LEMMA BrokerType ==
    ASSUME TypeOK, NEW c \in Creators, Broker(c)
    PROVE  TypeOK'
<1>1. CASE Mark(c)
  BY <1>1 DEF Mark, Advance, creator, Exists, TypeOK, Looking, Starting, Guarded
<1>2. CASE Probe(c) \/ Files(c) \/ WritePid(c) \/ Dispatch(c)
  <2>1. /\ mode' \in [Creators -> Modes]
        /\ proxy' \in [Creators -> {"idle", "made", "marked", "clean", "done"} \cup Looking]
        /\ late' \in [Creators -> BOOLEAN]
        /\ told' \in [Creators -> {"nothing", "exists", "setup", "failed", "unknown",
                                   "connected", "killed"}]
        /\ server' \in [Creators -> Creators \cup {Nobody}]
        /\ broker' \in [Creators -> {"none", "serving", "ended", "dead"} \cup Starting]
        /\ dispatched' \in [Creators -> BOOLEAN]
    BY <1>2 DEF Probe, Files, WritePid, Dispatch, Advance, creator, path, TypeOK, Looking, Starting, Guarded
  <2>2. /\ dir' \in Creators \cup {Nobody} /\ marker' \in BOOLEAN
        /\ socket' \in Creators \cup {Nobody}
        /\ dir' = Nobody => ~marker' /\ socket' = Nobody
    BY <1>2 DEF Probe, Files, WritePid, Dispatch, Advance, creator, path, TypeOK
  <2> QED
    BY <2>1, <2>2 DEF TypeOK
<1>3. CASE Bind(c) \/ Unmark(c)
  BY <1>3 DEF Bind, Unmark, Advance, creator, Exists, TypeOK, Looking, Starting, Guarded
<1>4. CASE SetupFails(c) \/ Crash(c) \/ End(c)
  <2>1. /\ mode' \in [Creators -> Modes]
        /\ proxy' \in [Creators -> {"idle", "made", "marked", "clean", "done"} \cup Looking]
        /\ late' \in [Creators -> BOOLEAN]
        /\ told' \in [Creators -> {"nothing", "exists", "setup", "failed", "unknown",
                                   "connected", "killed"}]
        /\ server' \in [Creators -> Creators \cup {Nobody}]
        /\ broker' \in [Creators -> {"none", "serving", "ended", "dead"} \cup Starting]
        /\ dispatched' \in [Creators -> BOOLEAN]
    BY <1>4 DEF SetupFails, Crash, End, Fresh, creator, path, TypeOK, Looking, Starting, Guarded
  <2>2. /\ dir' \in Creators \cup {Nobody} /\ marker' \in BOOLEAN
        /\ socket' \in Creators \cup {Nobody}
        /\ dir' = Nobody => ~marker' /\ socket' = Nobody
    <3>1. Fresh(Nobody) \/ UNCHANGED path
      BY <1>4 DEF SetupFails, Crash, End
    <3>2. CASE Fresh(Nobody)
      BY <3>2 DEF Fresh
    <3>3. CASE UNCHANGED path
      BY <3>3 DEF path, TypeOK
    <3> QED
      BY <3>1, <3>2, <3>3
  <2> QED
    BY <2>1, <2>2 DEF TypeOK
<1> QED
  BY <1>1, <1>2, <1>3, <1>4 DEF Broker

-----------------------------------------------------------------------------
(* The steps of one creator and its broker, as the other creators see them. *)

(* A step touches what belongs to its own creator.                          *)
Elsewhere(c) ==
    \A d \in Creators \ {c} :
        /\ proxy'[d] = proxy[d] /\ told'[d] = told[d] /\ server'[d] = server[d]
        /\ broker'[d] = broker[d] /\ dispatched'[d] = dispatched[d]

LEMMA OneCreator ==
    ASSUME TypeOK, NEW c \in Creators, Proxy(c) \/ Deadline(c) \/ Killed(c) \/ Broker(c)
    PROVE  mode' = mode /\ Elsewhere(c)
<1>1. CASE Proxy(c) \/ Deadline(c) \/ Killed(c)
  <2>1. CASE CreateDir(c)
    BY <2>1 DEF CreateDir, Go, TypeOK, Elsewhere
  <2>2. CASE AlreadyThere(c) \/ NotAllocated(c) \/ PrepareFails(c) \/ GiveUp(c) \/ WaitFails(c) \/ Retain(c)
    BY <2>2 DEF AlreadyThere, NotAllocated, PrepareFails, GiveUp, WaitFails, Retain, Report, TypeOK, Elsewhere
  <2>3. CASE Prepare(c) \/ Spawn(c) \/ SpawnFails(c)
    BY <2>3 DEF Prepare, Spawn, SpawnFails, Go, TypeOK, Elsewhere
  <2>4. CASE Connect(c)
    BY <2>4 DEF Connect, Report, TypeOK, Elsewhere
  <2>5. CASE ConnectFails(c) \/ GoOn(c) \/ StillRuns(c) \/ SeesExit(c) \/ BeginClean(c) \/ Pause(c)
    BY <2>5 DEF ConnectFails, GoOn, StillRuns, SeesExit, BeginClean, Pause, Go, TypeOK, Elsewhere
  <2>6. CASE KillBroker(c)
    BY <2>6 DEF KillBroker, Go, TypeOK, Elsewhere
  <2>7. CASE Clean(c)
    BY <2>7 DEF Clean, Report, TypeOK, Elsewhere
  <2>8. CASE Deadline(c) \/ Killed(c)
    BY <2>8 DEF Deadline, Killed, Report, TypeOK, Elsewhere
  <2> QED
    BY <1>1, <2>1, <2>2, <2>3, <2>4, <2>5, <2>6, <2>7, <2>8 DEF Proxy
<1>2. CASE Broker(c)
  <2>1. CASE Mark(c)
    BY <2>1 DEF Mark, Advance, creator, TypeOK, Elsewhere
  <2>2. CASE Probe(c) \/ Files(c) \/ WritePid(c) \/ Dispatch(c)
    BY <2>2 DEF Probe, Files, WritePid, Dispatch, Advance, creator, TypeOK, Elsewhere
  <2>3. CASE Bind(c) \/ Unmark(c)
    BY <2>3 DEF Bind, Unmark, Advance, creator, TypeOK, Elsewhere
  <2>4. CASE SetupFails(c) \/ Crash(c) \/ End(c)
    BY <2>4 DEF SetupFails, Crash, End, creator, TypeOK, Elsewhere
  <2> QED
    BY <1>2, <2>1, <2>2, <2>3, <2>4 DEF Broker
<1> QED
  BY <1>1, <1>2

LEMMA OthersKept ==
    ASSUME NEW c \in Creators, NEW d \in Creators \ {c}, CreatorInv(d), Elsewhere(c),
           UNCHANGED path \/ dir \in {c, Nobody}
    PROVE  CreatorInv(d)'
<1>1. /\ proxy'[d] = proxy[d] /\ told'[d] = told[d] /\ server'[d] = server[d]
      /\ broker'[d] = broker[d] /\ dispatched'[d] = dispatched[d]
  BY DEF Elsewhere
<1>2. Progress(d)' /\ Answer(d)'
  BY <1>1 DEF CreatorInv, Progress, Answer
<1>3. CASE UNCHANGED path
  BY <1>1, <1>2, <1>3 DEF CreatorInv, Owner, Marked, path
<1>4. CASE dir \in {c, Nobody}
  <2>1. dir # d
    BY <1>4, StartupAssumption
  <2>2. /\ proxy[d] \notin {"made", "marked", "clean"} \cup Looking
        /\ broker[d] \notin Starting \cup {"serving"}
        /\ ~(dispatched[d] /\ broker[d] # "ended")
    BY <2>1 DEF CreatorInv, Owner, Marked
  <2>3. broker[d] \notin Bound /\ broker[d] \notin {"dispatch", "serving"}
    BY <2>2 DEF Bound, Starting, Guarded
  <2> QED
    BY <1>1, <1>2, <2>2, <2>3 DEF CreatorInv, Owner, Marked
<1> QED
  BY <1>3, <1>4

(* Who changes the path owns it, or makes it.                               *)
LEMMA PathOwned ==
    ASSUME TypeOK, NEW c \in Creators, CreatorInv(c), Finite(c),
           Proxy(c) \/ Deadline(c) \/ Killed(c) \/ Broker(c)
    PROVE  UNCHANGED path \/ dir \in {c, Nobody}
<1>1. CASE CreateDir(c)
  BY <1>1 DEF CreateDir, Exists
<1>2. CASE Prepare(c) \/ Clean(c)
  BY <1>2 DEF Prepare, Clean, CreatorInv, Owner
<1>3. CASE Proxy(c) /\ ~(CreateDir(c) \/ Prepare(c) \/ Clean(c))
  BY <1>3 DEF Proxy, AlreadyThere, NotAllocated, PrepareFails, Spawn, SpawnFails, Connect,
              ConnectFails, GoOn, GiveUp, KillBroker, StillRuns, SeesExit, WaitFails,
              Retain, BeginClean, Pause
<1>4. CASE Deadline(c) \/ Killed(c)
  BY <1>4 DEF Deadline, Killed, path
<1>5. CASE Mark(c) \/ Bind(c) \/ Unmark(c) \/ End(c)
  BY <1>5 DEF Mark, Bind, Unmark, End, Advance, CreatorInv, Owner, Starting, Guarded
<1>6. CASE Probe(c) \/ Files(c) \/ WritePid(c) \/ Dispatch(c) \/ SetupFails(c) \/ Crash(c)
  BY <1>6 DEF Probe, Files, WritePid, Dispatch, SetupFails, Crash, Cleans, path
<1> QED
  BY <1>1, <1>2, <1>3, <1>4, <1>5, <1>6 DEF Broker

-----------------------------------------------------------------------------
(* The steps of a bounded creator and its broker, as it sees them itself.   *)

LEMMA ProxyKept ==
    ASSUME TypeOK, NEW c \in Creators, CreatorInv(c), Finite(c),
           socket # Nobody => socket = dir,
           Proxy(c) \/ Deadline(c) \/ Killed(c)
    PROVE  CreatorInv(c)'
<1> USE DEF CreatorInv, Owner, Progress, Marked, Answer, Looking, Starting, Guarded, Bound
<1>1. CASE CreateDir(c)
  BY <1>1 DEF CreateDir, Go, Fresh, TypeOK
<1>2. CASE AlreadyThere(c) \/ NotAllocated(c) \/ PrepareFails(c)
  BY <1>2 DEF AlreadyThere, NotAllocated, PrepareFails, Report, path, TypeOK
<1>3. CASE Prepare(c)
  BY <1>3 DEF Prepare, Go, TypeOK
<1>4. CASE Spawn(c)
  BY <1>4 DEF Spawn, Go, path, TypeOK
<1>5. CASE SpawnFails(c) \/ ConnectFails(c)
  BY <1>5 DEF SpawnFails, ConnectFails, Go, path, TypeOK
<1>6. CASE GoOn(c) \/ StillRuns(c)
  BY <1>6 DEF GoOn, StillRuns, Go, path, TypeOK
<1>7. CASE SeesExit(c) \/ Pause(c)
  BY <1>7 DEF SeesExit, Pause, Go, Exited, path, TypeOK
<1>8. CASE Connect(c)
  BY <1>8 DEF Connect, Report, Listening, path, TypeOK
<1>9. CASE GiveUp(c) \/ Retain(c)
  BY <1>9 DEF GiveUp, Retain, Report, path, TypeOK
<1>10. CASE KillBroker(c)
  BY <1>10 DEF KillBroker, Hardened, Finite
<1>11. CASE WaitFails(c)
  BY <1>11 DEF WaitFails, Report, Hardened, Finite, path, TypeOK
<1>12. CASE BeginClean(c)
  BY <1>12 DEF BeginClean, Go, MayClean, Finite, path, TypeOK
<1>13. CASE Clean(c)
  BY <1>13 DEF Clean, Report, Fresh, TypeOK
<1>14. CASE Deadline(c)
  BY <1>14 DEF Deadline, path
<1>15. CASE Killed(c)
  BY <1>15 DEF Killed, Report, path, TypeOK
<1> QED
  BY <1>1, <1>2, <1>3, <1>4, <1>5, <1>6, <1>7, <1>8, <1>9, <1>10, <1>11, <1>12, <1>13, <1>14, <1>15 DEF Proxy

LEMMA BrokerKept ==
    ASSUME TypeOK, NEW c \in Creators, CreatorInv(c), Finite(c), Broker(c)
    PROVE  CreatorInv(c)'
<1> USE DEF CreatorInv, Owner, Progress, Marked, Answer, Looking, Starting, Guarded, Bound
<1>1. CASE Mark(c)
  BY <1>1 DEF Mark, Advance, creator, TypeOK
<1>2. CASE Probe(c) \/ Files(c) \/ WritePid(c)
  BY <1>2 DEF Probe, Files, WritePid, Advance, creator, path, TypeOK
<1>3. CASE Bind(c)
  BY <1>3 DEF Bind, Advance, creator, TypeOK
<1>4. CASE Unmark(c)
  BY <1>4 DEF Unmark, Advance, creator, TypeOK
<1>5. CASE Dispatch(c)
  BY <1>5 DEF Dispatch, Advance, creator, path, TypeOK
<1>6. CASE SetupFails(c)
  BY <1>6 DEF SetupFails, Cleans, creator, path, TypeOK
<1>7. CASE Crash(c)
  BY <1>7 DEF Crash, creator, path, TypeOK
<1>8. CASE End(c)
  BY <1>8 DEF End, Fresh, creator, TypeOK
<1> QED
  BY <1>1, <1>2, <1>3, <1>4, <1>5, <1>6, <1>7, <1>8 DEF Broker

-----------------------------------------------------------------------------
(* The invariant is inductive.                                              *)

LEMMA StartupInit == Init => StartupInv
<1> SUFFICES ASSUME Init PROVE StartupInv
    OBVIOUS
<1>1. TypeOK
  BY TypeInit
<1>2. \A c \in Creators : CreatorInv(c)
  BY DEF Init, CreatorInv, Owner, Progress, Marked, Answer, Looking, Starting, Guarded, Bound
<1>3. socket = Nobody
  BY DEF Init
<1> QED
  BY <1>1, <1>2, <1>3 DEF StartupInv

LEMMA CreatorStep ==
    ASSUME StartupInv, NEW c \in Creators,
           Proxy(c) \/ Deadline(c) \/ Killed(c) \/ Broker(c)
    PROVE  StartupInv'
<1>1. TypeOK /\ TypeOK'
  <2>1. TypeOK
    BY DEF StartupInv
  <2> QED
    BY <2>1, ProxyType, BrokerType
<1>2. mode' = mode /\ Elsewhere(c)
  BY <1>1, OneCreator
<1>3. ASSUME AllFinite'
      PROVE  /\ socket' # Nobody => socket' = dir'
             /\ \A d \in Creators : CreatorInv(d)'
  <2>1. AllFinite
    BY <1>2, <1>3 DEF AllFinite, Finite
  <2>2. /\ Finite(c)
        /\ socket # Nobody => socket = dir
        /\ \A d \in Creators : CreatorInv(d)
    BY <2>1 DEF StartupInv, AllFinite
  <2>3. UNCHANGED path \/ dir \in {c, Nobody}
    BY <1>1, <2>2, PathOwned
  <2>4. CreatorInv(c)'
    BY <1>1, <2>2, ProxyKept, BrokerKept
  <2>5. ASSUME NEW d \in Creators \ {c} PROVE CreatorInv(d)'
    BY <1>2, <2>2, <2>3, OthersKept
  <2>6. socket' # Nobody => socket' = dir'
    <3>1. CASE UNCHANGED path
      BY <2>2, <3>1 DEF path
    <3>2. CASE CreateDir(c) \/ Clean(c) \/ End(c)
      BY <3>2 DEF CreateDir, Clean, End, Fresh
    <3>3. CASE Prepare(c) \/ Mark(c) \/ Unmark(c)
      BY <2>2, <3>3 DEF Prepare, Mark, Unmark
    <3>4. CASE Bind(c)
      BY <2>2, <3>4 DEF Bind, Advance, CreatorInv, Owner, Starting, Guarded
    <3>5. UNCHANGED path \/ CreateDir(c) \/ Clean(c) \/ End(c) \/ Prepare(c) \/ Mark(c)
          \/ Unmark(c) \/ Bind(c)
      <4>1. CASE Proxy(c)
        BY <4>1 DEF Proxy, AlreadyThere, NotAllocated, PrepareFails, Spawn, SpawnFails,
                    Connect, ConnectFails, GoOn, GiveUp, KillBroker, StillRuns, SeesExit,
                    WaitFails, Retain, BeginClean, Pause
      <4>2. CASE Deadline(c) \/ Killed(c)
        BY <4>2 DEF Deadline, Killed, path
      <4>3. CASE Broker(c)
        BY <2>2, <4>3 DEF Broker, Probe, Files, WritePid, Dispatch, SetupFails, Crash,
                          Cleans, path
      <4> QED
        BY <4>1, <4>2, <4>3
    <3> QED
      BY <3>1, <3>2, <3>3, <3>4, <3>5
  <2> QED
    BY <2>4, <2>5, <2>6
<1> QED
  BY <1>1, <1>3 DEF StartupInv

LEMMA StartupStep == StartupInv /\ [Next]_vars => StartupInv'
<1> SUFFICES ASSUME StartupInv, [Next]_vars PROVE StartupInv'
    OBVIOUS
<1>1. CASE Next
  BY <1>1, CreatorStep DEF Next
<1>2. CASE UNCHANGED vars
  <2>1. TypeOK'
    BY <1>2 DEF StartupInv, TypeOK, vars
  <2>2. AllFinite' <=> AllFinite
    BY <1>2 DEF AllFinite, Finite, vars
  <2>3. ASSUME NEW c \in Creators, CreatorInv(c) PROVE CreatorInv(c)'
    BY <1>2, <2>3 DEF CreatorInv, Owner, Progress, Marked, Answer, vars
  <2> QED
    BY <1>2, <2>1, <2>2, <2>3 DEF StartupInv, vars
<1> QED
  BY <1>1, <1>2

LEMMA Startups == Spec => []StartupInv
<1>1. Init => StartupInv
  BY StartupInit
<1>2. StartupInv /\ [Next]_vars => StartupInv'
  BY StartupStep
<1> QED
  BY <1>1, <1>2, PTL DEF Spec

-----------------------------------------------------------------------------
(* The theorems.                                                            *)

(* With output limits a launched command keeps its identifier: no creator,  *)
(* however its clean-up races with the launch, and no crash removes the     *)
(* directory before the broker has ended.                                   *)
THEOREM RetainedForever == Spec => []Retained
<1>1. StartupInv => Retained
  BY DEF StartupInv, CreatorInv, Marked, Retained
<1> QED
  BY <1>1, Startups, PTL

(* With output limits no creator is told of a failure that left a launched  *)
(* command behind, nor connected to a session that is not its own.          *)
THEOREM ToldTruthfully == Spec => []Truthful
<1>1. StartupInv => Truthful
  <2> SUFFICES ASSUME StartupInv, AllFinite, NEW c \in Creators
               PROVE  /\ told[c] \in {"exists", "setup", "failed"} => ~dispatched[c]
                      /\ told[c] = "connected" => server[c] = c
      BY DEF Truthful
  <2>1. Progress(c) /\ Answer(c)
    BY DEF StartupInv, CreatorInv
  <2> QED
    BY <2>1 DEF Progress, Answer
<1> QED
  BY <1>1, Startups, PTL
=============================================================================
