------------------------ MODULE SessionLifetimeProofs ------------------------
(***************************************************************************)
(* Proofs that HardenedIdle and OrdinaryServed of SessionLifetime hold for *)
(* every set of connections and every TTL, from the inductive invariant    *)
(* LifetimeInv.  A session that has ended makes no step, so only the       *)
(* steps of a living one have to be looked at.                             *)
(***************************************************************************)
EXTENDS SessionLifetime, TLAPS

(* idle_since runs only while nothing uses the session, and no longer than *)
(* nothing has: every step that makes the session used resets it, although *)
(* only Accept and the tick write it.                                      *)
IdleClock ==
    Hardened /\ Alive /\ idleSince # None => ~Busy /\ Eligible /\ idleSince <= quiet

HardenedEnd ==
    Hardened /\ ~Alive => loop = "ended" /\ ~Busy /\ Eligible /\ quiet = TTL

(* The TTL task sleeps no longer than the first moment without anybody     *)
(* after the command's end is old.                                         *)
TaskClock ==
    ~Hardened =>
       /\ task # "terminal" => terminal
       /\ task \notin {"terminal", "drain"} => vacated # None
       /\ task = "sleep" => slept <= vacated
       /\ task \in {"again", "send", "sent"} => vacated = TTL

Vacancy == terminal /\ Active = {} => vacated # None

OrdinaryEnd == ~Hardened /\ loop = "ended" => terminal /\ vacated = TTL

LifetimeInv ==
    TypeOK /\ IdleClock /\ HardenedEnd /\ TaskClock /\ Vacancy /\ OrdinaryEnd

-----------------------------------------------------------------------------
(* Facts about the operators the steps are built from.                      *)

(* Ageing keeps an age an age, keeps the order of two ages, and keeps what  *)
(* has reached the TTL there.                                               *)
LEMMA OlderAge ==
    ASSUME NEW x \in Ages
    PROVE  /\ Older(x) \in Ages
           /\ Older(x) = None <=> x = None
           /\ x # None => Older(x) \in 0 .. TTL
           /\ x = TTL => Older(x) = TTL
BY LifetimeAssumption DEF Ages, Older, None

LEMMA OlderOrder ==
    ASSUME NEW x \in Ages, NEW y \in Ages, x # None, x <= y
    PROVE  Older(x) <= Older(y)
BY LifetimeAssumption DEF Ages, Older, None

(* Record stamps the first moment without anybody, once, and can only keep  *)
(* the quiet time or restart it.                                            *)
LEMMA Recorded ==
    ASSUME TypeOK, Record
    PROVE  /\ vacated' \in Ages /\ quiet' \in 0 .. TTL
           /\ vacated # None => vacated' = vacated
           /\ Vacancy'
           /\ ~Kept /\ ~Kept' => quiet' = quiet
<1>1. vacated' = IF vacated = None /\ terminal' /\ Active' = {} THEN 0 ELSE vacated
  BY DEF Record
<1>2. quiet' = IF Kept \/ Kept' THEN 0 ELSE quiet
  BY DEF Record
<1>3. vacated \in Ages /\ quiet \in 0 .. TTL
  BY DEF TypeOK
<1>4. 0 \in Ages /\ 0 \in 0 .. TTL /\ 0 # None
  BY LifetimeAssumption DEF Ages, None
<1>5. vacated' \in Ages /\ quiet' \in 0 .. TTL
  BY <1>1, <1>2, <1>3, <1>4, Zenon
<1>6. vacated # None => vacated' = vacated
  BY <1>1, Zenon
<1>7. terminal' /\ Active' = {} => vacated' # None
  BY <1>1, <1>4, Zenon
<1>8. ~Kept /\ ~Kept' => quiet' = quiet
  BY <1>2, Zenon
<1> QED
  BY <1>5, <1>6, <1>7, <1>8 DEF Vacancy

-----------------------------------------------------------------------------
(* The invariant is inductive.                                              *)

LEMMA InitInv == Init => LifetimeInv
<1> SUFFICES ASSUME Init PROVE LifetimeInv
    OBVIOUS
<1>1. collecting \in BOOLEAN
  BY Zenon DEF Init
<1>2. conn \in [Connections -> {"out", "queued", "counted"}]
  BY DEF Init
<1>3. idleSince \in Ages /\ vacated \in Ages /\ slept \in 0 .. TTL /\ quiet \in 0 .. TTL
  BY LifetimeAssumption DEF Init, Ages, None
<1>4. TypeOK
  BY <1>1, <1>2, <1>3 DEF Init, TypeOK
<1>5. IdleClock /\ HardenedEnd /\ TaskClock /\ Vacancy /\ OrdinaryEnd
  BY DEF Init, IdleClock, HardenedEnd, TaskClock, Vacancy, OrdinaryEnd, Alive
<1> QED
  BY <1>4, <1>5 DEF LifetimeInv

(* What Accept, Leave and the steps of the rest of the broker share: they   *)
(* leave the loop and the TTL task alone, and reset the idle clock of an    *)
(* opted-in session unless they neither begin a use nor take back the       *)
(* eligibility to end.                                                      *)
LEMMA RecordedStep ==
    ASSUME LifetimeInv, Record, Alive,
           mode' = mode, loop' = loop, task' = task, slept' = slept,
           conn' \in [Connections -> {"out", "queued", "counted"}],
           terminal' \in BOOLEAN, collecting' \in BOOLEAN, pinned' \in BOOLEAN,
           operation' \in {"none", "active", "finished"},
           terminal => terminal',
           \/ idleSince' = None
           \/ idleSince' = idleSince /\ ~Hardened
           \/ idleSince' = idleSince /\ (Busy' => Busy) /\ (Eligible => Eligible')
    PROVE  LifetimeInv'
<1>1. TypeOK /\ TypeOK'
  <2>1. TypeOK
    BY DEF LifetimeInv
  <2>2. idleSince' \in Ages
    BY <2>1, LifetimeAssumption DEF TypeOK, Ages, None
  <2> QED
    BY <2>1, <2>2, Recorded DEF TypeOK
<1>2. Alive' /\ (Hardened' <=> Hardened)
  BY DEF Alive, Hardened
<1>3. IdleClock'
  <2> SUFFICES ASSUME Hardened', idleSince' # None
               PROVE  ~Busy' /\ Eligible' /\ idleSince' <= quiet'
    BY DEF IdleClock
  <2>1. idleSince' = idleSince /\ (Busy' => Busy) /\ (Eligible => Eligible')
    BY <1>2
  <2>2. ~Busy /\ Eligible /\ idleSince <= quiet
    BY <1>2, <2>1 DEF LifetimeInv, IdleClock
  <2>3. ~Kept /\ ~Kept'
    BY <1>2, <2>1, <2>2 DEF Kept
  <2> QED
    BY <1>1, <2>1, <2>2, <2>3, Recorded
<1>4. HardenedEnd' /\ OrdinaryEnd'
  BY <1>2 DEF HardenedEnd, OrdinaryEnd, Alive
<1>5. TaskClock'
  <2>1. vacated # None => vacated' = vacated
    BY <1>1, Recorded
  <2> QED
    BY <1>2, <2>1 DEF LifetimeInv, TaskClock
<1>6. Vacancy'
  BY <1>1, Recorded
<1> QED
  BY <1>1, <1>3, <1>4, <1>5, <1>6 DEF LifetimeInv

(* The steps that RecordedStep is about.                                    *)
LEMMA AcceptStep ==
    ASSUME LifetimeInv, NEW c \in Connections, Accept(c)
    PROVE  LifetimeInv'
<1>1. TypeOK /\ Alive /\ Record
  BY DEF LifetimeInv, Accept, Alive
<1>2. conn' \in [Connections -> {"out", "queued", "counted"}]
  BY <1>1 DEF TypeOK, Accept
<1>3. idleSince' = None \/ (idleSince' = idleSince /\ ~Hardened)
  BY DEF Accept
<1> QED
  BY <1>1, <1>2, <1>3, RecordedStep DEF TypeOK, Accept, facts, ttlTask

LEMMA LeaveStep ==
    ASSUME LifetimeInv, NEW c \in Connections, Leave(c)
    PROVE  LifetimeInv'
<1>1. TypeOK /\ Alive /\ Record
  BY DEF LifetimeInv, Leave
<1>2. conn' \in [Connections -> {"out", "queued", "counted"}]
  BY <1>1 DEF TypeOK, Leave
<1>3. c \in Active
  BY DEF Leave, Active
<1>4. Busy /\ (Eligible => Eligible')
  BY <1>3 DEF Busy, Eligible, Leave, facts
<1> QED
  BY <1>1, <1>2, <1>4, RecordedStep DEF TypeOK, Leave, facts, ttlTask

LEMMA WorldStep == LifetimeInv /\ World => LifetimeInv'
<1> SUFFICES ASSUME LifetimeInv, World PROVE LifetimeInv'
    OBVIOUS
<1>1. TypeOK
  BY DEF LifetimeInv
<1>2. Alive /\ Record /\ UNCHANGED <<mode, conn, loop, idleSince, ttlTask>>
  BY DEF World, Fact
<1>3. Active' = Active
  BY <1>2 DEF Active
<1>4. /\ terminal' \in BOOLEAN /\ collecting' \in BOOLEAN /\ pinned' \in BOOLEAN
      /\ operation' \in {"none", "active", "finished"}
      /\ terminal => terminal'
      /\ Busy' => Busy
      /\ Eligible => Eligible'
  <2>1. CASE Fact(BecomesTerminal)
    BY <1>1, <1>3, <2>1 DEF TypeOK, Fact, BecomesTerminal, Busy, Eligible
  <2>2. CASE Fact(OperationStarts)
    BY <1>1, <1>3, <2>2 DEF TypeOK, Fact, OperationStarts, Busy, Eligible
  <2>3. CASE Fact(OperationEnds)
    BY <1>1, <1>3, <2>3 DEF TypeOK, Fact, OperationEnds, Busy, Eligible
  <2>4. CASE Fact(CollectionEnds)
    BY <1>1, <1>3, <2>4 DEF TypeOK, Fact, CollectionEnds, Busy, Eligible
  <2>5. CASE Fact(Pin)
    BY <1>1, <1>3, <2>5 DEF TypeOK, Fact, Pin, Busy, Eligible
  <2>6. CASE Fact(Unpin)
    BY <1>1, <1>3, <2>6 DEF TypeOK, Fact, Unpin, Busy, Eligible
  <2> QED
    BY <2>1, <2>2, <2>3, <2>4, <2>5, <2>6 DEF World
<1> QED
  BY <1>1, <1>2, <1>4, RecordedStep DEF TypeOK, ttlTask

-----------------------------------------------------------------------------
(* The steps that touch the clocks, the loop or the TTL task.               *)

LEMMA TickStep == LifetimeInv /\ Tick => LifetimeInv'
<1> SUFFICES ASSUME LifetimeInv, Tick PROVE LifetimeInv'
    OBVIOUS
<1>1. TypeOK /\ Alive /\ Alive'
  BY DEF LifetimeInv, Tick, Alive
<1>2. UNCHANGED <<mode, conn, terminal, operation, collecting, pinned, loop, task>>
  BY DEF Tick, facts
<1>3. /\ idleSince' = Older(idleSince)
      /\ vacated' = Older(vacated)
      /\ slept' = IF task = "sleep" THEN Older(slept) ELSE slept
      /\ quiet' = IF Kept THEN 0 ELSE Older(quiet)
  BY DEF Tick
<1>4. /\ idleSince \in Ages /\ vacated \in Ages
      /\ slept \in Ages /\ slept # None /\ slept \in 0 .. TTL
      /\ quiet \in Ages /\ quiet # None /\ quiet \in 0 .. TTL
  BY <1>1, LifetimeAssumption DEF TypeOK, Ages, None
<1>5. /\ slept' \in 0 .. TTL /\ quiet' \in 0 .. TTL
      /\ idleSince' \in Ages /\ vacated' \in Ages
  <2>1. 0 \in 0 .. TTL
    BY LifetimeAssumption
  <2> QED
    BY <1>3, <1>4, <2>1, OlderAge, Zenon
<1>6. TypeOK'
  BY <1>1, <1>2, <1>5 DEF TypeOK
<1>7. Active' = Active /\ (Busy' <=> Busy) /\ (Eligible' <=> Eligible) /\ (Hardened' <=> Hardened)
  BY <1>2 DEF Active, Busy, Eligible, Hardened
<1>8. IdleClock'
  <2> SUFFICES ASSUME Hardened', idleSince' # None
               PROVE  ~Busy' /\ Eligible' /\ idleSince' <= quiet'
    BY DEF IdleClock
  <2>1. Hardened /\ idleSince # None
    BY <1>3, <1>4, <1>7, OlderAge
  <2>2. ~Busy /\ Eligible /\ idleSince <= quiet
    BY <1>1, <2>1 DEF LifetimeInv, IdleClock
  <2>3. quiet' = Older(quiet)
    BY <1>3, <2>1, <2>2 DEF Kept
  <2> QED
    BY <1>3, <1>4, <1>7, <2>1, <2>2, <2>3, OlderOrder
<1>9. HardenedEnd' /\ OrdinaryEnd'
  BY <1>1 DEF HardenedEnd, OrdinaryEnd, Alive
<1>10. TaskClock'
  <2> SUFFICES ASSUME ~Hardened
               PROVE  /\ task # "terminal" => terminal
                      /\ task \notin {"terminal", "drain"} => vacated' # None
                      /\ task = "sleep" => slept' <= vacated'
                      /\ task \in {"again", "send", "sent"} => vacated' = TTL
    BY <1>2, <1>7 DEF TaskClock
  <2>1. TaskClock
    BY DEF LifetimeInv
  <2>2. ASSUME task = "sleep" PROVE slept' <= vacated'
    BY <1>3, <1>4, <2>1, <2>2, OlderOrder DEF TaskClock
  <2> QED
    BY <1>3, <1>4, <2>1, <2>2, OlderAge DEF TaskClock
<1>11. Vacancy'
  BY <1>2, <1>3, <1>4, <1>7, OlderAge DEF LifetimeInv, Vacancy
<1> QED
  BY <1>6, <1>8, <1>9, <1>10, <1>11 DEF LifetimeInv

(* A connection in the backlog counts for nothing, and a failure to accept, *)
(* or the nap after it, changes only the loop: it ends no opted-in session. *)
LEMMA LoopStep ==
    ASSUME LifetimeInv, Alive,
           \/ \E c \in Connections : Connect(c)
           \/ AcceptFails
           \/ NapEnds
    PROVE  LifetimeInv'
<1>1. TypeOK
  BY DEF LifetimeInv
<1>2. UNCHANGED <<mode, terminal, operation, collecting, pinned, idleSince, task,
                  slept, vacated, quiet>>
  BY DEF Connect, AcceptFails, NapEnds, facts, ttlTask, history
<1>3. conn' \in [Connections -> {"out", "queued", "counted"}] /\ Active' = Active
  BY <1>1 DEF TypeOK, Connect, AcceptFails, NapEnds, Active
<1>4. loop' \in {"select", "nap"} \/ (~Hardened /\ loop' = "failed")
  BY DEF Alive, Connect, AcceptFails, NapEnds
<1>5. TypeOK'
  BY <1>1, <1>2, <1>3, <1>4 DEF TypeOK
<1>6. (Busy' <=> Busy) /\ (Eligible' <=> Eligible) /\ (Hardened' <=> Hardened)
  BY <1>2, <1>3 DEF Busy, Eligible, Hardened
<1>7. IdleClock' /\ HardenedEnd' /\ OrdinaryEnd'
  BY <1>2, <1>4, <1>6 DEF LifetimeInv, IdleClock, HardenedEnd, OrdinaryEnd, Alive
<1>8. TaskClock' /\ Vacancy'
  BY <1>2, <1>3, <1>6 DEF LifetimeInv, TaskClock, Vacancy
<1> QED
  BY <1>5, <1>7, <1>8 DEF LifetimeInv

LEMMA ShutdownStep == LifetimeInv /\ Shutdown => LifetimeInv'
<1> SUFFICES ASSUME LifetimeInv, Shutdown PROVE LifetimeInv'
    OBVIOUS
<1>1. TypeOK /\ ~Hardened /\ task = "sent" /\ loop' = "ended"
  BY DEF LifetimeInv, Shutdown
<1>2. UNCHANGED <<mode, conn, terminal, operation, collecting, pinned, idleSince,
                  task, slept, vacated, quiet>>
  BY DEF Shutdown, facts, ttlTask, history
<1>3. TypeOK'
  BY <1>1, <1>2 DEF TypeOK
<1>4. ~Hardened' /\ Active' = Active
  BY <1>1, <1>2 DEF Hardened, Active
<1>5. IdleClock' /\ HardenedEnd'
  BY <1>4 DEF IdleClock, HardenedEnd
<1>6. TaskClock' /\ Vacancy' /\ OrdinaryEnd'
  BY <1>1, <1>2, <1>4 DEF LifetimeInv, TaskClock, Vacancy, OrdinaryEnd
<1> QED
  BY <1>3, <1>5, <1>6 DEF LifetimeInv

LEMMA ExpiryStep == LifetimeInv /\ ExpiryTick => LifetimeInv'
<1> SUFFICES ASSUME LifetimeInv, ExpiryTick PROVE LifetimeInv'
    OBVIOUS
<1>1. TypeOK /\ Hardened /\ Alive
  BY DEF LifetimeInv, ExpiryTick, Alive
<1>2. UNCHANGED <<mode, conn, terminal, operation, collecting, pinned, task, slept,
                  vacated, quiet>>
  BY DEF ExpiryTick, facts, ttlTask, history
<1>3. Active' = Active /\ (Busy' <=> Busy) /\ (Eligible' <=> Eligible) /\ Hardened'
  BY <1>1, <1>2 DEF Active, Busy, Eligible, Hardened
<1>4. CASE Busy \/ ~Eligible
  <2>1. idleSince' = None /\ loop' = "select"
    BY <1>4 DEF ExpiryTick
  <2>2. TypeOK'
    BY <1>1, <1>2, <2>1, LifetimeAssumption DEF TypeOK, Ages, None
  <2>3. IdleClock' /\ HardenedEnd' /\ OrdinaryEnd'
    BY <2>1 DEF IdleClock, HardenedEnd, OrdinaryEnd, Alive
  <2>4. TaskClock' /\ Vacancy'
    BY <1>2, <1>3 DEF LifetimeInv, TaskClock, Vacancy
  <2> QED
    BY <2>2, <2>3, <2>4 DEF LifetimeInv
<1>5. CASE ~Busy /\ Eligible
  <2> DEFINE since == IF idleSince = None THEN 0 ELSE idleSince
  <2>1. /\ idleSince' = since
        /\ loop' = IF since >= TTL THEN "ended" ELSE "select"
    BY <1>5 DEF ExpiryTick
  <2>2. since \in 0 .. TTL /\ since <= quiet
    BY <1>1, <1>5, LifetimeAssumption
       DEF LifetimeInv, IdleClock, TypeOK, Ages, None
  <2>3. idleSince' \in Ages /\ idleSince' <= quiet
    BY <2>1, <2>2, LifetimeAssumption DEF Ages, None
  <2>4. TypeOK'
    BY <1>1, <1>2, <2>1, <2>3 DEF TypeOK
  <2>5. IdleClock'
    BY <1>2, <1>3, <1>5, <2>3 DEF IdleClock
  <2>6. ~Alive' => loop' = "ended" /\ quiet' = TTL
    BY <1>1, <1>2, <2>1, <2>2, LifetimeAssumption DEF TypeOK, Alive
  <2>7. HardenedEnd' /\ OrdinaryEnd'
    BY <1>3, <1>5, <2>6 DEF HardenedEnd, OrdinaryEnd
  <2>8. TaskClock' /\ Vacancy'
    BY <1>2, <1>3 DEF LifetimeInv, TaskClock, Vacancy
  <2> QED
    BY <2>4, <2>5, <2>7, <2>8 DEF LifetimeInv
<1> QED
  BY <1>4, <1>5

(* Waiting until nobody is connected is what makes vacated a moment, and    *)
(* sleeping the whole TTL what makes that moment old enough.                *)
LEMMA TtlTaskStep == LifetimeInv /\ TtlTask => LifetimeInv'
<1> SUFFICES ASSUME LifetimeInv, TtlTask PROVE LifetimeInv'
    OBVIOUS
<1>1. TypeOK /\ Alive /\ ~Hardened
  BY DEF LifetimeInv, TtlTask, SeesTerminal, SeesNobody, SleepEnds, SeesNobodyAgain,
         Send, TaskMoves
<1>2. UNCHANGED <<mode, conn, terminal, operation, collecting, pinned, loop, idleSince,
                  vacated, quiet>>
  BY DEF TtlTask, SeesTerminal, SeesNobody, SleepEnds, SeesNobodyAgain, Send,
         TaskMoves, facts, history
<1>3. task' \in {"drain", "sleep", "again", "send", "sent"} /\ slept' \in 0 .. TTL
  BY <1>1, LifetimeAssumption
     DEF TypeOK, TtlTask, SeesTerminal, SeesNobody, SleepEnds, SeesNobodyAgain, Send,
         TaskMoves
<1>4. TypeOK'
  BY <1>1, <1>2, <1>3 DEF TypeOK
<1>5. ~Hardened' /\ Alive' /\ Active' = Active
  BY <1>1, <1>2 DEF Hardened, Alive, Active
<1>6. IdleClock' /\ HardenedEnd' /\ OrdinaryEnd' /\ Vacancy'
  BY <1>2, <1>5 DEF LifetimeInv, IdleClock, HardenedEnd, OrdinaryEnd, Vacancy, Alive
<1>7. TaskClock'
  <2>1. TaskClock /\ Vacancy
    BY DEF LifetimeInv
  <2>2. CASE SeesTerminal
    BY <1>1, <1>2, <2>1, <2>2 DEF SeesTerminal, TaskMoves, TaskClock
  <2>3. CASE SeesNobody
    BY <1>1, <1>2, <2>1, <2>3, LifetimeAssumption
       DEF SeesNobody, TaskMoves, TaskClock, Vacancy, TypeOK, Ages, None
  <2>4. CASE SleepEnds
    BY <1>1, <1>2, <2>1, <2>4, LifetimeAssumption
       DEF SleepEnds, TaskMoves, TaskClock, TypeOK, Ages, None
  <2>5. CASE SeesNobodyAgain
    BY <1>1, <1>2, <2>1, <2>5 DEF SeesNobodyAgain, TaskMoves, TaskClock
  <2>6. CASE Send
    BY <1>1, <1>2, <2>1, <2>6 DEF Send, TaskMoves, TaskClock
  <2> QED
    BY <2>2, <2>3, <2>4, <2>5, <2>6 DEF TtlTask
<1> QED
  BY <1>4, <1>6, <1>7 DEF LifetimeInv

LEMMA StutterStep == LifetimeInv /\ UNCHANGED vars => LifetimeInv'
BY DEF vars, LifetimeInv, TypeOK, IdleClock, HardenedEnd, TaskClock, Vacancy,
       OrdinaryEnd, Hardened, Alive, Busy, Eligible, Active

LEMMA LifetimeStep == LifetimeInv /\ [Next]_vars => LifetimeInv'
<1> SUFFICES ASSUME LifetimeInv, [Next]_vars PROVE LifetimeInv'
    OBVIOUS
<1>1. CASE Tick
  BY <1>1, TickStep
<1>2. ASSUME NEW c \in Connections, Connect(c) \/ Accept(c) \/ Leave(c)
      PROVE  LifetimeInv'
  <2>1. CASE Connect(c)
    <3>1. Alive
      BY <2>1 DEF Connect
    <3> QED
      BY <2>1, <3>1, LoopStep
  <2>2. CASE Accept(c)
    BY <2>2, AcceptStep
  <2>3. CASE Leave(c)
    BY <2>3, LeaveStep
  <2> QED
    BY <1>2, <2>1, <2>2, <2>3
<1>3. CASE AcceptFails \/ NapEnds
  <2>1. Alive
    BY <1>3 DEF AcceptFails, NapEnds, Alive
  <2> QED
    BY <1>3, <2>1, LoopStep
<1>4. CASE Shutdown
  BY <1>4, ShutdownStep
<1>5. CASE ExpiryTick
  BY <1>5, ExpiryStep
<1>6. CASE TtlTask
  BY <1>6, TtlTaskStep
<1>7. CASE World
  BY <1>7, WorldStep
<1>8. CASE UNCHANGED vars
  BY <1>8, StutterStep
<1> QED
  BY <1>1, <1>2, <1>3, <1>4, <1>5, <1>6, <1>7, <1>8 DEF Next

-----------------------------------------------------------------------------
(* The theorems.                                                            *)

LEMMA Lifetime == Spec => []LifetimeInv
<1>1. Init => LifetimeInv
  BY InitInv
<1>2. LifetimeInv /\ [Next]_vars => LifetimeInv'
  BY LifetimeStep
<1> QED
  BY <1>1, <1>2, PTL DEF Spec

(* An opted-in session never ends under a connection, an operation or       *)
(* output I/O, nor before it has been without any of them, and eligible to  *)
(* end, for the whole TTL; and no failure to accept ends it.                *)
THEOREM IdleForTheTtl == Spec => []HardenedIdle
<1>1. LifetimeInv => HardenedIdle
  BY DEF LifetimeInv, HardenedEnd, HardenedIdle
<1> QED
  BY <1>1, Lifetime, PTL

(* The TTL task ends an ordinary session only when the whole TTL has passed *)
(* since the command was terminal with nobody connected.                    *)
THEOREM ServedForTheTtl == Spec => []OrdinaryServed
<1>1. LifetimeInv => OrdinaryServed
  BY DEF LifetimeInv, OrdinaryEnd, OrdinaryServed
<1> QED
  BY <1>1, Lifetime, PTL
=============================================================================
