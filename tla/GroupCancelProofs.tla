-------------------------- MODULE GroupCancelProofs --------------------------
(***************************************************************************)
(* Theorems about GroupCancel for every set of requests, every length of   *)
(* the deadlines and groups of any size, and at the end about the ordinary *)
(* cancellation of LegacyCancel over the same processes.                   *)
(***************************************************************************)
EXTENDS GroupCancel, TLAPS

(* What the metadata tells is true and stays true: a recorded exit means a  *)
(* reaped leader, and what the owner read before the step still holds.      *)
WorldInv ==
    /\ status <=> waiter = "recorded"
    /\ waiter \in {"reaped", "recorded"} => leader = "reaped"
    /\ view.exit => status
    /\ view.terminal => Terminal

(* Where the owner stands agrees with the phase: it takes no step before it *)
(* is admitted and none after a result.                                     *)
ControlInv ==
    /\ phase = "Ready" => owner = "none"
    /\ owner = "none" => phase \in {"Ready", "Failed"} /\ first
    /\ Finished => owner \in {"none", "notify", "done"}
    /\ owner \in {"probe", "term", "kill"} => phase \in {"Term", "Kill"}
    /\ owner = "term" => first
    /\ owner \in {"sleep", "done"} => ~first

(* The handle is given up only when the group is gone for good. *)
AbsenceInv ==
    /\ AbsenceFinal
    /\ phase \in {"NoSignal", "Complete"} => absent

(* The signals that were sent, by the point the owner has reached. *)
SignalInv ==
    /\ terms <= 1
    /\ first /\ owner \in {"none", "read", "enter", "probe", "term"} => terms = 0
    /\ phase \in {"Term", "Kill"}
         => terms = 1 \/ (first /\ owner \in {"read", "enter", "probe", "term"})
    /\ kills <= terms
    /\ phase \in {"Ready", "Term"} => kills = 0

(* The outcome was computed from what the signals found. *)
OutcomeInv ==
    /\ signaled <=> delivered
    /\ OutcomeHonest
    /\ SettledTruth

(* One request at most started the operation, and only it may win. *)
RequestInv ==
    /\ wins \in 0 .. 1
    /\ \A c, d \in Clients : mine[c] /\ mine[d] => c = d
    /\ phase = "Ready" => wins = 0 /\ \A c \in Clients : ~mine[c]
    /\ wins = 1 => \A c \in Clients : mine[c] => cpc[c] = "told"

IInv == TypeOK /\ WorldInv /\ ControlInv /\ AbsenceInv /\ SignalInv
               /\ OutcomeInv /\ RequestInv

-----------------------------------------------------------------------------
(* The types.                                                               *)

LEMMA DeadlineType == Deadline \in Nat /\ 0 \in 0 .. Deadline
BY CancelAssumption DEF Deadline

LEMMA TypeInit == Init => TypeOK
<1> SUFFICES ASSUME Init PROVE TypeOK
    OBVIOUS
<1> USE CancelAssumption, DeadlineType DEF Init
<1>1. view \in [exit : BOOLEAN, terminal : BOOLEAN, failure : BOOLEAN, now : 0 .. Deadline]
  BY DEF Nothing
<1>2. cpc \in [Clients -> {"idle", "arm", "look", "looked", "wait", "told"}]
  OBVIOUS
<1>3. mine \in [Clients -> BOOLEAN] /\ woken \in [Clients -> BOOLEAN]
  OBVIOUS
<1>4. Finished <=> phase \in {"Complete", "Failed"}
  BY DEF Finished
<1>5. members \in 0 .. MaxMembers /\ elapsed \in 0 .. Deadline
  OBVIOUS
<1>6. terms \in Nat /\ kills \in Nat /\ wins \in Nat
  OBVIOUS
<1>7. /\ leader \in {"live", "zombie", "reaped"} /\ leaderIn \in BOOLEAN
      /\ waiter \in {"waiting", "reaped", "recorded", "failed"}
      /\ status \in BOOLEAN /\ outputs \in {"open", "closed", "failed"}
  OBVIOUS
<1>8. /\ phase \in {"Ready", "Term", "Kill", "NoSignal", "Complete", "Failed"}
      /\ fault \in {"none", "Unavailable", "Wait", "Deadline", "Signal"}
      /\ result \in {"none", "cancel_won", "already_exited", "error"}
  OBVIOUS
<1>9. /\ signaled \in BOOLEAN /\ absent \in BOOLEAN /\ delivered \in BOOLEAN
      /\ first \in BOOLEAN
      /\ owner \in {"none", "read", "enter", "probe", "term", "kill", "settle",
                    "notify", "sleep", "done"}
  OBVIOUS
<1> QED
  BY <1>1, <1>2, <1>3, <1>4, <1>5, <1>6, <1>7, <1>8, <1>9, Zenon DEF TypeOK

LEMMA TypeStep == TypeOK /\ ControlInv /\ [Next]_vars => TypeOK'
<1> SUFFICES ASSUME TypeOK, ControlInv, [Next]_vars PROVE TypeOK'
    OBVIOUS
<1> USE CancelAssumption DEF TypeOK, Finished, broker, group, meta, operation, requests, history
<1>1. ASSUME Join PROVE TypeOK'
  BY <1>1 DEF Join
<1>2. ASSUME Go PROVE TypeOK'
  BY <1>2 DEF Go
<1>3. ASSUME LeaderMoves PROVE TypeOK'
  BY <1>3 DEF LeaderMoves
<1>4. ASSUME LeaderExits PROVE TypeOK'
  BY <1>4 DEF LeaderExits
<1>5. ASSUME Reap PROVE TypeOK'
  BY <1>5 DEF Reap
<1>6. ASSUME RecordStatus PROVE TypeOK'
  BY <1>6 DEF RecordStatus, Quiet, NotifyWaiters
<1>7. ASSUME FailWait PROVE TypeOK'
  BY <1>7 DEF FailWait, Quiet, NotifyWaiters
<1>8. ASSUME CloseOutputs PROVE TypeOK'
  BY <1>8 DEF CloseOutputs, Quiet, NotifyWaiters
<1>9. ASSUME FailOutput PROVE TypeOK'
  BY <1>9 DEF FailOutput, Quiet, NotifyWaiters
<1>10. ASSUME Tick PROVE TypeOK'
  BY <1>10 DEF Tick, Deadline
<1>11. ASSUME Read PROVE TypeOK'
  <2>1. view' \in [exit : BOOLEAN, terminal : BOOLEAN, failure : BOOLEAN, now : 0 .. Deadline]
    BY <1>11, DeadlineType DEF Read, Terminal, Failure
  <2> QED
    BY <1>11, <2>1 DEF Read, Step
<1>12. ASSUME Enter PROVE TypeOK'
  BY <1>12 DEF Enter, Step, Fail
<1>13. ASSUME Probe PROVE TypeOK'
  <2>1. CASE Settled
    BY <1>13, <2>1 DEF Probe, Step, ControlInv
  <2>2. CASE ~Settled
    BY <1>13, <2>2 DEF Probe, Step
  <2> QED
    BY <2>1, <2>2
<1>14. ASSUME Term PROVE TypeOK'
  BY <1>14 DEF Term, Step, Signal
<1>15. ASSUME Kill PROVE TypeOK'
  <2>1. CASE KillDue
    BY <1>15, <2>1 DEF Kill, Step, Signal, KillDue
  <2>2. CASE ~KillDue
    BY <1>15, <2>2 DEF Kill, Step
  <2> QED
    BY <2>1, <2>2
<1>16. ASSUME Settle PROVE TypeOK'
  BY <1>16 DEF Settle, Step, Complete
<1>17. ASSUME Notify PROVE TypeOK'
  <2>1. woken' \in [Clients -> BOOLEAN]
    BY <1>17 DEF Notify, NotifyWaiters
  <2>2. view' \in [exit : BOOLEAN, terminal : BOOLEAN, failure : BOOLEAN, now : 0 .. Deadline]
    BY <1>17, DeadlineType DEF Notify, Nothing
  <2>3. /\ first' \in BOOLEAN
        /\ owner' \in {"none", "read", "enter", "probe", "term", "kill",
                      "settle", "notify", "sleep", "done"}
    BY <1>17 DEF Notify
  <2>4. /\ view' \in [exit : BOOLEAN, terminal : BOOLEAN,
                       failure : BOOLEAN, now : 0 .. Deadline]
        /\ woken' \in [Clients -> BOOLEAN]
        /\ first' \in BOOLEAN
        /\ owner' \in {"none", "read", "enter", "probe", "term", "kill",
                      "settle", "notify", "sleep", "done"}
        => TypeOK'
    BY <1>17 DEF Notify
  <2> QED
    BY <2>1, <2>2, <2>3, <2>4
<1>18. ASSUME Sleep PROVE TypeOK'
  BY <1>18 DEF Sleep, Step
<1>19. ASSUME SyscallFails PROVE TypeOK'
  BY <1>19 DEF SyscallFails, Step, Fail
<1>20. ASSUME Stop PROVE TypeOK'
  <2>1. woken' \in [Clients -> BOOLEAN]
    BY <1>20 DEF Stop, NotifyWaiters
  <2>2. CASE Starts
    BY <1>20, <2>1, <2>2, DeadlineType DEF Stop, StartHardened, Starts
  <2>3. CASE ~Starts
    BY <1>20, <2>1, <2>3 DEF Stop, StartHardened
  <2> QED
    BY <2>2, <2>3
<1>21. ASSUME NEW c \in Clients, Request(c) PROVE TypeOK'
  <2>1. Starts \in BOOLEAN
    BY DEF Starts
  <2>2. CASE Starts
    BY <1>21, <2>1, <2>2, DeadlineType DEF Request, StartHardened, Starts
  <2>3. CASE ~Starts
    BY <1>21, <2>1, <2>3 DEF Request, StartHardened
  <2> QED
    BY <2>2, <2>3
<1>22. ASSUME NEW c \in Clients, Arm(c) PROVE TypeOK'
  BY <1>22 DEF Arm, ask
<1>23. ASSUME NEW c \in Clients, Look(c) PROVE TypeOK'
  BY <1>23 DEF Look, ask
<1>24. ASSUME NEW c \in Clients, Await(c) PROVE TypeOK'
  BY <1>24 DEF Await, ask
<1>25. ASSUME NEW c \in Clients, Answer(c) PROVE TypeOK'
  BY <1>25 DEF Answer, ask, Told
<1>26. ASSUME NEW c \in Clients, Wake(c) PROVE TypeOK'
  BY <1>26 DEF Wake, ask
<1>27. ASSUME NEW c \in Clients, Hangup(c) PROVE TypeOK'
  BY <1>27 DEF Hangup, ask
<1>28. CASE UNCHANGED vars
  BY <1>28 DEF vars
<1> QED
  BY <1>1, <1>2, <1>3, <1>4, <1>5, <1>6, <1>7, <1>8, <1>9, <1>10, <1>11,
     <1>12, <1>13, <1>14, <1>15, <1>16, <1>17, <1>18, <1>19, <1>20, <1>21,
     <1>22, <1>23, <1>24, <1>25, <1>26, <1>27, <1>28
     DEF Next, Processes, Metadata, Owner, Handle

LEMMA WorldStep == TypeOK /\ WorldInv /\ [Next]_vars => WorldInv'
<1> SUFFICES ASSUME TypeOK, WorldInv, [Next]_vars PROVE WorldInv'
    OBVIOUS
<1> USE CancelAssumption DEF TypeOK, WorldInv, broker, group, meta, operation, requests, history, Terminal
<1>1. ASSUME Join PROVE WorldInv'
  BY <1>1 DEF Join
<1>2. ASSUME Go PROVE WorldInv'
  BY <1>2 DEF Go
<1>3. ASSUME LeaderMoves PROVE WorldInv'
  BY <1>3 DEF LeaderMoves
<1>4. ASSUME LeaderExits PROVE WorldInv'
  BY <1>4 DEF LeaderExits
<1>5. ASSUME Reap PROVE WorldInv'
  BY <1>5 DEF Reap
<1>6. ASSUME RecordStatus PROVE WorldInv'
  BY <1>6 DEF RecordStatus, Quiet, NotifyWaiters
<1>7. ASSUME FailWait PROVE WorldInv'
  BY <1>7 DEF FailWait, Quiet, NotifyWaiters
<1>8. ASSUME CloseOutputs PROVE WorldInv'
  BY <1>8 DEF CloseOutputs, Quiet, NotifyWaiters
<1>9. ASSUME FailOutput PROVE WorldInv'
  BY <1>9 DEF FailOutput, Quiet, NotifyWaiters
<1>10. ASSUME Tick PROVE WorldInv'
  BY <1>10 DEF Tick
<1>11. ASSUME Read PROVE WorldInv'
  BY <1>11 DEF Read, Step
<1>12. ASSUME Enter PROVE WorldInv'
  BY <1>12 DEF Enter, Step, Fail
<1>13. ASSUME Probe PROVE WorldInv'
  BY <1>13 DEF Probe, Step, Settled
<1>14. ASSUME Term PROVE WorldInv'
  BY <1>14 DEF Term, Step, Signal
<1>15. ASSUME Kill PROVE WorldInv'
  BY <1>15 DEF Kill, Step, Signal, KillDue
<1>16. ASSUME Settle PROVE WorldInv'
  BY <1>16 DEF Settle, Step, Complete
<1>17. ASSUME Notify PROVE WorldInv'
  BY <1>17 DEF Notify, NotifyWaiters, Nothing
<1>18. ASSUME Sleep PROVE WorldInv'
  BY <1>18 DEF Sleep, Step, Nothing
<1>19. ASSUME SyscallFails PROVE WorldInv'
  BY <1>19 DEF SyscallFails, Step, Fail
<1>20. ASSUME Stop PROVE WorldInv'
  BY <1>20 DEF Stop, StartHardened, Starts, NotifyWaiters
<1>21. ASSUME NEW c \in Clients, Request(c) PROVE WorldInv'
  BY <1>21 DEF Request, StartHardened, Starts
<1>22. ASSUME NEW c \in Clients, Arm(c) PROVE WorldInv'
  BY <1>22 DEF Arm, ask
<1>23. ASSUME NEW c \in Clients, Look(c) PROVE WorldInv'
  BY <1>23 DEF Look, ask
<1>24. ASSUME NEW c \in Clients, Await(c) PROVE WorldInv'
  BY <1>24 DEF Await, ask
<1>25. ASSUME NEW c \in Clients, Answer(c) PROVE WorldInv'
  BY <1>25 DEF Answer, ask, Told
<1>26. ASSUME NEW c \in Clients, Wake(c) PROVE WorldInv'
  BY <1>26 DEF Wake, ask
<1>27. ASSUME NEW c \in Clients, Hangup(c) PROVE WorldInv'
  BY <1>27 DEF Hangup, ask
<1>28. CASE UNCHANGED vars
  BY <1>28 DEF vars
<1> QED
  BY <1>1, <1>2, <1>3, <1>4, <1>5, <1>6, <1>7, <1>8, <1>9, <1>10, <1>11,
     <1>12, <1>13, <1>14, <1>15, <1>16, <1>17, <1>18, <1>19, <1>20, <1>21,
     <1>22, <1>23, <1>24, <1>25, <1>26, <1>27, <1>28
     DEF Next, Processes, Metadata, Owner, Handle

LEMMA ControlStep == TypeOK /\ ControlInv /\ [Next]_vars => ControlInv'
<1> SUFFICES ASSUME TypeOK, ControlInv, [Next]_vars PROVE ControlInv'
    OBVIOUS
<1> USE CancelAssumption DEF TypeOK, ControlInv, broker, group, meta, operation, requests, history, Finished
<1>1. ASSUME Join PROVE ControlInv'
  BY <1>1 DEF Join
<1>2. ASSUME Go PROVE ControlInv'
  BY <1>2 DEF Go
<1>3. ASSUME LeaderMoves PROVE ControlInv'
  BY <1>3 DEF LeaderMoves
<1>4. ASSUME LeaderExits PROVE ControlInv'
  BY <1>4 DEF LeaderExits
<1>5. ASSUME Reap PROVE ControlInv'
  BY <1>5 DEF Reap
<1>6. ASSUME RecordStatus PROVE ControlInv'
  BY <1>6 DEF RecordStatus, Quiet, NotifyWaiters
<1>7. ASSUME FailWait PROVE ControlInv'
  BY <1>7 DEF FailWait, Quiet, NotifyWaiters
<1>8. ASSUME CloseOutputs PROVE ControlInv'
  BY <1>8 DEF CloseOutputs, Quiet, NotifyWaiters
<1>9. ASSUME FailOutput PROVE ControlInv'
  BY <1>9 DEF FailOutput, Quiet, NotifyWaiters
<1>10. ASSUME Tick PROVE ControlInv'
  BY <1>10 DEF Tick
<1>11. ASSUME Read PROVE ControlInv'
  BY <1>11 DEF Read, Step
<1>12. ASSUME Enter PROVE ControlInv'
  BY <1>12 DEF Enter, Step, Fail, Active
<1>13. ASSUME Probe PROVE ControlInv'
  BY <1>13 DEF Probe, Step, Settled
<1>14. ASSUME Term PROVE ControlInv'
  BY <1>14 DEF Term, Step, Signal
<1>15. ASSUME Kill PROVE ControlInv'
  BY <1>15 DEF Kill, Step, Signal, KillDue
<1>16. ASSUME Settle PROVE ControlInv'
  BY <1>16 DEF Settle, Step, Complete
<1>17. ASSUME Notify PROVE ControlInv'
  BY <1>17 DEF Notify, NotifyWaiters
<1>18. ASSUME Sleep PROVE ControlInv'
  BY <1>18 DEF Sleep, Step
<1>19. ASSUME SyscallFails PROVE ControlInv'
  BY <1>19 DEF SyscallFails, Step, Fail
<1>20. ASSUME Stop PROVE ControlInv'
  BY <1>20 DEF Stop, StartHardened, Starts, NotifyWaiters
<1>21. ASSUME NEW c \in Clients, Request(c) PROVE ControlInv'
  BY <1>21 DEF Request, StartHardened, Starts
<1>22. ASSUME NEW c \in Clients, Arm(c) PROVE ControlInv'
  BY <1>22 DEF Arm, ask
<1>23. ASSUME NEW c \in Clients, Look(c) PROVE ControlInv'
  BY <1>23 DEF Look, ask
<1>24. ASSUME NEW c \in Clients, Await(c) PROVE ControlInv'
  BY <1>24 DEF Await, ask
<1>25. ASSUME NEW c \in Clients, Answer(c) PROVE ControlInv'
  BY <1>25 DEF Answer, ask, Told
<1>26. ASSUME NEW c \in Clients, Wake(c) PROVE ControlInv'
  BY <1>26 DEF Wake, ask
<1>27. ASSUME NEW c \in Clients, Hangup(c) PROVE ControlInv'
  BY <1>27 DEF Hangup, ask
<1>28. CASE UNCHANGED vars
  BY <1>28 DEF vars
<1> QED
  BY <1>1, <1>2, <1>3, <1>4, <1>5, <1>6, <1>7, <1>8, <1>9, <1>10, <1>11,
     <1>12, <1>13, <1>14, <1>15, <1>16, <1>17, <1>18, <1>19, <1>20, <1>21,
     <1>22, <1>23, <1>24, <1>25, <1>26, <1>27, <1>28
     DEF Next, Processes, Metadata, Owner, Handle

LEMMA AbsenceStep == TypeOK /\ WorldInv /\ ControlInv /\ AbsenceInv /\ [Next]_vars => AbsenceInv'
<1> SUFFICES ASSUME TypeOK, WorldInv, ControlInv, AbsenceInv, [Next]_vars PROVE AbsenceInv'
    OBVIOUS
<1> USE CancelAssumption DEF TypeOK, AbsenceInv, broker, group, meta, operation, requests, history, AbsenceFinal, Present
<1>1. ASSUME Join PROVE AbsenceInv'
  BY <1>1 DEF Join
<1>2. ASSUME Go PROVE AbsenceInv'
  BY <1>2 DEF Go
<1>3. ASSUME LeaderMoves PROVE AbsenceInv'
  BY <1>3 DEF LeaderMoves
<1>4. ASSUME LeaderExits PROVE AbsenceInv'
  BY <1>4 DEF LeaderExits
<1>5. ASSUME Reap PROVE AbsenceInv'
  BY <1>5 DEF Reap, WorldInv
<1>6. ASSUME RecordStatus PROVE AbsenceInv'
  BY <1>6 DEF RecordStatus, Quiet, NotifyWaiters
<1>7. ASSUME FailWait PROVE AbsenceInv'
  BY <1>7 DEF FailWait, Quiet, NotifyWaiters
<1>8. ASSUME CloseOutputs PROVE AbsenceInv'
  BY <1>8 DEF CloseOutputs, Quiet, NotifyWaiters
<1>9. ASSUME FailOutput PROVE AbsenceInv'
  BY <1>9 DEF FailOutput, Quiet, NotifyWaiters
<1>10. ASSUME Tick PROVE AbsenceInv'
  BY <1>10 DEF Tick
<1>11. ASSUME Read PROVE AbsenceInv'
  BY <1>11 DEF Read, Step
<1>12. ASSUME Enter PROVE AbsenceInv'
  BY <1>12 DEF Enter, Step, Fail
<1>13. ASSUME Probe PROVE AbsenceInv'
  BY <1>13 DEF Probe, Step, Settled, WorldInv, ControlInv
<1>14. ASSUME Term PROVE AbsenceInv'
  BY <1>14 DEF Term, Step, Signal
<1>15. ASSUME Kill PROVE AbsenceInv'
  BY <1>15 DEF Kill, Step, Signal, KillDue
<1>16. ASSUME Settle PROVE AbsenceInv'
  BY <1>16 DEF Settle, Step, Complete
<1>17. ASSUME Notify PROVE AbsenceInv'
  BY <1>17 DEF Notify, NotifyWaiters
<1>18. ASSUME Sleep PROVE AbsenceInv'
  BY <1>18 DEF Sleep, Step
<1>19. ASSUME SyscallFails PROVE AbsenceInv'
  BY <1>19 DEF SyscallFails, Step, Fail
<1>20. ASSUME Stop PROVE AbsenceInv'
  BY <1>20 DEF Stop, StartHardened, Starts, NotifyWaiters
<1>21. ASSUME NEW c \in Clients, Request(c) PROVE AbsenceInv'
  BY <1>21 DEF Request, StartHardened, Starts
<1>22. ASSUME NEW c \in Clients, Arm(c) PROVE AbsenceInv'
  BY <1>22 DEF Arm, ask
<1>23. ASSUME NEW c \in Clients, Look(c) PROVE AbsenceInv'
  BY <1>23 DEF Look, ask
<1>24. ASSUME NEW c \in Clients, Await(c) PROVE AbsenceInv'
  BY <1>24 DEF Await, ask
<1>25. ASSUME NEW c \in Clients, Answer(c) PROVE AbsenceInv'
  BY <1>25 DEF Answer, ask, Told
<1>26. ASSUME NEW c \in Clients, Wake(c) PROVE AbsenceInv'
  BY <1>26 DEF Wake, ask
<1>27. ASSUME NEW c \in Clients, Hangup(c) PROVE AbsenceInv'
  BY <1>27 DEF Hangup, ask
<1>28. CASE UNCHANGED vars
  BY <1>28 DEF vars
<1> QED
  BY <1>1, <1>2, <1>3, <1>4, <1>5, <1>6, <1>7, <1>8, <1>9, <1>10, <1>11,
     <1>12, <1>13, <1>14, <1>15, <1>16, <1>17, <1>18, <1>19, <1>20, <1>21,
     <1>22, <1>23, <1>24, <1>25, <1>26, <1>27, <1>28
     DEF Next, Processes, Metadata, Owner, Handle

LEMMA SignalStep == TypeOK /\ ControlInv /\ SignalInv /\ [Next]_vars => SignalInv'
<1> SUFFICES ASSUME TypeOK, ControlInv, SignalInv, [Next]_vars PROVE SignalInv'
    OBVIOUS
<1> USE CancelAssumption DEF TypeOK, SignalInv, broker, group, meta, operation, requests, history, ControlInv
<1>1. ASSUME Join PROVE SignalInv'
  BY <1>1 DEF Join
<1>2. ASSUME Go PROVE SignalInv'
  BY <1>2 DEF Go
<1>3. ASSUME LeaderMoves PROVE SignalInv'
  BY <1>3 DEF LeaderMoves
<1>4. ASSUME LeaderExits PROVE SignalInv'
  BY <1>4 DEF LeaderExits
<1>5. ASSUME Reap PROVE SignalInv'
  BY <1>5 DEF Reap
<1>6. ASSUME RecordStatus PROVE SignalInv'
  BY <1>6 DEF RecordStatus, Quiet, NotifyWaiters
<1>7. ASSUME FailWait PROVE SignalInv'
  BY <1>7 DEF FailWait, Quiet, NotifyWaiters
<1>8. ASSUME CloseOutputs PROVE SignalInv'
  BY <1>8 DEF CloseOutputs, Quiet, NotifyWaiters
<1>9. ASSUME FailOutput PROVE SignalInv'
  BY <1>9 DEF FailOutput, Quiet, NotifyWaiters
<1>10. ASSUME Tick PROVE SignalInv'
  BY <1>10 DEF Tick
<1>11. ASSUME Read PROVE SignalInv'
  BY <1>11 DEF Read, Step
<1>12. ASSUME Enter PROVE SignalInv'
  BY <1>12 DEF Enter, Step, Fail
<1>13. ASSUME Probe PROVE SignalInv'
  BY <1>13 DEF Probe, Step, Settled
<1>14. ASSUME Term PROVE SignalInv'
  BY <1>14 DEF Term, Step, Signal
<1>15. ASSUME Kill PROVE SignalInv'
  BY <1>15 DEF Kill, Step, Signal, KillDue
<1>16. ASSUME Settle PROVE SignalInv'
  BY <1>16 DEF Settle, Step, Complete
<1>17. ASSUME Notify PROVE SignalInv'
  BY <1>17 DEF Notify, NotifyWaiters
<1>18. ASSUME Sleep PROVE SignalInv'
  BY <1>18 DEF Sleep, Step
<1>19. ASSUME SyscallFails PROVE SignalInv'
  BY <1>19 DEF SyscallFails, Step, Fail
<1>20. ASSUME Stop PROVE SignalInv'
  BY <1>20 DEF Stop, StartHardened, Starts, NotifyWaiters
<1>21. ASSUME NEW c \in Clients, Request(c) PROVE SignalInv'
  BY <1>21 DEF Request, StartHardened, Starts
<1>22. ASSUME NEW c \in Clients, Arm(c) PROVE SignalInv'
  BY <1>22 DEF Arm, ask
<1>23. ASSUME NEW c \in Clients, Look(c) PROVE SignalInv'
  BY <1>23 DEF Look, ask
<1>24. ASSUME NEW c \in Clients, Await(c) PROVE SignalInv'
  BY <1>24 DEF Await, ask
<1>25. ASSUME NEW c \in Clients, Answer(c) PROVE SignalInv'
  BY <1>25 DEF Answer, ask, Told
<1>26. ASSUME NEW c \in Clients, Wake(c) PROVE SignalInv'
  BY <1>26 DEF Wake, ask
<1>27. ASSUME NEW c \in Clients, Hangup(c) PROVE SignalInv'
  BY <1>27 DEF Hangup, ask
<1>28. CASE UNCHANGED vars
  BY <1>28 DEF vars
<1> QED
  BY <1>1, <1>2, <1>3, <1>4, <1>5, <1>6, <1>7, <1>8, <1>9, <1>10, <1>11,
     <1>12, <1>13, <1>14, <1>15, <1>16, <1>17, <1>18, <1>19, <1>20, <1>21,
     <1>22, <1>23, <1>24, <1>25, <1>26, <1>27, <1>28
     DEF Next, Processes, Metadata, Owner, Handle

LEMMA OutcomeStep == TypeOK /\ WorldInv /\ ControlInv /\ AbsenceInv /\ OutcomeInv /\ [Next]_vars => OutcomeInv'
<1> SUFFICES ASSUME TypeOK, WorldInv, ControlInv, AbsenceInv, OutcomeInv, [Next]_vars PROVE OutcomeInv'
    OBVIOUS
<1> USE CancelAssumption DEF TypeOK, OutcomeInv, broker, group, meta, operation, requests, history, OutcomeHonest, SettledTruth, ControlInv, WorldInv, AbsenceInv, AbsenceFinal, Present, Finished, Terminal, Failure
<1>1. ASSUME Join PROVE OutcomeInv'
  BY <1>1 DEF Join
<1>2. ASSUME Go PROVE OutcomeInv'
  BY <1>2 DEF Go
<1>3. ASSUME LeaderMoves PROVE OutcomeInv'
  BY <1>3 DEF LeaderMoves
<1>4. ASSUME LeaderExits PROVE OutcomeInv'
  BY <1>4 DEF LeaderExits
<1>5. ASSUME Reap PROVE OutcomeInv'
  BY <1>5 DEF Reap
<1>6. ASSUME RecordStatus PROVE OutcomeInv'
  BY <1>6 DEF RecordStatus, Quiet, NotifyWaiters
<1>7. ASSUME FailWait PROVE OutcomeInv'
  BY <1>7 DEF FailWait, Quiet, NotifyWaiters
<1>8. ASSUME CloseOutputs PROVE OutcomeInv'
  BY <1>8 DEF CloseOutputs, Quiet, NotifyWaiters
<1>9. ASSUME FailOutput PROVE OutcomeInv'
  BY <1>9 DEF FailOutput, Quiet, NotifyWaiters
<1>10. ASSUME Tick PROVE OutcomeInv'
  BY <1>10 DEF Tick
<1>11. ASSUME Read PROVE OutcomeInv'
  BY <1>11 DEF Read, Step
<1>12. ASSUME Enter PROVE OutcomeInv'
  BY <1>12 DEF Enter, Step, Fail
<1>13. ASSUME Probe PROVE OutcomeInv'
  BY <1>13 DEF Probe, Step, Settled
<1>14. ASSUME Term PROVE OutcomeInv'
  BY <1>14 DEF Term, Step, Signal
<1>15. ASSUME Kill PROVE OutcomeInv'
  BY <1>15 DEF Kill, Step, Signal, KillDue
<1>16. ASSUME Settle PROVE OutcomeInv'
  BY <1>16 DEF Settle, Step, Complete
<1>17. ASSUME Notify PROVE OutcomeInv'
  BY <1>17 DEF Notify, NotifyWaiters
<1>18. ASSUME Sleep PROVE OutcomeInv'
  BY <1>18 DEF Sleep, Step
<1>19. ASSUME SyscallFails PROVE OutcomeInv'
  BY <1>19 DEF SyscallFails, Step, Fail
<1>20. ASSUME Stop PROVE OutcomeInv'
  BY <1>20 DEF Stop, StartHardened, Starts, NotifyWaiters
<1>21. ASSUME NEW c \in Clients, Request(c) PROVE OutcomeInv'
  BY <1>21 DEF Request, StartHardened, Starts
<1>22. ASSUME NEW c \in Clients, Arm(c) PROVE OutcomeInv'
  BY <1>22 DEF Arm, ask
<1>23. ASSUME NEW c \in Clients, Look(c) PROVE OutcomeInv'
  BY <1>23 DEF Look, ask
<1>24. ASSUME NEW c \in Clients, Await(c) PROVE OutcomeInv'
  BY <1>24 DEF Await, ask
<1>25. ASSUME NEW c \in Clients, Answer(c) PROVE OutcomeInv'
  BY <1>25 DEF Answer, ask, Told
<1>26. ASSUME NEW c \in Clients, Wake(c) PROVE OutcomeInv'
  BY <1>26 DEF Wake, ask
<1>27. ASSUME NEW c \in Clients, Hangup(c) PROVE OutcomeInv'
  BY <1>27 DEF Hangup, ask
<1>28. CASE UNCHANGED vars
  BY <1>28 DEF vars
<1> QED
  BY <1>1, <1>2, <1>3, <1>4, <1>5, <1>6, <1>7, <1>8, <1>9, <1>10, <1>11,
     <1>12, <1>13, <1>14, <1>15, <1>16, <1>17, <1>18, <1>19, <1>20, <1>21,
     <1>22, <1>23, <1>24, <1>25, <1>26, <1>27, <1>28
     DEF Next, Processes, Metadata, Owner, Handle

LEMMA RequestStep == TypeOK /\ RequestInv /\ [Next]_vars => RequestInv'
<1> SUFFICES ASSUME TypeOK, RequestInv, [Next]_vars PROVE RequestInv'
    OBVIOUS
<1> USE CancelAssumption DEF TypeOK, RequestInv, broker, group, meta, operation, requests, history
<1>1. ASSUME Join PROVE RequestInv'
  BY <1>1 DEF Join
<1>2. ASSUME Go PROVE RequestInv'
  BY <1>2 DEF Go
<1>3. ASSUME LeaderMoves PROVE RequestInv'
  BY <1>3 DEF LeaderMoves
<1>4. ASSUME LeaderExits PROVE RequestInv'
  BY <1>4 DEF LeaderExits
<1>5. ASSUME Reap PROVE RequestInv'
  BY <1>5 DEF Reap
<1>6. ASSUME RecordStatus PROVE RequestInv'
  BY <1>6 DEF RecordStatus, Quiet, NotifyWaiters
<1>7. ASSUME FailWait PROVE RequestInv'
  BY <1>7 DEF FailWait, Quiet, NotifyWaiters
<1>8. ASSUME CloseOutputs PROVE RequestInv'
  BY <1>8 DEF CloseOutputs, Quiet, NotifyWaiters
<1>9. ASSUME FailOutput PROVE RequestInv'
  BY <1>9 DEF FailOutput, Quiet, NotifyWaiters
<1>10. ASSUME Tick PROVE RequestInv'
  BY <1>10 DEF Tick
<1>11. ASSUME Read PROVE RequestInv'
  BY <1>11 DEF Read, Step
<1>12. ASSUME Enter PROVE RequestInv'
  BY <1>12 DEF Enter, Step, Fail
<1>13. ASSUME Probe PROVE RequestInv'
  BY <1>13 DEF Probe, Step, Settled
<1>14. ASSUME Term PROVE RequestInv'
  BY <1>14 DEF Term, Step, Signal
<1>15. ASSUME Kill PROVE RequestInv'
  BY <1>15 DEF Kill, Step, Signal, KillDue
<1>16. ASSUME Settle PROVE RequestInv'
  BY <1>16 DEF Settle, Step, Complete
<1>17. ASSUME Notify PROVE RequestInv'
  BY <1>17 DEF Notify, NotifyWaiters
<1>18. ASSUME Sleep PROVE RequestInv'
  BY <1>18 DEF Sleep, Step
<1>19. ASSUME SyscallFails PROVE RequestInv'
  BY <1>19 DEF SyscallFails, Step, Fail
<1>20. ASSUME Stop PROVE RequestInv'
  BY <1>20 DEF Stop, StartHardened, Starts, NotifyWaiters
<1>21. ASSUME NEW c \in Clients, Request(c) PROVE RequestInv'
  BY <1>21 DEF Request, StartHardened, Starts
<1>22. ASSUME NEW c \in Clients, Arm(c) PROVE RequestInv'
  BY <1>22 DEF Arm, ask
<1>23. ASSUME NEW c \in Clients, Look(c) PROVE RequestInv'
  BY <1>23 DEF Look, ask
<1>24. ASSUME NEW c \in Clients, Await(c) PROVE RequestInv'
  BY <1>24 DEF Await, ask
<1>25. ASSUME NEW c \in Clients, Answer(c) PROVE RequestInv'
  BY <1>25 DEF Answer, ask, Told
<1>26. ASSUME NEW c \in Clients, Wake(c) PROVE RequestInv'
  BY <1>26 DEF Wake, ask
<1>27. ASSUME NEW c \in Clients, Hangup(c) PROVE RequestInv'
  BY <1>27 DEF Hangup, ask
<1>28. CASE UNCHANGED vars
  BY <1>28 DEF vars
<1> QED
  BY <1>1, <1>2, <1>3, <1>4, <1>5, <1>6, <1>7, <1>8, <1>9, <1>10, <1>11,
     <1>12, <1>13, <1>14, <1>15, <1>16, <1>17, <1>18, <1>19, <1>20, <1>21,
     <1>22, <1>23, <1>24, <1>25, <1>26, <1>27, <1>28
     DEF Next, Processes, Metadata, Owner, Handle

-----------------------------------------------------------------------------
LEMMA InvInit == Init => IInv
<1> SUFFICES ASSUME Init PROVE IInv
    OBVIOUS
<1>1. TypeOK
  BY TypeInit
<1>2. WorldInv /\ ControlInv
  BY DEF Init, WorldInv, ControlInv, Terminal, Finished, Nothing
<1>3. AbsenceInv /\ SignalInv /\ OutcomeInv
  BY DEF Init, AbsenceInv, AbsenceFinal, SignalInv, OutcomeInv, OutcomeHonest,
         SettledTruth
<1>4. RequestInv
  BY DEF Init, RequestInv
<1> QED
  BY <1>1, <1>2, <1>3, <1>4 DEF IInv

LEMMA InvStep == IInv /\ [Next]_vars => IInv'
BY TypeStep, WorldStep, ControlStep, AbsenceStep, SignalStep, OutcomeStep,
   RequestStep DEF IInv

(* The strengthening that all the properties below follow from: what the   *)
(* owner of src/src/broker.rs:1449 read, where it stands and what it has    *)
(* sent agree with each other and with the group.                           *)
THEOREM Invariance == Spec => []IInv
<1>1. Init => IInv
  BY InvInit
<1>2. IInv /\ [Next]_vars => IInv'
  BY InvStep
<1> QED
  BY <1>1, <1>2, PTL DEF Spec

(* The phase, the result and everything else the code keeps stay within    *)
(* their types, and an operation has a result exactly when its phase says so *)
(* (src/src/cancellation.rs).                                               *)
THEOREM TypeCorrect == Spec => []TypeOK
<1>1. IInv => TypeOK
  BY DEF IInv
<1> QED
  BY <1>1, Invariance, PTL

(* One TERM and one KILL at most, whoever asks, joins or retries            *)
(* (Cancellation::advance_group).                                           *)
THEOREM Signals == Spec => []OneTermOneKill
<1>1. IInv => OneTermOneKill
  BY DEF IInv, SignalInv, OneTermOneKill
<1> QED
  BY <1>1, Invariance, PTL

(* An absent group is absent for ever (Cancellation::advance_group).        *)
THEOREM SettledForGood == Spec => []AbsenceFinal
<1>1. IInv => AbsenceFinal
  BY DEF IInv, AbsenceInv
<1> QED
  BY <1>1, Invariance, PTL

(* A settled operation is settled in fact, the outcome says whether a       *)
(* signal found a group, and one request at most is told that it won        *)
(* (Cancellation::step, cancel_hardened).                                   *)
THEOREM Outcome == Spec => []Outcomes
<1>1. IInv => Outcomes
  BY DEF IInv, OutcomeInv, RequestInv, Outcomes, OneWinner
<1> QED
  BY <1>1, Invariance, PTL

LEMMA ResultStep == TypeOK /\ ControlInv /\ [Next]_vars
                        => (Finished => UNCHANGED <<result, terms, kills>>)
<1> SUFFICES ASSUME TypeOK, ControlInv, [Next]_vars, Finished
             PROVE  UNCHANGED <<result, terms, kills>>
    OBVIOUS
<1> USE CancelAssumption DEF TypeOK, ControlInv, Finished, broker, group, meta, operation, requests, history
<1>1. ASSUME Join PROVE UNCHANGED <<result, terms, kills>>
  BY <1>1 DEF Join
<1>2. ASSUME Go PROVE UNCHANGED <<result, terms, kills>>
  BY <1>2 DEF Go
<1>3. ASSUME LeaderMoves PROVE UNCHANGED <<result, terms, kills>>
  BY <1>3 DEF LeaderMoves
<1>4. ASSUME LeaderExits PROVE UNCHANGED <<result, terms, kills>>
  BY <1>4 DEF LeaderExits
<1>5. ASSUME Reap PROVE UNCHANGED <<result, terms, kills>>
  BY <1>5 DEF Reap
<1>6. ASSUME RecordStatus PROVE UNCHANGED <<result, terms, kills>>
  BY <1>6 DEF RecordStatus, Quiet, NotifyWaiters
<1>7. ASSUME FailWait PROVE UNCHANGED <<result, terms, kills>>
  BY <1>7 DEF FailWait, Quiet, NotifyWaiters
<1>8. ASSUME CloseOutputs PROVE UNCHANGED <<result, terms, kills>>
  BY <1>8 DEF CloseOutputs, Quiet, NotifyWaiters
<1>9. ASSUME FailOutput PROVE UNCHANGED <<result, terms, kills>>
  BY <1>9 DEF FailOutput, Quiet, NotifyWaiters
<1>10. ASSUME Tick PROVE UNCHANGED <<result, terms, kills>>
  BY <1>10 DEF Tick
<1>11. ASSUME Read PROVE UNCHANGED <<result, terms, kills>>
  BY <1>11 DEF Read, Step
<1>12. ASSUME Enter PROVE UNCHANGED <<result, terms, kills>>
  BY <1>12 DEF Enter, Step, Fail
<1>13. ASSUME Probe PROVE UNCHANGED <<result, terms, kills>>
  BY <1>13 DEF Probe, Step, Settled
<1>14. ASSUME Term PROVE UNCHANGED <<result, terms, kills>>
  BY <1>14 DEF Term, Step, Signal
<1>15. ASSUME Kill PROVE UNCHANGED <<result, terms, kills>>
  BY <1>15 DEF Kill, Step, Signal, KillDue
<1>16. ASSUME Settle PROVE UNCHANGED <<result, terms, kills>>
  BY <1>16 DEF Settle, Step, Complete
<1>17. ASSUME Notify PROVE UNCHANGED <<result, terms, kills>>
  BY <1>17 DEF Notify, NotifyWaiters
<1>18. ASSUME Sleep PROVE UNCHANGED <<result, terms, kills>>
  BY <1>18 DEF Sleep, Step
<1>19. ASSUME SyscallFails PROVE UNCHANGED <<result, terms, kills>>
  BY <1>19 DEF SyscallFails, Step, Fail
<1>20. ASSUME Stop PROVE UNCHANGED <<result, terms, kills>>
  BY <1>20 DEF Stop, StartHardened, Starts, NotifyWaiters
<1>21. ASSUME NEW c \in Clients, Request(c) PROVE UNCHANGED <<result, terms, kills>>
  BY <1>21 DEF Request, StartHardened, Starts
<1>22. ASSUME NEW c \in Clients, Arm(c) PROVE UNCHANGED <<result, terms, kills>>
  BY <1>22 DEF Arm, ask
<1>23. ASSUME NEW c \in Clients, Look(c) PROVE UNCHANGED <<result, terms, kills>>
  BY <1>23 DEF Look, ask
<1>24. ASSUME NEW c \in Clients, Await(c) PROVE UNCHANGED <<result, terms, kills>>
  BY <1>24 DEF Await, ask
<1>25. ASSUME NEW c \in Clients, Answer(c) PROVE UNCHANGED <<result, terms, kills>>
  BY <1>25 DEF Answer, ask, Told
<1>26. ASSUME NEW c \in Clients, Wake(c) PROVE UNCHANGED <<result, terms, kills>>
  BY <1>26 DEF Wake, ask
<1>27. ASSUME NEW c \in Clients, Hangup(c) PROVE UNCHANGED <<result, terms, kills>>
  BY <1>27 DEF Hangup, ask
<1>28. CASE UNCHANGED vars
  BY <1>28 DEF vars
<1> QED
  BY <1>1, <1>2, <1>3, <1>4, <1>5, <1>6, <1>7, <1>8, <1>9, <1>10, <1>11,
     <1>12, <1>13, <1>14, <1>15, <1>16, <1>17, <1>18, <1>19, <1>20, <1>21,
     <1>22, <1>23, <1>24, <1>25, <1>26, <1>27, <1>28
     DEF Next, Processes, Metadata, Owner, Handle

(* No step takes a result back, changes it, or signals after it. *)
THEOREM Finality == Spec => ResultFinal
<1>1. IInv /\ [Next]_vars => [Finished => UNCHANGED <<result, terms, kills>>]_vars
  BY ResultStep DEF IInv
<1> QED
  BY <1>1, Invariance, PTL DEF Spec, ResultFinal

-----------------------------------------------------------------------------
(* The cancellation of an ordinary session, over the same processes: the    *)
(* requests of LegacyCancel, for any number of them and groups of any size. *)
VARIABLES doomed, strangers, closed, pc, due, accepted, strayed

Ordinary == INSTANCE LegacyCancel WITH outputs <- closed, signaled <- accepted

(* A leader that never left its group is in it, so an empty group has a     *)
(* reaped leader, and nobody is left to fork or to come back.  The number   *)
(* is a stranger's only when the leader is reaped: without this, a leader   *)
(* that comes back could find its number taken, and TypeOK would not hold   *)
(* of the next state.                                                       *)
Left(c) == pc[c] = "terminal" \/ Ordinary!Answered(c)

OrdinaryInv ==
    /\ Ordinary!TypeOK
    /\ strangers => leader = "reaped"
    /\ strayed \/ leaderIn
    /\ strayed \/ \A c \in Clients : Left(c) => ~Ordinary!Own

LEMMA OrdinaryInit == Ordinary!Init => OrdinaryInv
<1> SUFFICES ASSUME Ordinary!Init PROVE OrdinaryInv
    OBVIOUS
<1>1. due \in [Clients -> BOOLEAN] /\ accepted \in [Clients -> BOOLEAN]
  BY Zenon DEF Ordinary!Init
<1>2. pc = [c \in Clients |-> "idle"] /\ leaderIn /\ ~strangers /\ members = 0
  BY DEF Ordinary!Init
<1>3. pc \in [Clients -> {"idle", "term", "grace", "look", "kill", "empty", "terminal"}
                         \cup Ordinary!Told]
  BY <1>2
<1>4. Ordinary!TypeOK
  <2>1. /\ leader = "live" /\ leaderIn = TRUE /\ members \in 0 .. MaxMembers
        /\ doomed = FALSE /\ strangers = FALSE /\ status = FALSE /\ closed = FALSE
        /\ strayed = FALSE
    BY CancelAssumption DEF Ordinary!Init
  <2> QED
    BY <1>1, <1>3, <2>1, Zenon DEF Ordinary!TypeOK
<1>5. \A c \in Clients : ~Left(c)
  BY <1>2 DEF Left, Ordinary!Answered
<1> QED
  BY <1>2, <1>4, <1>5 DEF OrdinaryInv

(* The processes: with the leader in it, an empty group stays empty.        *)
LEMMA OrdinaryProcesses ==
    ASSUME OrdinaryInv, Ordinary!Processes
    PROVE  OrdinaryInv'
<1>1. Ordinary!TypeOK /\ members \in Nat /\ (strangers => leader = "reaped")
  BY CancelAssumption DEF OrdinaryInv, Ordinary!TypeOK
<1>2. UNCHANGED <<pc, due, accepted>>
  BY DEF Ordinary!Processes, Ordinary!Join, Ordinary!Go, Ordinary!LeaderMoves,
         Ordinary!LeaderExits, Ordinary!Reap, Ordinary!CloseOutputs, Ordinary!Recycle,
         Ordinary!World, Ordinary!requests
<1>3. /\ leader' \in {"live", "zombie", "reaped"}
      /\ members' \in 0 .. MaxMembers
      /\ leaderIn' \in BOOLEAN /\ doomed' \in BOOLEAN /\ strangers' \in BOOLEAN
      /\ status' \in BOOLEAN /\ closed' \in BOOLEAN /\ strayed' \in BOOLEAN
      /\ strangers' => ~Ordinary!Own' /\ leader' = "reaped"
      /\ strayed' \/ (~strayed /\ leaderIn' = leaderIn /\ (Ordinary!Own' => Ordinary!Own))
  <2>1. CASE Ordinary!Join
    BY <1>1, <2>1, CancelAssumption DEF Ordinary!Join, Ordinary!World, Ordinary!meta,
       Ordinary!TypeOK, Ordinary!Own
  <2>2. CASE Ordinary!Go
    BY <1>1, <2>2, CancelAssumption DEF Ordinary!Go, Ordinary!World, Ordinary!meta,
       Ordinary!TypeOK, Ordinary!Own
  <2>3. CASE Ordinary!LeaderMoves
    BY <1>1, <2>3, CancelAssumption DEF Ordinary!LeaderMoves, Ordinary!meta, Ordinary!TypeOK,
       Ordinary!Own
  <2>4. CASE Ordinary!LeaderExits
    BY <1>1, <2>4 DEF Ordinary!LeaderExits, Ordinary!World, Ordinary!meta, Ordinary!TypeOK,
       Ordinary!Own
  <2>5. CASE Ordinary!Reap
    BY <1>1, <2>5 DEF Ordinary!Reap, Ordinary!TypeOK, Ordinary!Own
  <2>6. CASE Ordinary!CloseOutputs
    BY <1>1, <2>6 DEF Ordinary!CloseOutputs, Ordinary!group, Ordinary!TypeOK, Ordinary!Own
  <2>7. CASE Ordinary!Recycle
    BY <1>1, <2>7 DEF Ordinary!Recycle, Ordinary!group, Ordinary!meta, Ordinary!TypeOK,
       Ordinary!Own
  <2> QED
    BY <2>1, <2>2, <2>3, <2>4, <2>5, <2>6, <2>7 DEF Ordinary!Processes
<1>4. Ordinary!TypeOK'
  BY <1>1, <1>2, <1>3 DEF Ordinary!TypeOK
<1>5. \A c \in Clients : Left(c)' <=> Left(c)
  BY <1>2 DEF Left, Ordinary!Answered
<1> QED
  BY <1>3, <1>4, <1>5 DEF OrdinaryInv

(* A request: it gets behind its look at the group only when there is none. *)
LEMMA OrdinaryRequest ==
    ASSUME OrdinaryInv, NEW c \in Clients,
           Ordinary!Request(c) \/ Ordinary!GraceOver(c) \/ Ordinary!Serve(c)
    PROVE  OrdinaryInv'
<1>1. Ordinary!TypeOK
  BY DEF OrdinaryInv
<1>2. UNCHANGED <<leader, leaderIn, members, strangers, status, closed, strayed>>
  BY DEF Ordinary!Request, Ordinary!GraceOver, Ordinary!Serve, Ordinary!Term, Ordinary!GraceEnds,
         Ordinary!Look, Ordinary!Kill, Ordinary!Refused, Ordinary!Empty, Ordinary!Answer,
         Ordinary!At, Ordinary!group, Ordinary!meta
<1>3. due' \in [Clients -> BOOLEAN] /\ accepted' \in [Clients -> BOOLEAN] /\ doomed' \in BOOLEAN
  <2>1. \/ UNCHANGED accepted
        \/ accepted' = [accepted EXCEPT ![c] = @ \/ Ordinary!GroupExists]
    BY DEF Ordinary!Request, Ordinary!GraceOver, Ordinary!Serve, Ordinary!Term, Ordinary!GraceEnds,
           Ordinary!Look, Ordinary!Kill, Ordinary!Refused, Ordinary!Empty, Ordinary!Answer,
           Ordinary!Quiet, Ordinary!Killpg
  <2>2. UNCHANGED due \/ due' = [due EXCEPT ![c] = TRUE]
    BY DEF Ordinary!Request, Ordinary!GraceOver, Ordinary!Serve, Ordinary!Term, Ordinary!GraceEnds,
           Ordinary!Look, Ordinary!Kill, Ordinary!Refused, Ordinary!Empty, Ordinary!Answer,
           Ordinary!Quiet
  <2>3. UNCHANGED doomed \/ doomed' = (doomed \/ Ordinary!Own)
    BY DEF Ordinary!Request, Ordinary!GraceOver, Ordinary!Serve, Ordinary!Term, Ordinary!GraceEnds,
           Ordinary!Look, Ordinary!Kill, Ordinary!Refused, Ordinary!Empty, Ordinary!Answer,
           Ordinary!Quiet, Ordinary!group
  <2>4. Ordinary!GroupExists \in BOOLEAN /\ Ordinary!Own \in BOOLEAN
    BY <1>1 DEF Ordinary!GroupExists, Ordinary!Own, Ordinary!TypeOK
  <2>5. accepted' \in [Clients -> BOOLEAN]
    BY <1>1, <2>1, <2>4 DEF Ordinary!TypeOK
  <2>6. due' \in [Clients -> BOOLEAN]
    BY <1>1, <2>2 DEF Ordinary!TypeOK
  <2>7. doomed' \in BOOLEAN
    BY <1>1, <2>3, <2>4 DEF Ordinary!TypeOK
  <2> QED
    BY <2>5, <2>6, <2>7
<1>4. \E to \in {"term", "grace", "look", "kill", "empty", "terminal"} \cup Ordinary!Told :
         /\ pc' = [pc EXCEPT ![c] = to] \/ (to = "term" /\ UNCHANGED pc)
         /\ to \in {"terminal", "cancel_won", "already_exited"} =>
               ~Ordinary!Own \/ pc[c] = "terminal"
  <2>1. CASE Ordinary!Request(c) \/ Ordinary!GraceOver(c)
    BY <2>1 DEF Ordinary!Request, Ordinary!GraceOver, Ordinary!At
  <2>2. CASE Ordinary!Term(c) \/ Ordinary!GraceEnds(c) \/ Ordinary!Kill(c)
    BY <2>2 DEF Ordinary!Term, Ordinary!GraceEnds, Ordinary!Kill, Ordinary!At
  <2>3. CASE Ordinary!Look(c)
    <3>1. pc' = [pc EXCEPT ![c] = "kill"] \/ pc' = [pc EXCEPT ![c] = "empty"]
      BY <2>3 DEF Ordinary!Look, Ordinary!At
    <3> QED
      BY <3>1
  <2>4. CASE Ordinary!Refused(c)
    <3>1. pc' = [pc EXCEPT ![c] = "error"] /\ "error" \in Ordinary!Told
      BY <2>4 DEF Ordinary!Refused, Ordinary!At, Ordinary!Told
    <3> QED
      BY <3>1 DEF Ordinary!Told
  <2>5. CASE Ordinary!Empty(c)
    <3>1. pc' = [pc EXCEPT ![c] = "terminal"] /\ ~Ordinary!Own
      BY <2>5 DEF Ordinary!Empty, Ordinary!Emptied, Ordinary!GroupExists, Ordinary!At
    <3> QED
      BY <3>1
  <2>6. CASE Ordinary!Answer(c)
    <3>1. pc' = [pc EXCEPT ![c] = Ordinary!Outcome(c)] /\ pc[c] = "terminal"
      BY <2>6 DEF Ordinary!Answer, Ordinary!At
    <3>2. Ordinary!Outcome(c) \in Ordinary!Told
      BY DEF Ordinary!Outcome, Ordinary!Told
    <3> QED
      BY <3>1, <3>2
  <2> QED
    BY <2>1, <2>2, <2>3, <2>4, <2>5, <2>6 DEF Ordinary!Serve
<1>5. PICK to \in {"term", "grace", "look", "kill", "empty", "terminal"} \cup Ordinary!Told :
         /\ pc' = [pc EXCEPT ![c] = to] \/ (to = "term" /\ UNCHANGED pc)
         /\ to \in {"terminal", "cancel_won", "already_exited"} =>
               ~Ordinary!Own \/ pc[c] = "terminal"
  BY <1>4
<1>6. pc' \in [Clients -> {"idle", "term", "grace", "look", "kill", "empty", "terminal"}
                          \cup Ordinary!Told]
  BY <1>1, <1>5 DEF Ordinary!TypeOK
<1>7. (Ordinary!Own' <=> Ordinary!Own)
  BY <1>2 DEF Ordinary!Own
<1>8. Ordinary!TypeOK'
  BY <1>1, <1>2, <1>3, <1>6, <1>7 DEF Ordinary!TypeOK
<1>9. strayed \/ \A d \in Clients : Left(d)' => ~Ordinary!Own
  <2> SUFFICES ASSUME ~strayed, NEW d \in Clients, Left(d)' PROVE ~Ordinary!Own
      OBVIOUS
  <2>1. CASE pc'[d] = pc[d]
    BY <2>1 DEF OrdinaryInv, Left, Ordinary!Answered
  <2>2. CASE pc'[d] # pc[d]
    <3>1. d = c /\ pc'[c] = to
      BY <1>1, <1>5, <2>2 DEF Ordinary!TypeOK
    <3>2. ~Ordinary!Own \/ Left(c)
      BY <1>5, <3>1 DEF Left, Ordinary!Answered
    <3> QED
      BY <3>2 DEF OrdinaryInv
  <2> QED
    BY <2>1, <2>2
<1> QED
  BY <1>2, <1>7, <1>8, <1>9 DEF OrdinaryInv

(* An ordinary cancellation that is answered with an exit has left nothing  *)
(* of the group, for good: for any number of requests, groups of any size   *)
(* and whoever is given the number afterwards, as long as the leader never  *)
(* left its group (broker.rs cancel_process_group).                         *)
THEOREM OrdinaryLeavesNothing == Ordinary!Spec => []Ordinary!LeftEmpty
<1>1. OrdinaryInv /\ [Ordinary!Next]_(Ordinary!vars) => OrdinaryInv'
  <2>1. ASSUME OrdinaryInv, UNCHANGED Ordinary!vars PROVE OrdinaryInv'
    BY <2>1 DEF OrdinaryInv, Left, Ordinary!vars, Ordinary!TypeOK, Ordinary!Own,
                Ordinary!Answered
  <2> QED
    BY <2>1, OrdinaryProcesses, OrdinaryRequest DEF Ordinary!Next
<1>2. OrdinaryInv => Ordinary!LeftEmpty
  BY DEF OrdinaryInv, Left, Ordinary!LeftEmpty
<1> QED
  BY <1>1, <1>2, OrdinaryInit, PTL DEF Ordinary!Spec
=============================================================================
