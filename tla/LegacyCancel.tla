----------------------------- MODULE LegacyCancel -----------------------------
(***************************************************************************)
(* Cancellation of an ordinary session (src/src/broker.rs,                 *)
(* cancel_process_group): every request signals for itself, by the number  *)
(* of the process group, and looks at the group by that number too.        *)
(*                                                                         *)
(* The group is the command's as in GroupCancel, whose leader the broker   *)
(* reaps.  When nothing of it is left, the kernel may give the number to   *)
(* a group of strangers.  A system call is one step.                       *)
(***************************************************************************)
EXTENDS Integers

CONSTANTS Clients,
          MaxMembers    (* processes besides the leader, it bounds the model *)

ASSUME LegacyAssumption == MaxMembers \in Nat

VARIABLES
    leader,     \* live, zombie, or reaped
    leaderIn,   \* it is in its group
    members,    \* other processes of the group
    doomed,     \* KILL was sent to them
    strangers,  \* the number names another group
    status,     \* Meta.status is recorded
    outputs,    \* both streams are closed
    pc,         \* where each request stands
    due,        \* its grace period is over
    signaled,   \* one of its signals was accepted
    strayed     \* history: the leader has left its group once

group == <<leader, leaderIn, members, doomed>>
meta == <<status, outputs>>
requests == <<pc, due, signaled>>
vars == <<leader, leaderIn, members, doomed, strangers, status, outputs, pc,
          due, signaled, strayed>>

Own == (leaderIn /\ leader # "reaped") \/ members > 0
GroupExists == Own \/ strangers
Told == {"cancel_won", "already_exited", "error"}

TypeOK ==
    /\ leader \in {"live", "zombie", "reaped"}
    /\ leaderIn \in BOOLEAN
    /\ members \in 0 .. MaxMembers
    /\ doomed \in BOOLEAN
    /\ strangers \in BOOLEAN
    /\ strangers => ~Own
    /\ status \in BOOLEAN /\ outputs \in BOOLEAN
    /\ pc \in [Clients -> {"idle", "term", "grace", "look", "kill", "empty", "terminal"}
                          \cup Told]
    /\ due \in [Clients -> BOOLEAN]
    /\ signaled \in [Clients -> BOOLEAN]
    /\ strayed \in BOOLEAN

Init ==
    /\ leader = "live" /\ leaderIn = TRUE /\ members = 0 /\ doomed = FALSE
    /\ strangers = FALSE /\ status = FALSE /\ outputs = FALSE
    /\ pc = [c \in Clients |-> "idle"]
    /\ due = [c \in Clients |-> FALSE]
    /\ signaled = [c \in Clients |-> FALSE]
    /\ strayed = FALSE

-----------------------------------------------------------------------------
(* The processes.                                                          *)
World == UNCHANGED <<strangers, meta, requests, strayed>>

Join ==                  \* a fork, or setpgid into a group that was not killed
    /\ Own /\ ~doomed /\ members < MaxMembers
    /\ members' = members + 1
    /\ UNCHANGED <<leader, leaderIn, doomed>> /\ World

Go ==                    \* an exit, or setpgid out of the group
    /\ members > 0
    /\ members' = members - 1
    /\ doomed' = (doomed /\ (members > 1 \/ (leaderIn /\ leader # "reaped")))
    /\ UNCHANGED <<leader, leaderIn>> /\ World

LeaderMoves ==           \* out of its group, or back
    /\ leader = "live" /\ ~doomed
    /\ leaderIn' = ~leaderIn /\ strayed' = TRUE
    /\ UNCHANGED <<leader, members, doomed, strangers, meta, requests>>

LeaderExits ==
    /\ leader = "live"
    /\ leader' = "zombie"
    /\ UNCHANGED <<leaderIn, members, doomed>> /\ World

(* The wait task reaps the leader and records its status.                  *)
Reap ==
    /\ leader = "zombie"
    /\ leader' = "reaped" /\ status' = TRUE
    /\ doomed' = (doomed /\ members > 0)
    /\ UNCHANGED <<leaderIn, members, strangers, outputs, requests, strayed>>

CloseOutputs ==          \* nothing forces it: a drain that failed returns without it
    /\ ~outputs
    /\ outputs' = TRUE
    /\ UNCHANGED <<group, strangers, status, requests, strayed>>

(* The number is free when the leader is reaped and the group is empty.    *)
Recycle ==
    /\ leader = "reaped" /\ ~Own
    /\ strangers' = ~strangers
    /\ UNCHANGED <<group, meta, requests, strayed>>

-----------------------------------------------------------------------------
(* A request.                                                              *)
At(c, from, to) ==
    /\ pc[c] = from
    /\ pc' = [pc EXCEPT ![c] = to]
    /\ UNCHANGED <<leader, leaderIn, members, strangers, meta, strayed>>

(* killpg: accepted when the number names a group.                         *)
Killpg(c) == signaled' = [signaled EXCEPT ![c] = @ \/ GroupExists]

Quiet == UNCHANGED <<doomed, due, signaled>>

Request(c) == At(c, "idle", "term") /\ Quiet

Term(c) ==
    /\ At(c, "term", "grace")
    /\ Killpg(c)
    /\ UNCHANGED <<doomed, due>>

GraceOver(c) ==
    /\ pc[c] = "grace" /\ ~due[c]
    /\ due' = [due EXCEPT ![c] = TRUE]
    /\ UNCHANGED <<group, strangers, meta, pc, signaled, strayed>>

GraceEnds(c) ==
    /\ ~GroupExists \/ due[c]
    /\ At(c, "grace", "look") /\ Quiet

\* Mutant: TERM is all that is sent.
KillNotDue == FALSE

KillDue == GroupExists

Look(c) ==
    /\ At(c, "look", IF KillDue THEN "kill" ELSE "empty")
    /\ Quiet

Kill(c) ==
    /\ At(c, "kill", "empty")
    /\ Killpg(c)
    /\ doomed' = (doomed \/ Own)
    /\ UNCHANGED due

Refused(c) ==            \* EPERM: a member changed its user
    /\ At(c, "term", "error") \/ At(c, "kill", "error")
    /\ GroupExists
    /\ Quiet

\* Mutant: KILL is taken for the end of the group.
EmptiedUnseen == TRUE

Emptied == ~GroupExists

Empty(c) ==
    /\ Emptied
    /\ At(c, "empty", "terminal") /\ Quiet

Outcome(c) == IF signaled[c] THEN "cancel_won" ELSE "already_exited"

Answer(c) ==
    /\ status /\ outputs
    /\ At(c, "terminal", Outcome(c)) /\ Quiet

-----------------------------------------------------------------------------
Processes ==
    Join \/ Go \/ LeaderMoves \/ LeaderExits \/ Reap \/ CloseOutputs \/ Recycle

Serve(c) ==
    \/ Term(c) \/ GraceEnds(c) \/ Look(c) \/ Kill(c) \/ Refused(c)
    \/ Empty(c) \/ Answer(c)

Next == Processes \/ \E c \in Clients : Request(c) \/ GraceOver(c) \/ Serve(c)

Spec == Init /\ [][Next]_vars

(* What was killed goes and is reaped, the leader by the wait task.  The    *)
(* outputs may stay open, for a process that left the group may hold them. *)
FairSpec ==
    /\ Spec
    /\ \A c \in Clients : WF_vars(Serve(c)) /\ WF_vars(GraceOver(c))
    /\ WF_vars(doomed /\ (Go \/ LeaderExits))
    /\ WF_vars(Reap)

-----------------------------------------------------------------------------
(* A cancellation that is answered with an exit has left nothing of the    *)
(* group, for good: whoever asks, however many requests there are and      *)
(* whoever is given the number afterwards.  It is so for a leader that     *)
(* stays in its group (cancel_process_group).  With TypeOK.                *)
Answered(c) == pc[c] \in {"cancel_won", "already_exited"}
LeftEmpty == TypeOK /\ (strayed \/ \A c \in Clients : Answered(c) => ~Own)

(* A request gets past the group, whatever its processes do about TERM,    *)
(* when the leader is where KILL finds it and the number has not become    *)
(* another group's, for which the request waits too.  It then waits for    *)
(* the terminal state without a deadline (wait_for_true), and is answered  *)
(* if both outputs are closed some time: one that an escaped process holds *)
(* open, or whose drain failed, leaves it unanswered for ever.             *)
Unhindered(c, there) == pc[c] = "term" ~> pc[c] \in there \/ strayed \/ strangers
RequestEnds ==
    \A c \in Clients :
        /\ Unhindered(c, Told \cup {"terminal"})
        /\ <>outputs => Unhindered(c, Told)
=============================================================================
