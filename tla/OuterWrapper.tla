----------------------------- MODULE OuterWrapper -----------------------------
(***************************************************************************)
(* The outer wrapper (src/src/outer.rs): a program that knows nothing of   *)
(* sessions runs `pipekeep -- TRANSPORT ...`, and the wrapper runs the     *)
(* transport again whenever it breaks.  Each attempt starts a remote proxy *)
(* (src/src/server.rs, raw mode), and an attempt that was given up may     *)
(* leave its proxy behind, with a request, input or an attachment.         *)
(*                                                                         *)
(* The session is the one the other modules describe, as a proxy sees it:  *)
(* one attachment, positions that never go back, output and an exit that   *)
(* stay until it expires.  One output stream stands for both; the wrapper  *)
(* treats them alike, but for stderr it cannot tell the command's bytes    *)
(* from what the transport itself says.  A byte is its offset.             *)
(*                                                                         *)
(* Bounds: MaxIn, MaxOut, Breaks, MaxRuns, and one remote proxy a slot.    *)
(***************************************************************************)
EXTENDS Integers, Sequences

CONSTANTS Slots,     (* remote proxies that may exist at one time            *)
          MaxIn,     (* bytes of local stdin                                 *)
          MaxOut,    (* bytes of the command's output                        *)
          Window,    (* LIVE_STDIN_CAPACITY                                  *)
          Breaks,    (* how often a transport may fail, or speak for itself  *)
          MaxRuns,   (* how often the session may be created                 *)
          Expires    (* whether the session may reach its TTL                *)

None == -1
NoSlot == "no slot"
ASSUME WrapperAssumption ==
    /\ {MaxIn, MaxOut, Breaks, MaxRuns} \subseteq Nat
    /\ Window \in Nat \ {0}
    /\ Expires \in BOOLEAN
    /\ NoSlot \notin Slots

Diagnostic == <<0, None>>          \* a byte that is not the command's
NoReply == [kind |-> "none"]
Error(k) == [kind |-> k]

VARIABLES
    window,     \* outer --nobuffer: only a window of stdin is retained
    live,       \* the session's --nobuffer
    \* the wrapper
    inEnd, inEof, base,          \* InputMeta: end, eof, live_base
    w,                           \* idle, opening, stream, drain; exited, failed,
                                 \* unable (no transport), broken (locally)
    cur,                         \* the slot of the current attempt
    create, established,         \* run's variables
    delivered,                   \* output position
    told,                        \* the server's hello of this attempt
    declared,                    \* the end of stdin in this attempt's own hello
    spos,                        \* send_raw_stdin's position
    ctl,                         \* EOF control: none, asked, applied, over; or the
                                 \* wrapper only waits for the transport: deaf
    \* transports and remote proxies
    link,                        \* up, lost, closed
    px,                          \* none, sent, asked, dialing, attached
    ask, reply,                  \* opening messages
    up, down,                    \* raw bytes under way
    sent,                        \* the proxy's output position
    late,                        \* an EOF control given up may still arrive
    \* the session
    session, epoch,              \* none or live; which one
    pos, eofAt, outEnd, exit, holder,
    stdin,                       \* child_stdin: open, closed by the command, taken
    \* history and bounds
    wrote, got, noisy,
    breaks      \* how often it still may

local == <<inEnd, inEof, base>>
wrapper == <<w, cur, create, established, delivered, told, declared, spos, ctl>>
remote == <<link, px, ask, reply, up, down, sent>>
broker == <<session, epoch, pos, eofAt, outEnd, exit, holder, stdin, wrote>>
bounds == <<breaks, noisy>>
modes == <<window, live>>
vars == <<modes, local, wrapper, remote, late, broker, got, bounds>>

NoHello == [kind |-> "hello", in |-> 0, out |-> 0, eof |-> FALSE, exit |-> FALSE, end |-> 0]
NoAsk == [create |-> FALSE, out |-> 0, start |-> 0, eof |-> None]
StdinClosed == eofAt = pos
Running == w \notin {"exited", "failed", "unable", "broken"}

TypeOK ==
    /\ {window, live, inEof, create, established, late, exit} \subseteq BOOLEAN
    /\ inEnd \in 0 .. MaxIn /\ base \in 0 .. inEnd
    /\ w \in {"idle", "opening", "stream", "drain", "exited", "failed", "unable", "broken"}
    /\ cur \in Slots \cup {NoSlot} /\ holder \in Slots \cup {NoSlot}
    /\ delivered \in 0 .. MaxOut + Breaks
    /\ spos \in 0 .. inEnd
    /\ ctl \in {"none", "asked", "applied", "over", "deaf"}
    /\ link \in [Slots -> {"up", "lost", "closed"}]
    /\ px \in [Slots -> {"none", "sent", "asked", "dialing", "attached"}]
    /\ session \in {"none", "live"} /\ epoch \in 0 .. MaxRuns
    /\ pos \in 0 .. inEnd /\ eofAt \in None .. MaxIn
    /\ stdin \in {"open", "closed", "taken"}
    /\ outEnd \in 0 .. MaxOut /\ sent \in [Slots -> 0 .. outEnd]
    /\ breaks \in 0 .. Breaks /\ noisy \in BOOLEAN

Init ==
    /\ window \in BOOLEAN /\ live \in BOOLEAN
    /\ inEnd = 0 /\ inEof = FALSE /\ base = 0
    /\ w = "idle" /\ cur = NoSlot
    /\ create = TRUE /\ established = FALSE
    /\ delivered = 0 /\ told = NoHello /\ declared = None /\ spos = 0 /\ ctl = "none"
    /\ link = [s \in Slots |-> "closed"]
    /\ px = [s \in Slots |-> "none"]
    /\ ask = [s \in Slots |-> NoAsk]
    /\ reply = [s \in Slots |-> NoReply]
    /\ up = [s \in Slots |-> <<>>] /\ down = [s \in Slots |-> <<>>]
    /\ sent = [s \in Slots |-> 0]
    /\ late = FALSE
    /\ session = "none" /\ epoch = 0
    /\ pos = 0 /\ eofAt = None /\ outEnd = 0 /\ exit = FALSE /\ holder = NoSlot
    /\ stdin = "open"
    /\ wrote = <<>> /\ got = <<>>
    /\ breaks = Breaks /\ noisy = FALSE

----------------------------------------------------------------------------
(* Local stdin.  A read error, and in a buffered wrapper a failed write of *)
(* the spool, look like the end.                                           *)
ReadLocal ==
    /\ Running /\ ~inEof /\ inEnd < MaxIn
    /\ inEnd' = inEnd + 1
    /\ base' = IF window /\ inEnd' - base > Window THEN base + 1 ELSE base
    /\ UNCHANGED <<modes, inEof, wrapper, remote, late, broker, got, bounds>>

LocalEof ==
    /\ Running /\ ~inEof /\ inEof' = TRUE
    /\ UNCHANGED <<modes, inEnd, base, wrapper, remote, late, broker, got, bounds>>

----------------------------------------------------------------------------
(* The wrapper's attempts.                                                 *)
Start(s) ==
    /\ w = "idle" /\ px[s] = "none"
    /\ w' = "opening" /\ cur' = s
    /\ link' = [link EXCEPT ![s] = "up"]
    /\ px' = [px EXCEPT ![s] = "sent"]
    /\ ask' = [ask EXCEPT ![s] =
          [create |-> create, out |-> IF create THEN 0 ELSE delivered,
           start |-> base, eof |-> IF inEof THEN inEnd ELSE None]]
    /\ declared' = IF inEof THEN inEnd ELSE None
    /\ UNCHANGED <<modes, local, create, established, delivered, told, spos, ctl,
                   reply, up, down, sent, late, broker, got, bounds>>

SpawnFails ==               \* on a retry too, and whatever is retained
    /\ w = "idle" /\ w' = "unable"
    /\ UNCHANGED <<modes, local, cur, create, established, delivered, told, declared, spos, ctl,
                   remote, late, broker, got, bounds>>

Forget ==                   \* the attempt is over; its remote proxy may not know
    /\ cur' = NoSlot /\ told' = NoHello /\ declared' = None /\ spos' = 0 /\ ctl' = "none"
    /\ reply' = [reply EXCEPT ![cur] = NoReply]
    /\ down' = [down EXCEPT ![cur] = <<>>]

NoAnswer ==                 \* Disconnected { opened: false }
    /\ w = "opening" /\ reply[cur] = NoReply /\ link[cur] # "up"
    /\ w' = "idle" /\ create' = FALSE
    /\ Forget
    /\ UNCHANGED <<modes, local, established, delivered, link, px, ask, up, sent,
                   late, broker, got, bounds>>

\* Mutant: a session that was reached is created again.
RecreatesAlways == reply[cur].kind = "missing" /\ ~create

(* ServerError: whoever is attached may go, and a session that was never   *)
(* reached may still have to be created.                                   *)
Recreates == reply[cur].kind = "missing" /\ ~create /\ ~established

\* Mutant: a predecessor that is still attached ends the wrapper.
RetriesNever == FALSE

Retries == reply[cur].kind = "attached"

Refused ==
    /\ w = "opening" /\ reply[cur].kind \notin {"none", "hello"}
    /\ w' = IF Recreates \/ Retries THEN "idle" ELSE "failed"
    /\ create' = (create \/ Recreates)
    /\ Forget
    /\ UNCHANGED <<modes, local, established, delivered, link, px, ask, up, sent,
                   late, broker, got, bounds>>

(* A first line that is no JSON message, or no handshake, is fatal.        *)
Unreadable ==
    /\ w = "opening" /\ link[cur] = "up" /\ breaks > 0
    /\ w' = "unable" /\ breaks' = breaks - 1
    /\ link' = [link EXCEPT ![cur] = "lost"]
    /\ Forget
    /\ UNCHANGED <<modes, local, create, established, delivered, px, ask, up, sent,
                   late, broker, got, noisy>>

Opened ==
    /\ w = "opening" /\ reply[cur].kind = "hello"
    /\ LET hello == reply[cur] IN
       IF hello.out < delivered \/ (~live /\ hello.out # delivered)
       THEN /\ w' = "failed" /\ Forget
            /\ link' = [link EXCEPT ![cur] = IF @ = "up" THEN "lost" ELSE @]
            /\ UNCHANGED delivered
       ELSE /\ w' = "stream" /\ told' = hello
            /\ delivered' = hello.out /\ spos' = hello.in
            /\ reply' = [reply EXCEPT ![cur] = NoReply]
            /\ UNCHANGED <<cur, declared, ctl, down, link>>
    /\ UNCHANGED <<modes, local, create, established, px, ask, up, sent,
                   late, broker, got, bounds>>

(* The transport is killed, or broke: what is in the local pipe is still   *)
(* read, and a part of what was sent may still arrive.                     *)
Cut(s, ins, outs) ==
    /\ link' = [link EXCEPT ![s] = "lost"]
    /\ up' = [up EXCEPT ![s] = SubSeq(@, 1, ins)]
    /\ down' = [down EXCEPT ![s] = SubSeq(@, 1, outs)]

Reattach ==
    \E ins \in 0 .. Len(up[cur]), outs \in 0 .. Len(down[cur]) :
        /\ w' = "drain"
        /\ IF link[cur] = "up" THEN Cut(cur, ins, outs) ELSE UNCHANGED <<link, up, down>>

\* Mutant: the offset is not looked at.
SlidUnseen == FALSE

(* InputBuffer::next gives what the window still holds, with its offset.   *)
Slid == base > spos

Send ==                     \* send_raw_stdin
    /\ w = "stream" /\ ~told.eof /\ spos < inEnd
    /\ IF Slid
       THEN /\ ctl \in {"none", "over"}
            /\ Reattach
            /\ UNCHANGED spos
       ELSE /\ link[cur] = "up"
            /\ up' = [up EXCEPT ![cur] = Append(@, IF base > spos THEN base ELSE spos)]
            /\ spos' = spos + 1
            /\ UNCHANGED <<w, link, down>>
    /\ UNCHANGED <<modes, local, cur, create, established, delivered,
                   told, declared, ctl, px, ask, reply, sent, late, broker, got, bounds>>

AskEof ==
    /\ w = "stream" /\ ~told.eof /\ spos = inEnd /\ inEof
    /\ declared = None /\ ctl = "none"
    /\ ctl' = "asked"
    /\ UNCHANGED <<modes, local, w, cur, create, established, delivered,
                   told, declared, spos, remote, late, broker, got, bounds>>

(* declare_remote_stdin_eof: a transport of its own, and the wrapper waits *)
(* for it with nothing else but the copies going on.                       *)
Declare(end) ==             \* declare_stdin_eof of the session
    IF session = "live" /\ pos <= end /\ eofAt \in {None, end}
    THEN eofAt' = end ELSE UNCHANGED eofAt

ControlArrives ==
    /\ ctl = "asked"
    /\ ctl' = "applied"
    /\ Declare(inEnd)
    /\ UNCHANGED <<modes, local, w, cur, create, established, delivered, told, declared, spos,
                   remote, late, session, epoch, pos, outEnd, exit, holder, stdin, wrote, got, bounds>>

ControlConfirmed ==
    /\ ctl = "applied" /\ session = "live" /\ eofAt = inEnd
    /\ ctl' = "over"
    /\ UNCHANGED <<modes, local, w, cur, create, established, delivered, told, declared, spos,
                   remote, late, broker, got, bounds>>

ControlFails ==
    /\ \/ ctl \in {"asked", "applied"} /\ breaks > 0 /\ breaks' = breaks - 1
       \/ ctl = "applied" /\ (session = "none" \/ eofAt # inEnd) /\ UNCHANGED breaks
    /\ ctl' = "over"
    /\ late' \in {late, ctl = "asked" \/ late}
    /\ Reattach
    /\ UNCHANGED <<modes, local, cur, create, established, delivered, told, declared, spos,
                   px, ask, reply, sent, broker, got, noisy>>

ControlLate ==
    /\ late /\ late' = FALSE
    /\ Declare(inEnd)
    /\ UNCHANGED <<modes, local, wrapper, remote, session, epoch, pos, outEnd,
                   exit, holder, stdin, wrote, got, bounds>>

(* copy_raw_output counts a byte when it was written and flushed; a local  *)
(* write that fails ends the wrapper.                                      *)
Copy ==
    /\ w \in {"stream", "drain"} /\ down[cur] # <<>>
    /\ got' = Append(got, Head(down[cur]))
    /\ down' = [down EXCEPT ![cur] = Tail(@)]
    /\ delivered' = delivered + 1
    /\ UNCHANGED <<modes, local, w, cur, create, established, told, declared, spos, ctl,
                   link, px, ask, reply, up, sent, late, broker, bounds>>

WriteFails ==
    /\ w \in {"stream", "drain"} /\ down[cur] # <<>> /\ breaks > 0
    /\ w' = "broken" /\ breaks' = breaks - 1
    /\ link' = [link EXCEPT ![cur] = "lost"]
    /\ Forget
    /\ UNCHANGED <<modes, local, create, established, delivered, px, ask, up, sent, late, broker, got, noisy>>

(* One output stream of a transport that goes on ends: the wrapper waits   *)
(* for the transport, and nobody sees the sender stop or ask for an EOF.   *)
StreamEnds ==
    /\ w = "stream" /\ link[cur] = "up" /\ ctl \in {"none", "over"} /\ breaks > 0
    /\ ctl' = "deaf" /\ breaks' = breaks - 1
    /\ UNCHANGED <<modes, local, w, cur, create, established, delivered, told, declared, spos,
                   remote, late, broker, got, noisy>>

Stop ==                     \* the transport ended
    /\ w = "stream" /\ link[cur] # "up" /\ ctl \notin {"asked", "applied"}
    /\ w' = "drain"
    /\ UNCHANGED <<modes, local, cur, create, established, delivered, told, declared, spos, ctl,
                   remote, late, broker, got, bounds>>

\* Mutant: the positions are not compared.
CompleteUnseen == told.exit

Complete == told.exit /\ delivered >= told.end

Finish ==
    /\ w = "drain" /\ down[cur] = <<>>
    /\ IF Complete
       THEN w' = "exited" /\ UNCHANGED <<create, established>>
       ELSE w' = "idle" /\ create' = FALSE /\ established' = TRUE
    /\ Forget
    /\ UNCHANGED <<modes, local, delivered, link, px, ask, up, sent, late, broker,
                   got, bounds>>

----------------------------------------------------------------------------
(* The transports.                                                         *)
Arrive(s) ==
    /\ px[s] = "sent"
    /\ px' = [px EXCEPT ![s] = "asked"]
    /\ UNCHANGED <<modes, local, wrapper, link, ask, reply, up, down, sent, late,
                   broker, got, bounds>>

Break(s) ==
    /\ link[s] = "up" /\ breaks > 0
    /\ breaks' = breaks - 1
    /\ \E ins \in 0 .. Len(up[s]), outs \in 0 .. Len(down[s]) : Cut(s, ins, outs)
    /\ \/ UNCHANGED <<px, ask>>
       \/ /\ px[s] = "sent"
          /\ px' = [px EXCEPT ![s] = "none"] /\ ask' = [ask EXCEPT ![s] = NoAsk]
    /\ \E r \in IF w = "opening" THEN {NoReply, reply[s]} ELSE {reply[s]} :
           reply' = [reply EXCEPT ![s] = r]
    /\ UNCHANGED <<modes, local, wrapper, sent, late, broker, got, noisy>>

Diagnose(s) ==              \* a byte of the transport's own on its stderr
    /\ w = "stream" /\ s = cur /\ link[s] = "up" /\ breaks > 0
    /\ breaks' = breaks - 1 /\ noisy' = TRUE
    /\ down' = [down EXCEPT ![s] = Append(@, Diagnostic)]
    /\ UNCHANGED <<modes, local, wrapper, link, px, ask, reply, up, sent, late,
                   broker, got>>

----------------------------------------------------------------------------
(* The remote proxies.                                                     *)
Answer(s, r) ==
    /\ ask' = [ask EXCEPT ![s] = NoAsk]
    /\ reply' = [reply EXCEPT ![s] = IF link[s] = "up" THEN r ELSE NoReply]
    /\ IF r.kind = "hello"
       THEN px' = [px EXCEPT ![s] = "attached"] /\ UNCHANGED link
       ELSE /\ px' = [px EXCEPT ![s] = "none"]
            /\ link' = [link EXCEPT ![s] = "closed"]

CreateSession(s) ==         \* start_broker
    /\ px[s] = "asked" /\ ask[s].create
    /\ IF session = "live"
       THEN Answer(s, Error("exists")) /\ UNCHANGED broker
       ELSE /\ epoch < MaxRuns
            /\ session' = "live" /\ epoch' = epoch + 1
            /\ pos' = 0 /\ eofAt' = None /\ outEnd' = 0 /\ exit' = FALSE
            /\ holder' = NoSlot /\ stdin' = "open"
            /\ px' = [px EXCEPT ![s] = "dialing"]
            /\ UNCHANGED <<link, ask, reply, wrote>>
    /\ UNCHANGED <<modes, local, wrapper, up, down, sent, late, got, bounds>>

FindSession(s) ==           \* connect_existing
    /\ px[s] = "asked" /\ ~ask[s].create
    /\ IF session = "none"
       THEN Answer(s, Error("missing"))
       ELSE px' = [px EXCEPT ![s] = "dialing"] /\ UNCHANGED <<link, ask, reply>>
    /\ UNCHANGED <<modes, local, wrapper, up, down, sent, late, broker, got, bounds>>

\* Mutant: the requested offset is believed.
NeverAhead(a) == FALSE

Ahead(a) == a.out > outEnd

(* attach, as far as an unforced client without frames can see it.         *)
StdinAcceptable(a) ==
    LET at == IF a.start > pos THEN a.start ELSE pos
        end == IF a.eof = None THEN eofAt ELSE a.eof IN
    /\ a.start > pos => live /\ ~StdinClosed /\ (eofAt = None \/ a.start <= eofAt)
    /\ a.eof = None \/ eofAt \in {None, a.eof}
    /\ end = None \/ at <= end

Attach(s) ==
    /\ px[s] = "dialing"
    /\ LET a == ask[s] IN
       IF session = "live" /\ holder = NoSlot /\ ~Ahead(a) /\ StdinAcceptable(a)
       THEN /\ holder' = s
            /\ pos' = IF a.start > pos THEN a.start ELSE pos
            /\ eofAt' = IF eofAt = None THEN a.eof ELSE eofAt
            /\ sent' = [sent EXCEPT ![s] = IF live THEN outEnd ELSE a.out]
            /\ Answer(s, [kind |-> "hello", in |-> pos', out |-> sent'[s],
                          eof |-> eofAt' = pos', exit |-> exit, end |-> outEnd])
            /\ UNCHANGED up
       ELSE /\ Answer(s, Error(IF session = "live" /\ holder # NoSlot
                               THEN "attached" ELSE "refused"))
            /\ UNCHANGED <<holder, pos, eofAt, sent, up>>
    /\ UNCHANGED <<modes, local, wrapper, down, late, session, epoch, outEnd,
                   exit, stdin, wrote, got, bounds>>

Proxying(s) == px[s] = "attached"

(* forward_raw_stdin labels what it reads with the position it was told,   *)
(* which is the session's, for nobody else is attached.                    *)
PassInput(s) ==
    /\ Proxying(s) /\ up[s] # <<>> /\ ~StdinClosed /\ stdin # "closed"
    /\ IF stdin = "open"
       THEN wrote' = Append(wrote, <<pos, Head(up[s])>>) /\ pos' = pos + 1
       ELSE UNCHANGED <<wrote, pos>>
    /\ up' = [up EXCEPT ![s] = Tail(@)]
    /\ UNCHANGED <<modes, local, wrapper, link, px, ask, reply, down, sent, late,
                   session, epoch, eofAt, outEnd, exit, holder, stdin, got, bounds>>

PassOutput(s) ==
    /\ Proxying(s) /\ link[s] = "up" /\ sent[s] < outEnd
    /\ down' = [down EXCEPT ![s] = Append(@, <<epoch, sent[s]>>)]
    /\ sent' = [sent EXCEPT ![s] = @ + 1]
    /\ UNCHANGED <<modes, local, wrapper, link, px, ask, reply, up, late, broker,
                   got, bounds>>

Detach(s) ==
    /\ px' = [px EXCEPT ![s] = "none"]
    /\ holder' = NoSlot
    /\ link' = [link EXCEPT ![s] = "closed"]
    /\ up' = [up EXCEPT ![s] = <<>>] /\ sent' = [sent EXCEPT ![s] = 0]
    /\ UNCHANGED <<modes, local, wrapper, ask, reply, down, late, session,
                   epoch, pos, eofAt, outEnd, exit, stdin, wrote, got, noisy>>

(* The command closed its stdin: the write fails, and the attachment ends. *)
InputFails(s) ==
    /\ Proxying(s) /\ up[s] # <<>> /\ ~StdinClosed /\ stdin = "closed"
    /\ Detach(s) /\ UNCHANGED breaks

(* Exit; in a --nobuffer session it may come before the last output.       *)
PassExit(s) ==
    /\ Proxying(s) /\ exit /\ (live \/ sent[s] = outEnd)
    /\ Detach(s) /\ UNCHANGED breaks

(* Output fell out of the live queue: write_raw_output sees a gap.         *)
SeesGap(s) ==
    /\ Proxying(s) /\ live /\ sent[s] < outEnd /\ breaks > 0
    /\ Detach(s) /\ breaks' = breaks - 1

Notice(s) ==
    /\ Proxying(s) /\ link[s] = "lost"
    /\ Detach(s) /\ UNCHANGED breaks

----------------------------------------------------------------------------
(* The command, and the end of the session.  A request that a lost         *)
(* transport has delivered is acted upon before a TTL has passed.          *)
Produce ==
    /\ session = "live" /\ ~exit /\ outEnd < MaxOut
    /\ outEnd' = outEnd + 1
    /\ UNCHANGED <<modes, local, wrapper, remote, late, session, epoch, pos, eofAt,
                   exit, holder, stdin, wrote, got, bounds>>

CommandExits ==
    /\ session = "live" /\ ~exit
    /\ exit' = TRUE
    /\ UNCHANGED <<modes, local, wrapper, remote, late, session, epoch, pos, eofAt,
                   outEnd, holder, stdin, wrote, got, bounds>>

CommandCloses ==
    /\ session = "live" /\ stdin = "open"
    /\ stdin' = "closed"
    /\ UNCHANGED <<modes, local, wrapper, remote, late, session, epoch, pos, eofAt,
                   outEnd, exit, holder, wrote, got, bounds>>

TakeStdin ==                \* the wait task, some time after the exit
    /\ session = "live" /\ exit /\ stdin # "taken"
    /\ stdin' = "taken"
    /\ UNCHANGED <<modes, local, wrapper, remote, late, session, epoch, pos, eofAt,
                   outEnd, exit, holder, wrote, got, bounds>>

Expire ==
    /\ Expires /\ session = "live" /\ exit /\ ~late
    /\ \A s \in Slots : px[s] = "none" \/ (s = cur /\ px[s] \in {"sent", "asked"})
    /\ session' = "none"
    /\ UNCHANGED <<modes, local, wrapper, remote, late, epoch, pos, eofAt, outEnd,
                   exit, holder, stdin, wrote, got, bounds>>

Wrapper ==
    \/ \E s \in Slots : Start(s)
    \/ NoAnswer \/ Refused \/ Opened
    \/ Send \/ AskEof \/ ControlArrives \/ ControlConfirmed
    \/ Copy \/ Stop \/ Finish

Proxy(s) ==
    \/ Arrive(s) \/ CreateSession(s) \/ FindSession(s) \/ Attach(s)
    \/ PassInput(s) \/ PassOutput(s) \/ PassExit(s) \/ Notice(s)
    \/ InputFails(s)

Next ==
    \/ ReadLocal \/ LocalEof
    \/ Wrapper
    \/ ControlFails \/ ControlLate \/ WriteFails
    \/ SpawnFails \/ Unreadable \/ StreamEnds
    \/ \E s \in Slots : Proxy(s) \/ Break(s) \/ Diagnose(s) \/ SeesGap(s)
    \/ Produce \/ CommandExits \/ CommandCloses \/ TakeStdin \/ Expire

Spec == Init /\ [][Next]_vars

(* The wrapper and the remote proxies run, and transports deliver unless   *)
(* they break.  Nothing is assumed of local stdin or of the command.       *)
Fairness ==
    /\ WF_vars(Wrapper)
    /\ WF_vars(Copy \/ Finish)
    /\ WF_vars(ControlFails)
    /\ WF_vars(TakeStdin)
    /\ \A s \in Slots :
          /\ WF_vars(Arrive(s) \/ CreateSession(s) \/ FindSession(s) \/ Attach(s))
          /\ WF_vars(PassInput(s) \/ InputFails(s))
          /\ WF_vars(PassOutput(s))
          /\ WF_vars(PassExit(s) \/ Notice(s))

FairSpec == Spec /\ Fairness

----------------------------------------------------------------------------
Real == {i \in 1 .. Len(got) : got[i] # Diagnostic}

(* design.md:375-378: however attempts overlap, no byte of the local input *)
(* reaches the command twice, out of order or at another byte's offset,    *)
(* and none reaches a second run of it; none is left out unless both sides *)
(* keep only a window; and the command's stdin is closed only behind the   *)
(* last byte of the local one.                                             *)
InputOnce ==
    /\ \A i \in 1 .. Len(wrote) : wrote[i][1] = wrote[i][2]
    /\ \A i \in 1 .. Len(wrote) - 1 : wrote[i][2] < wrote[i + 1][2]
    /\ ~(window /\ live) => Len(wrote) = pos
    /\ StdinClosed => inEof /\ pos = inEnd

(* design.md:375-378: what the wrapper writes to its own stdout comes from *)
(* one session, in order and no byte twice.  With a buffered session none  *)
(* is left out, unless the transport said something on stderr, which the   *)
(* wrapper counts as the command's (design.md:266-289).                    *)
OutputOnce ==
    /\ \A i, j \in Real :
          /\ got[i][1] = got[j][1]
          /\ i < j => got[i][2] < got[j][2]
    /\ ~live /\ ~noisy => \A i \in 1 .. Len(got) : got[i][2] = i - 1

(* The wrapper exits with the command's status only when the command has   *)
(* ended and all of its output was written; whatever the transport's own   *)
(* exit says (design.md:247-250).                                          *)
ExitComplete ==
    w = "exited" => exit /\ (~live /\ ~noisy => Len(got) = outEnd)

(* Once the wrapper was attached and the command has ended, the wrapper    *)
(* ends with its status, although transports break and a predecessor that  *)
(* is still attached refuses it.  It may end otherwise where it can start  *)
(* no transport or reads no opening ("unable") and where its own output    *)
(* cannot be written ("broken"), and need not end while a transport speaks *)
(* on stderr or when the session was not retained.  A wrapper that keeps   *)
(* only a window before a session that wants every byte is not meant.      *)
ExitTold ==
    established /\ exit /\ ~(window /\ ~live)
        ~> w \in {"exited", "unable", "broken"} \/ noisy \/ session = "none"

=============================================================================
