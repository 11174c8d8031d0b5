------------------------- MODULE OuterWrapperProofs -------------------------
(***************************************************************************)
(* Proofs that the safety properties of OuterWrapper hold for every amount *)
(* of input and output, every number of proxies that are left behind and   *)
(* of transports that break; and that of ProxyRelay, the proxy of one such *)
(* attempt, for every last offset and every size of a frame.               *)
(***************************************************************************)
EXTENDS OuterWrapper, SequenceTheorems, TLAPS

(* What TypeOK leaves open: messages, and bytes under way.                 *)
Bytes == Nat \X Int
Hellos == [kind : {"hello"}, in : Nat, out : Nat, eof : BOOLEAN, exit : BOOLEAN, end : Nat]
Errors == [kind : {"none", "exists", "missing", "attached", "refused"}]
Asks == [create : BOOLEAN, out : Nat, start : Nat, eof : Int]
Shapes ==
    /\ told \in Hellos
    /\ reply \in [Slots -> Hellos \cup Errors]
    /\ ask \in [Slots -> Asks]
    /\ up \in [Slots -> Seq(Nat)] /\ down \in [Slots -> Seq(Bytes)]
    /\ wrote \in Seq(Nat \X Nat) /\ got \in Seq(Bytes)

(* Bytes may be under way to the wrapper, behind a hello that it has or     *)
(* will see.  A session that the wrapper has come this far with, once, is   *)
(* the only one it will ever know.                                          *)
Flowing == w \in {"stream", "drain"} \/ (w = "opening" /\ reply[cur].kind = "hello")
Reached == established \/ w \in {"exited", "broken"} \/ Flowing
Spare == Breaks - breaks

(* The current attempt, as far as its transport and its place go.           *)
Attempt ==
    /\ w \in {"opening", "stream", "drain"} <=> cur # NoSlot
    /\ cur # NoSlot =>
          /\ link[cur] = "up" => px[cur] # "none" /\ w # "drain"
          /\ reply[cur].kind \notin {"none", "hello"} => link[cur] # "up"
          /\ Flowing => px[cur] \in {"attached", "none"}
          /\ w = "opening" => up[cur] = <<>>
          /\ established => ~ask[cur].create
    /\ ctl \in {"asked", "applied"} => w = "stream"
    /\ ctl \notin {"none", "deaf"} \/ late => inEof
    /\ established => ~create

(* A proxy that was left behind answers nobody, and what it was asked for   *)
(* is true of the local input still.                                        *)
Behind(s) ==
    /\ s # cur \/ px[s] \in {"sent", "asked", "dialing"} => reply[s] = NoReply /\ down[s] = <<>>
    /\ s # cur => link[s] # "up"
    /\ px[s] # "attached" => up[s] = <<>> /\ sent[s] = 0
    /\ px[s] \in {"dialing", "attached"} => session = "live"
    /\ px[s] = "attached" <=> holder = s
    /\ ask[s].start \in 0 .. base /\ ask[s].out \in Nat
    /\ ask[s].eof # None => inEof /\ ask[s].eof = inEnd

(* Nobody creates a session behind the one that the wrapper has reached.    *)
Sole ==
    session = "none" /\ Reached =>
        \A s \in Slots : ask[s].create => px[s] \notin {"sent", "asked"}

(* The session's input: what it has, what is under way to it from the one   *)
(* that is attached, and where the wrapper stands behind that.              *)
Input ==
    /\ InputOnce
    /\ eofAt # None => inEof /\ eofAt = inEnd
    /\ ~window => base = 0
    /\ \A i \in 1 .. Len(wrote) : wrote[i][2] \in Nat /\ wrote[i][2] < pos
    /\ stdin = "open" => \A s \in Slots : \A i \in 1 .. Len(up[s]) :
          up[s][i] = pos + i - 1 /\ up[s][i] < inEnd
    /\ w = "opening" /\ reply[cur].kind = "hello" =>
          /\ reply[cur].in \in 0 .. inEnd
          /\ px[cur] = "attached" => reply[cur].in = pos
    /\ w = "stream" /\ link[cur] = "up" /\ stdin = "open" => spos = pos + Len(up[cur])

(* What the wrapper has written, and counted.                               *)
Written ==
    /\ OutputOnce
    /\ ~established /\ w \in {"idle", "opening", "failed", "unable"} => delivered = 0 /\ got = <<>>
    /\ \A i \in Real : got[i][1] = epoch /\ got[i][2] \in Nat /\ got[i][2] < delivered
    /\ ~live /\ ~noisy => Len(got) = delivered
    /\ delivered <= outEnd + Spare
    /\ ~noisy => delivered <= outEnd

(* The output that is under way: the offset of its first byte, if nothing   *)
(* but output is, and the order of the bytes whatever else is.              *)
At == IF w = "opening" THEN reply[cur].out ELSE delivered
Flow ==
    Flowing =>
        LET d == down[cur] IN
        /\ At \in Nat /\ At + Len(d) <= outEnd + Spare
        /\ ~noisy => At + Len(d) <= outEnd
        /\ \A i \in 1 .. Len(d) : d[i] # Diagnostic =>
              /\ d[i][1] = epoch /\ d[i][2] \in Nat /\ d[i][2] < At + i
              /\ \A j \in 1 .. i - 1 : d[j] # Diagnostic => d[j][2] < d[i][2]
              /\ IF w = "opening" THEN At <= d[i][2] ELSE \A j \in Real : got[j][2] < d[i][2]
        /\ ~noisy => \A i \in 1 .. Len(d) : d[i] = <<epoch, At + i - 1>>
        /\ link[cur] = "up" =>
              /\ sent[cur] <= At + Len(d) /\ At + Len(d) <= sent[cur] + Spare
              /\ ~noisy => sent[cur] = At + Len(d)
              /\ \A i \in 1 .. Len(d) : d[i] # Diagnostic => d[i][2] < sent[cur]
              /\ IF w = "opening" THEN At <= sent[cur] ELSE \A j \in Real : got[j][2] < sent[cur]

(* A hello that told of the exit told of all the output.                    *)
Final ==
    /\ w = "opening" /\ reply[cur].kind = "hello" /\ reply[cur].exit =>
          exit /\ reply[cur].end = outEnd
    /\ w \in {"stream", "drain"} /\ told.exit => exit /\ told.end = outEnd
    /\ ExitComplete

(* A wrapper that was never attached has sent nothing: a session that is    *)
(* created again is not behind one that was given input.                    *)
Fresh ==
    ~established /\ w \in {"idle", "opening", "failed", "unable"} =>
        wrote = <<>> /\ \A s \in Slots : up[s] = <<>>

WrapperInv ==
    /\ TypeOK /\ Shapes /\ Attempt
    /\ \A s \in Slots : Behind(s)
    /\ Sole /\ Input /\ Written /\ Flow /\ Final

-----------------------------------------------------------------------------
(* Sequences.                                                              *)

LEMMA Appended ==
    ASSUME NEW S, NEW q \in Seq(S), NEW e \in S
    PROVE  /\ Append(q, e) \in Seq(S) /\ Len(Append(q, e)) = Len(q) + 1
           /\ \A i \in 1 .. Len(q) : Append(q, e)[i] = q[i]
           /\ Append(q, e)[Len(q) + 1] = e
           /\ Len(q) \in Nat
BY AppendProperties, LenProperties

LEMMA Shifted ==
    ASSUME NEW S, NEW q \in Seq(S), q # <<>>
    PROVE  /\ Tail(q) \in Seq(S) /\ Len(Tail(q)) = Len(q) - 1
           /\ \A i \in 1 .. Len(q) - 1 : Tail(q)[i] = q[i + 1]
           /\ Head(q) = q[1] /\ Head(q) \in S
           /\ Len(q) \in Nat /\ Len(q) > 0
BY HeadTailProperties, EmptySeq, LenProperties

LEMMA Shortened ==
    ASSUME NEW S, NEW q \in Seq(S), NEW n \in 0 .. Len(q)
    PROVE  /\ SubSeq(q, 1, n) \in Seq(S) /\ Len(SubSeq(q, 1, n)) = n
           /\ \A i \in 1 .. n : SubSeq(q, 1, n)[i] = q[i]
           /\ n \in Nat /\ n <= Len(q) /\ Len(q) \in Nat
<1>1. Len(q) \in Nat /\ n \in Nat /\ n <= Len(q)
  BY LenProperties
<1>2. \A i \in 1 .. n : q[i] \in S
  BY <1>1, ElementOfSeq
<1>3. /\ SubSeq(q, 1, n) \in Seq(S)
      /\ Len(SubSeq(q, 1, n)) = IF 1 <= n THEN n - 1 + 1 ELSE 0
      /\ \A i \in 1 .. n - 1 + 1 : SubSeq(q, 1, n)[i] = q[1 + i - 1]
  BY <1>1, <1>2, SubSeqProperties
<1> QED
  BY <1>1, <1>3

LEMMA Nothing ==
    ASSUME NEW S
    PROVE  <<>> \in Seq(S) /\ Len(<<>>) = 0 /\ \A q \in Seq(S) : Len(q) = 0 <=> q = <<>>
BY EmptySeq

(* Bounds that grow.                                                       *)
LEMMA Slack ==
    \A x, y, z, p, q \in Int : q <= p /\ x <= y + (z - p) => x <= y + (z - q)
OBVIOUS

LEMMA Growth ==
    \A x, y, z, p \in Int : y <= p => /\ x <= y + z => x <= p + z
                                      /\ x <= y => x <= p
OBVIOUS

LEMMA Shift ==
    \A x, y \in Int : (x + 1) + (y - 1) = x + y
OBVIOUS

(* Messages.                                                               *)
LEMMA Messages ==
    /\ NoHello \in Hellos /\ NoReply \in Errors /\ NoAsk \in Asks
    /\ NoReply.kind = "none" /\ NoAsk.create = FALSE /\ NoAsk.eof = None
    /\ NoAsk.start = 0 /\ NoAsk.out = 0 /\ NoHello.exit = FALSE
    /\ \A r \in Hellos : r.in \in Nat /\ r.out \in Nat /\ r.end \in Nat /\ r.kind = "hello"
    /\ \A r \in Errors : r.kind # "hello"
    /\ \A r \in Hellos \cup Errors : r.kind = "hello" => r \in Hellos
    /\ \A a \in Asks : a.out \in Nat /\ a.start \in Nat /\ a.eof \in Int /\ a.create \in BOOLEAN
BY DEF NoHello, NoReply, NoAsk, Hellos, Errors, Asks, None

LEMMA Kinds ==
    ASSUME NEW k \in {"none", "exists", "missing", "attached", "refused"}
    PROVE  Error(k) \in Errors /\ Error(k).kind = k
BY DEF Error, Errors

(* Steps that leave alone all that a part of the invariant speaks of.      *)
LEMMA Frames ==
    ASSUME WrapperInv
    PROVE
    /\ UNCHANGED <<told, reply, ask, up, down, wrote, got>> => Shapes'
    /\ UNCHANGED <<w, cur, link, px, reply, up, established, create, ask, ctl, late, inEof>>
          => Attempt'
    /\ UNCHANGED <<cur, px, reply, down, link, up, sent, session, holder, ask, base, inEof, inEnd>>
          => \A s \in Slots : Behind(s)'
    /\ UNCHANGED <<session, established, w, cur, reply, ask, px>> => Sole'
    /\ UNCHANGED <<window, live, inEnd, inEof, base, wrote, pos, eofAt, stdin, up, w, cur, reply,
                   px, link, spos>> => Input'
    /\ UNCHANGED <<live, noisy, got, established, w, cur, reply, delivered, epoch, outEnd, breaks>>
          => Written'
    /\ UNCHANGED <<w, cur, reply, down, delivered, outEnd, breaks, noisy, epoch, got, link, sent>>
          => Flow'
    /\ UNCHANGED <<w, cur, reply, exit, outEnd, told, live, noisy, got>> => Final'
<1>1. Shapes /\ Attempt /\ Sole /\ Input /\ Written /\ Flow /\ Final /\ \A s \in Slots : Behind(s)
  BY DEF WrapperInv
<1>2. UNCHANGED <<told, reply, ask, up, down, wrote, got>> => Shapes'
  BY <1>1 DEF Shapes
<1>3. UNCHANGED <<w, cur, link, px, reply, up, established, create, ask, ctl, late, inEof>>
          => Attempt'
  BY <1>1 DEF Attempt, Flowing
<1>4. UNCHANGED <<cur, px, reply, down, link, up, sent, session, holder, ask, base, inEof, inEnd>>
          => \A s \in Slots : Behind(s)'
  BY <1>1 DEF Behind
<1>5. UNCHANGED <<session, established, w, cur, reply, ask, px>> => Sole'
  BY <1>1 DEF Sole, Reached, Flowing
<1>6. UNCHANGED <<window, live, inEnd, inEof, base, wrote, pos, eofAt, stdin, up, w, cur, reply,
                  px, link, spos>> => Input'
  BY <1>1 DEF Input, InputOnce, StdinClosed
<1>7. UNCHANGED <<live, noisy, got, established, w, cur, reply, delivered, epoch, outEnd, breaks>>
          => Written'
  BY <1>1 DEF Written, OutputOnce, Real, Reached, Flowing, Spare
<1>8. UNCHANGED <<w, cur, reply, down, delivered, outEnd, breaks, noisy, epoch, got, link, sent>>
          => Flow'
  <2> SUFFICES ASSUME UNCHANGED <<w, cur, reply, down, delivered, outEnd, breaks, noisy, epoch, got,
                                  link, sent>>
               PROVE  Flow'
      OBVIOUS
  <2>1. At' = At /\ Real' = Real /\ Spare' = Spare /\ (Flowing' <=> Flowing)
    BY DEF At, Real, Spare, Flowing
  <2> QED
    BY <1>1, <2>1 DEF Flow
<1>9. UNCHANGED <<w, cur, reply, exit, outEnd, told, live, noisy, got>> => Final'
  BY <1>1 DEF Final, ExitComplete
<1> QED
  BY <1>2, <1>3, <1>4, <1>5, <1>6, <1>7, <1>8, <1>9

-----------------------------------------------------------------------------
LEMMA InitInv == Init => WrapperInv
<1> SUFFICES ASSUME Init PROVE WrapperInv
    OBVIOUS
<1>1. \A s \in Slots : /\ link[s] = "closed" /\ px[s] = "none" /\ ask[s] = NoAsk
                       /\ reply[s] = NoReply /\ up[s] = <<>> /\ down[s] = <<>> /\ sent[s] = 0
  BY DEF Init
<1>2. TypeOK
  <2>1. /\ {window, live, inEof, create, established, late, exit} \subseteq BOOLEAN
        /\ noisy \in BOOLEAN
    BY DEF Init
  <2>2. /\ link \in [Slots -> {"up", "lost", "closed"}]
        /\ px \in [Slots -> {"none", "sent", "asked", "dialing", "attached"}]
        /\ sent \in [Slots -> 0 .. outEnd]
    BY DEF Init
  <2>3. /\ inEnd \in 0 .. MaxIn /\ base \in 0 .. inEnd /\ delivered \in 0 .. MaxOut + Breaks
        /\ spos \in 0 .. inEnd /\ epoch \in 0 .. MaxRuns /\ pos \in 0 .. inEnd
        /\ eofAt \in None .. MaxIn /\ outEnd \in 0 .. MaxOut /\ breaks \in 0 .. Breaks
    BY WrapperAssumption DEF Init, None
  <2> QED
    BY <2>1, <2>2, <2>3 DEF Init, TypeOK
<1>3. Shapes
  <2>1. /\ reply \in [Slots -> Hellos \cup Errors] /\ ask \in [Slots -> Asks]
    BY Messages DEF Init
  <2>2. up \in [Slots -> Seq(Nat)] /\ down \in [Slots -> Seq(Bytes)]
    BY Nothing DEF Init
  <2>3. wrote \in Seq(Nat \X Nat) /\ got \in Seq(Bytes)
    BY Nothing DEF Init
  <2> QED
    BY <2>1, <2>2, <2>3, Messages DEF Init, Shapes
<1>4. ~Flowing /\ ~Reached /\ w = "idle" /\ cur = NoSlot
  BY DEF Init, Flowing, Reached
<1>5. Attempt
  BY <1>4 DEF Init, Attempt
<1>6. ASSUME NEW s \in Slots PROVE Behind(s)
  BY <1>1, Messages, WrapperAssumption DEF Init, Behind
<1>7. Sole /\ Flow
  BY <1>4 DEF Sole, Flow
<1>8. Len(wrote) = 0 /\ Len(got) = 0 /\ Real = {} /\ \A s \in Slots : Len(up[s]) = 0
  BY <1>1, Nothing DEF Init, Real
<1>9. Input
  BY <1>4, <1>8 DEF Init, Input, InputOnce, StdinClosed, None
<1>10. Written
  BY <1>4, <1>8, WrapperAssumption DEF Init, Written, OutputOnce, Spare
<1>11. Final
  BY <1>4 DEF Final, ExitComplete
<1> QED
  BY <1>2, <1>3, <1>5, <1>6, <1>7, <1>9, <1>10, <1>11 DEF WrapperInv

-----------------------------------------------------------------------------
(* Local stdin.                                                            *)

LEMMA LocalStep ==
    ASSUME WrapperInv, ReadLocal \/ LocalEof
    PROVE  WrapperInv'
<1>1. /\ TypeOK /\ Shapes /\ Attempt /\ Input /\ \A s \in Slots : Behind(s)
      /\ inEnd \in Nat /\ base \in Nat /\ base <= inEnd /\ pos \in Nat /\ pos <= inEnd
  BY DEF WrapperInv, TypeOK
<1>2. /\ UNCHANGED <<modes, wrapper, remote, late, broker, got, bounds>>
      /\ ~inEof
      /\ \/ inEof' = inEof /\ inEnd < MaxIn /\ inEnd' = inEnd + 1
            /\ (base' = base \/ (window /\ base' = base + 1 /\ base' <= inEnd'))
         \/ inEof' = TRUE /\ inEnd' = inEnd /\ base' = base
  BY <1>1 DEF ReadLocal, LocalEof
<1>3. UNCHANGED <<window, live, w, cur, create, established, delivered, told, declared, spos, ctl, link,
                  px, ask, reply, up, down, sent, late, session, epoch, pos, eofAt, outEnd, exit,
                  holder, stdin, wrote, got, breaks, noisy>>
  BY <1>2 DEF modes, wrapper, remote, broker, bounds
<1>4. /\ inEnd' \in 0 .. MaxIn /\ base' \in 0 .. inEnd' /\ inEnd <= inEnd' /\ base <= base'
      /\ inEof' \in BOOLEAN /\ base' \in Nat
  <2>1. inEof \in BOOLEAN /\ MaxIn \in Nat /\ inEnd <= MaxIn
    BY <1>1, WrapperAssumption DEF TypeOK
  <2>2. inEof' \in BOOLEAN
    BY <1>2, <2>1
  <2> QED
    BY <1>1, <1>2, <2>1, <2>2
<1>5. TypeOK'
  <2>1. {window, live, inEof, create, established, late, exit}' \subseteq BOOLEAN
    BY <1>1, <1>3, <1>4 DEF TypeOK
  <2>2. spos' \in 0 .. inEnd' /\ pos' \in 0 .. inEnd'
    BY <1>1, <1>3, <1>4 DEF TypeOK
  <2> QED
    BY <1>1, <1>3, <1>4, <2>1, <2>2 DEF TypeOK
<1>6. Attempt'
  BY <1>1, <1>2, <1>3 DEF Attempt, Flowing
<1>7. ASSUME NEW s \in Slots PROVE Behind(s)'
  <2>1. Behind(s) /\ ask[s].start \in Nat /\ ask[s].eof = None
    BY <1>1, <1>2, Messages DEF Behind, Shapes
  <2>2. ask[s].start \in 0 .. base'
    BY <1>1, <1>4, <2>1 DEF Behind
  <2> QED
    BY <1>3, <2>1, <2>2 DEF Behind
<1>8. Input'
  <2>1. eofAt = None /\ ~StdinClosed
    BY <1>1, <1>2 DEF Input, StdinClosed, None
  <2>2. InputOnce'
    BY <1>1, <1>3, <2>1 DEF Input, InputOnce, StdinClosed
  <2>3. stdin = "open" => \A s \in Slots : \A i \in 1 .. Len(up[s]) :
          up[s][i] = pos + i - 1 /\ up[s][i] < inEnd'
    <3> SUFFICES ASSUME stdin = "open", NEW s \in Slots, NEW i \in 1 .. Len(up[s])
                 PROVE  up[s][i] = pos + i - 1 /\ up[s][i] < inEnd'
        OBVIOUS
    <3>1. up[s] \in Seq(Nat) /\ up[s][i] \in Nat
      BY <1>1, ElementOfSeq DEF Shapes
    <3>2. up[s][i] = pos + i - 1 /\ up[s][i] < inEnd
      BY <1>1 DEF Input
    <3> QED
      BY <1>1, <1>4, <3>1, <3>2
  <2>4. w = "opening" /\ reply[cur].kind = "hello" => reply[cur].in \in 0 .. inEnd'
    BY <1>1, <1>4 DEF Input
  <2>5. ~window => base' = 0
    BY <1>1, <1>2 DEF Input
  <2> QED
    BY <1>1, <1>3, <2>1, <2>2, <2>3, <2>4, <2>5 DEF Input
<1> QED
  BY <1>3, <1>5, <1>6, <1>7, <1>8, Frames DEF WrapperInv

(* The command, and the end of the session.                                *)
LEMMA CommandStep ==
    ASSUME WrapperInv, Produce \/ CommandExits \/ CommandCloses \/ TakeStdin
    PROVE  WrapperInv'
<1>1. /\ TypeOK /\ Shapes /\ Written /\ Flow /\ Final /\ Input
      /\ outEnd \in Nat /\ breaks \in Nat /\ Spare \in Nat
  BY WrapperAssumption DEF WrapperInv, TypeOK, Spare
<1>2. UNCHANGED <<window, live, inEnd, inEof, base, w, cur, create, established, delivered, told,
                  declared, spos, ctl, link, px, ask, reply, up, down, sent, late, session, epoch,
                  pos, eofAt, holder, wrote, got, breaks, noisy>>
  BY DEF Produce, CommandExits, CommandCloses, TakeStdin, modes, local, wrapper, remote, bounds
<1>3. /\ stdin' \in {"open", "closed", "taken"} /\ (stdin' = "open" => stdin = "open")
      /\ outEnd' \in 0 .. MaxOut /\ outEnd <= outEnd' /\ outEnd' \in Nat
      /\ exit' \in BOOLEAN /\ (exit => exit' /\ outEnd' = outEnd)
  <2>1. exit \in BOOLEAN /\ outEnd \in 0 .. MaxOut /\ stdin \in {"open", "closed", "taken"}
        /\ MaxOut \in Nat
    BY <1>1, WrapperAssumption DEF TypeOK
  <2>2. exit' \in BOOLEAN /\ (exit => exit' /\ outEnd' = outEnd)
    BY <2>1 DEF Produce, CommandExits, CommandCloses, TakeStdin
  <2>3. outEnd' \in 0 .. MaxOut /\ outEnd <= outEnd' /\ outEnd' \in Nat
    BY <2>1 DEF Produce, CommandExits, CommandCloses, TakeStdin
  <2>4. stdin' \in {"open", "closed", "taken"} /\ (stdin' = "open" => stdin = "open")
    BY <2>1 DEF Produce, CommandExits, CommandCloses, TakeStdin
  <2> QED
    BY <2>2, <2>3, <2>4
<1>4. TypeOK'
  <2>1. {window, live, inEof, create, established, late, exit}' \subseteq BOOLEAN
    BY <1>1, <1>2, <1>3 DEF TypeOK
  <2>2. sent' \in [Slots -> 0 .. outEnd']
    BY <1>1, <1>2, <1>3 DEF TypeOK
  <2> QED
    BY <1>1, <1>2, <1>3, <2>1, <2>2 DEF TypeOK
<1>5. Input'
  BY <1>1, <1>2, <1>3 DEF Input, InputOnce, StdinClosed
<1>6. delivered \in Nat /\ Spare' = Spare
  BY <1>1, <1>2 DEF TypeOK, Spare
<1>7. Written'
  <2>1. OutputOnce' /\ Real' = Real /\ (Reached' <=> Reached)
    BY <1>1, <1>2 DEF Written, OutputOnce, Real, Reached, Flowing
  <2>2. delivered <= outEnd' + Spare /\ (~noisy => delivered <= outEnd')
    <3>1. delivered <= outEnd + (Breaks - breaks)
      BY <1>1 DEF Written, Spare
    <3>2. delivered \in Int /\ outEnd \in Int /\ Breaks - breaks \in Int
      BY <1>1, WrapperAssumption DEF TypeOK
    <3>3. outEnd' \in Int /\ outEnd <= outEnd'
      BY <1>3
    <3>4. delivered <= outEnd' + (Breaks - breaks)
      BY <3>1, <3>2, <3>3, Growth
    <3>5. ASSUME ~noisy PROVE delivered <= outEnd'
      <4>1. delivered <= outEnd
        BY <1>1, <3>5 DEF Written
      <4> QED
        BY <4>1, <3>2, <3>3, Growth
    <3> QED
      BY <3>4, <3>5 DEF Spare
  <2> QED
    BY <1>1, <1>2, <1>6, <2>1, <2>2 DEF Written
<1>8. Flow'
  <2>1. CASE ~Flowing
    BY <1>2, <2>1 DEF Flow, Flowing
  <2>2. CASE Flowing
    <3>1. cur \in Slots /\ down[cur] \in Seq(Bytes) /\ Len(down[cur]) \in Nat /\ At \in Nat
      BY <1>1, <2>2, LenProperties DEF WrapperInv, Attempt, Flowing, Shapes, TypeOK, Flow
    <3>2. /\ At + Len(down[cur]) <= outEnd' + Spare
          /\ ~noisy => At + Len(down[cur]) <= outEnd'
      BY <1>1, <1>3, <2>2, <3>1 DEF Flow
    <3> QED
      BY <1>1, <1>2, <1>6, <2>2, <3>2 DEF Flow, Flowing, At, Real
  <2> QED
    BY <2>1, <2>2
<1>9. Final'
  BY <1>1, <1>2, <1>3 DEF Final, ExitComplete
<1> QED
  BY <1>2, <1>4, <1>5, <1>7, <1>8, <1>9, Frames DEF WrapperInv

LEMMA ExpireStep ==
    ASSUME WrapperInv, Expire
    PROVE  WrapperInv'
<1>1. TypeOK /\ Attempt /\ Sole /\ \A s \in Slots : Behind(s)
  BY DEF WrapperInv
<1>2. UNCHANGED <<window, live, inEnd, inEof, base, w, cur, create, established, delivered, told,
                  declared, spos, ctl, link, px, ask, reply, up, down, sent, late, epoch,
                  pos, eofAt, outEnd, exit, stdin, holder, wrote, got, breaks, noisy>>
  BY DEF Expire, modes, local, wrapper, remote, bounds
<1>3. /\ session' = "none"
      /\ \A s \in Slots : px[s] = "none" \/ (s = cur /\ px[s] \in {"sent", "asked"})
  BY DEF Expire
<1>4. TypeOK'
  BY <1>1, <1>2, <1>3 DEF TypeOK
<1>5. ASSUME NEW s \in Slots PROVE Behind(s)'
  BY <1>1, <1>2, <1>3 DEF Behind
<1>6. Sole'
  <2>1. ASSUME NEW s \in Slots, Reached, ask[s].create PROVE px[s] \notin {"sent", "asked"}
    <3>1. CASE s # cur
      BY <1>3, <3>1
    <3>2. CASE s = cur
      BY <1>1, <1>3, <2>1, <3>2, WrapperAssumption DEF Attempt, Reached
    <3> QED
      BY <3>1, <3>2
  <2> QED
    BY <1>2, <2>1 DEF Sole, Reached, Flowing
<1> QED
  BY <1>2, <1>4, <1>5, <1>6, Frames DEF WrapperInv

(* The control that declares the end of input.                             *)
LEMMA ControlStep ==
    ASSUME WrapperInv, AskEof \/ ControlArrives \/ ControlConfirmed \/ ControlLate
    PROVE  WrapperInv'
<1>1. TypeOK /\ Attempt /\ Input
  BY DEF WrapperInv
<1>2. UNCHANGED <<window, live, inEnd, inEof, base, w, cur, create, established, delivered, told,
                  declared, spos, link, px, ask, reply, up, down, sent, session, epoch,
                  pos, outEnd, exit, stdin, holder, wrote, got, breaks, noisy>>
  BY DEF AskEof, ControlArrives, ControlConfirmed, ControlLate, modes, local, wrapper, remote, broker,
         bounds
<1>3. /\ eofAt' = eofAt \/ (eofAt' = inEnd /\ inEof /\ pos <= inEnd)
      /\ ctl' \in {"none", "asked", "applied", "over", "deaf"}
      /\ ctl' # ctl => inEof /\ w = "stream"
      /\ late' \in BOOLEAN /\ (late' => late)
  <2>1. late \in BOOLEAN /\ ctl \in {"none", "asked", "applied", "over", "deaf"}
    BY <1>1 DEF TypeOK
  <2>2. late' \in BOOLEAN /\ (late' => late)
    <3>1. late' = late \/ late' = FALSE
      BY DEF AskEof, ControlArrives, ControlConfirmed, ControlLate
    <3>2. CASE late' = late
      BY <2>1, <3>2
    <3>3. CASE late' = FALSE
      BY <3>3
    <3> QED
      BY <3>1, <3>2, <3>3
  <2>3. ctl' \in {"none", "asked", "applied", "over", "deaf"} /\ (ctl' # ctl => inEof /\ w = "stream")
    BY <1>1, <2>1 DEF AskEof, ControlArrives, ControlConfirmed, ControlLate, Attempt, wrapper
  <2>4. eofAt' = eofAt \/ (eofAt' = inEnd /\ inEof /\ pos <= inEnd)
    BY <1>1 DEF AskEof, ControlArrives, ControlConfirmed, ControlLate, Declare, Attempt, broker
  <2> QED
    BY <2>2, <2>3, <2>4
<1>4. TypeOK'
  <2>1. {window, live, inEof, create, established, late, exit}' \subseteq BOOLEAN
    BY <1>1, <1>2, <1>3 DEF TypeOK
  <2>2. eofAt' \in None .. MaxIn
    BY <1>1, <1>3 DEF TypeOK, None
  <2> QED
    BY <1>1, <1>2, <1>3, <2>1, <2>2 DEF TypeOK
<1>5. Attempt'
  BY <1>1, <1>2, <1>3 DEF Attempt, Flowing
<1>6. Input'
  <2>1. eofAt' # None => inEof /\ eofAt' = inEnd
    BY <1>1, <1>3 DEF Input
  <2>2. InputOnce'
    BY <1>1, <1>2, <2>1 DEF Input, InputOnce, StdinClosed, TypeOK, None
  <2> QED
    BY <1>1, <1>2, <2>1, <2>2 DEF Input
<1> QED
  BY <1>2, <1>4, <1>5, <1>6, Frames DEF WrapperInv

-----------------------------------------------------------------------------
(* The ends of an attempt: its transport is not up any more, and nothing of *)
(* what was under way to the wrapper is kept.                               *)
Quit ==
    /\ cur \in Slots /\ cur' = NoSlot
    /\ w' \in {"idle", "failed", "unable", "broken", "exited"}
    /\ told' = NoHello /\ declared' = None /\ spos' = 0 /\ ctl' = "none"
    /\ reply' = [reply EXCEPT ![cur] = NoReply]
    /\ down' = [down EXCEPT ![cur] = <<>>]
    /\ link' \in [Slots -> {"up", "lost", "closed"}] /\ link'[cur] # "up"
    /\ \A s \in Slots : s # cur => link'[s] = link[s]
    /\ breaks' \in 0 .. breaks
    /\ create' \in BOOLEAN /\ established' \in BOOLEAN /\ (established' => ~create')
    /\ established' \/ w' \in {"exited", "broken"} => Reached
    /\ ~established' /\ w' \in {"idle", "failed", "unable"} => delivered = 0 /\ got = <<>>
    /\ w' = "exited" => exit /\ (~live /\ ~noisy => Len(got) = outEnd)
    /\ UNCHANGED <<window, live, inEnd, inEof, base, delivered, px, ask, up, sent, late, session,
                   epoch, pos, eofAt, outEnd, exit, holder, stdin, wrote, got, noisy>>

LEMMA QuitStep ==
    ASSUME WrapperInv, Quit
    PROVE  WrapperInv'
<1>1. /\ TypeOK /\ Shapes /\ Attempt /\ Sole /\ Input /\ Written /\ \A s \in Slots : Behind(s)
      /\ cur \in Slots
  BY DEF WrapperInv, Quit
<1>2. UNCHANGED <<window, live, inEnd, inEof, base, delivered, px, ask, up, sent, late, session,
                  epoch, pos, eofAt, outEnd, exit, holder, stdin, wrote, got, noisy>>
  BY DEF Quit
<1>3. ~Flowing' /\ w' \notin {"opening", "stream", "drain"} /\ cur' = NoSlot
  BY DEF Quit, Flowing
<1>4. TypeOK'
  <2>1. {window, live, inEof, create, established, late, exit}' \subseteq BOOLEAN
    <3>1. create' \in BOOLEAN /\ established' \in BOOLEAN
      BY DEF Quit
    <3> QED
      BY <1>1, <1>2, <3>1 DEF TypeOK
  <2>2. /\ spos' \in 0 .. inEnd /\ breaks' \in 0 .. Breaks /\ ctl' \in {"none", "asked", "applied", "over", "deaf"}
        /\ link' \in [Slots -> {"up", "lost", "closed"}]
        /\ w' \in {"idle", "opening", "stream", "drain", "exited", "failed", "unable", "broken"}
    BY <1>1, WrapperAssumption DEF Quit, TypeOK
  <2> QED
    BY <1>1, <1>2, <1>3, <2>1, <2>2 DEF TypeOK
<1>5. Shapes'
  <2>1. told' \in Hellos /\ reply' \in [Slots -> Hellos \cup Errors] /\ down' \in [Slots -> Seq(Bytes)]
    BY <1>1, Messages, Nothing DEF Quit, Shapes
  <2> QED
    BY <1>1, <1>2, <2>1 DEF Shapes
<1>6. Attempt'
  BY <1>1, <1>2, <1>3 DEF Attempt, Quit
<1>7. ASSUME NEW s \in Slots PROVE Behind(s)'
  <2>1. reply'[s] = NoReply /\ down'[s] = <<>> /\ link'[s] # "up"
    BY <1>1 DEF Behind, Quit, Shapes
  <2> QED
    BY <1>1, <1>2, <2>1 DEF Behind
<1>8. Sole'
  <2>1. Reached' => Reached
    BY <1>3 DEF Quit, Reached
  <2> QED
    BY <1>1, <1>2, <2>1 DEF Sole
<1>9. Input'
  BY <1>1, <1>2, <1>3 DEF Input, InputOnce, StdinClosed
<1>10. Written'
  <2>1. OutputOnce' /\ Real' = Real
    BY <1>1, <1>2 DEF Written, OutputOnce, Real
  <2>2. ~established' /\ w' \in {"idle", "opening", "failed", "unable"} => delivered' = 0 /\ got' = <<>>
    BY <1>2 DEF Quit
  <2>3. delivered <= outEnd + Spare'
    <3>1. delivered <= outEnd + (Breaks - breaks)
      BY <1>1 DEF Written, Spare
    <3>2. /\ delivered \in Int /\ outEnd \in Int /\ Breaks \in Int /\ breaks \in Int
          /\ breaks' \in Int /\ breaks' <= breaks
      BY <1>1, WrapperAssumption DEF TypeOK, Quit
    <3>3. delivered <= outEnd + (Breaks - breaks')
      BY <3>1, <3>2, Slack
    <3> QED
      BY <3>3 DEF Spare
  <2> QED
    BY <1>1, <1>2, <2>1, <2>2, <2>3 DEF Written
<1>11. Flow'
  BY <1>3 DEF Flow
<1>12. Final'
  BY <1>2, <1>3 DEF Final, ExitComplete, Quit
<1> QED
  BY <1>4, <1>5, <1>6, <1>7, <1>8, <1>9, <1>10, <1>11, <1>12 DEF WrapperInv

(* Links and names of the tuples, for the actions that quit.                *)
LEMMA Lost ==
    ASSUME TypeOK, NEW s \in Slots,
           \/ link' = link /\ link[s] # "up"
           \/ link' = [link EXCEPT ![s] = "lost"]
           \/ link' = [link EXCEPT ![s] = IF @ = "up" THEN "lost" ELSE @]
    PROVE  /\ link' \in [Slots -> {"up", "lost", "closed"}] /\ link'[s] # "up"
           /\ \A r \in Slots : r # s => link'[r] = link[r]
BY DEF TypeOK

LEMMA NoAnswerStep ==
    ASSUME WrapperInv, NoAnswer
    PROVE  WrapperInv'
<1>1. TypeOK /\ Attempt /\ Written /\ cur \in Slots
  BY DEF WrapperInv, Attempt, NoAnswer, TypeOK
<1>2. ~Flowing
  BY DEF NoAnswer, Flowing, NoReply
<1>3. /\ link' \in [Slots -> {"up", "lost", "closed"}] /\ link'[cur] # "up"
      /\ \A s \in Slots : s # cur => link'[s] = link[s]
  BY <1>1, Lost DEF NoAnswer
<1>4. create' \in BOOLEAN /\ established' \in BOOLEAN /\ ~create'
  BY <1>1 DEF NoAnswer, TypeOK
<1>5. breaks' \in 0 .. breaks
  BY <1>1 DEF NoAnswer, TypeOK, bounds
<1>6. ~established => delivered = 0 /\ got = <<>>
  BY <1>1 DEF NoAnswer, Written
<1> QED
  BY <1>1, <1>2, <1>3, <1>4, <1>5, <1>6, QuitStep
  DEF NoAnswer, Forget, Quit, Reached, modes, local, broker, bounds

LEMMA RefusedStep ==
    ASSUME WrapperInv, Refused
    PROVE  WrapperInv'
<1>1. TypeOK /\ Attempt /\ Written /\ cur \in Slots
  BY DEF WrapperInv, Attempt, Refused, TypeOK
<1>2. ~Flowing /\ link[cur] # "up"
  BY <1>1, WrapperAssumption DEF Refused, Flowing, Attempt
<1>3. /\ link' \in [Slots -> {"up", "lost", "closed"}] /\ link'[cur] # "up"
      /\ \A s \in Slots : s # cur => link'[s] = link[s]
  BY <1>1, <1>2, Lost DEF Refused
<1>4. create' \in BOOLEAN /\ established' = established /\ (established' => ~create')
  <2>1. create \in BOOLEAN /\ Recreates \in BOOLEAN
    BY <1>1 DEF TypeOK, Recreates
  <2>2. create' = (create \/ Recreates) /\ established' = established
    BY DEF Refused
  <2> QED
    BY <1>1, <2>1, <2>2 DEF Attempt, Recreates
<1>5. breaks' \in 0 .. breaks /\ established \in BOOLEAN
  BY <1>1 DEF Refused, TypeOK, bounds
<1>6. ~established => delivered = 0 /\ got = <<>>
  BY <1>1 DEF Refused, Written
<1> QED
  BY <1>1, <1>2, <1>3, <1>4, <1>5, <1>6, QuitStep
  DEF Refused, Forget, Quit, Reached, modes, local, broker, bounds

(* A hello that is behind, or in a buffered session ahead.                  *)
Mismatch == reply[cur].out < delivered \/ (~live /\ reply[cur].out # delivered)

LEMMA MismatchStep ==
    ASSUME WrapperInv, Opened, Mismatch
    PROVE  WrapperInv'
<1>1. TypeOK /\ Attempt /\ Written /\ cur \in Slots
  BY DEF WrapperInv, Attempt, Opened, TypeOK
<1>2. /\ w' = "failed" /\ Forget
      /\ link' = [link EXCEPT ![cur] = IF @ = "up" THEN "lost" ELSE @]
      /\ UNCHANGED delivered
  BY DEF Opened, Mismatch
<1>3. /\ link' \in [Slots -> {"up", "lost", "closed"}] /\ link'[cur] # "up"
      /\ \A s \in Slots : s # cur => link'[s] = link[s]
  BY <1>1, <1>2, Lost
<1>4. create' \in BOOLEAN /\ established' = established /\ (established' => ~create')
  BY <1>1 DEF Opened, Attempt, TypeOK
<1>5. breaks' \in 0 .. breaks /\ established \in BOOLEAN
  BY <1>1 DEF Opened, TypeOK, bounds
<1>6. ~established => delivered = 0 /\ got = <<>>
  BY <1>1 DEF Opened, Written
<1> QED
  BY <1>1, <1>2, <1>3, <1>4, <1>5, <1>6, QuitStep
  DEF Opened, Forget, Quit, Reached, modes, local, broker, bounds

(* An opening that is no hello, although one may have been on its way.      *)
LEMMA UnreadableStep ==
    ASSUME WrapperInv, Unreadable
    PROVE  WrapperInv'
<1>1. TypeOK /\ Attempt /\ Written /\ cur \in Slots
  BY DEF WrapperInv, Attempt, Unreadable, TypeOK
<1>2. /\ link' \in [Slots -> {"up", "lost", "closed"}] /\ link'[cur] # "up"
      /\ \A s \in Slots : s # cur => link'[s] = link[s]
  BY <1>1, Lost DEF Unreadable
<1>3. create' \in BOOLEAN /\ established' = established /\ (established' => ~create')
  BY <1>1 DEF Unreadable, Attempt, TypeOK
<1>4. breaks' \in 0 .. breaks /\ established \in BOOLEAN
  BY <1>1 DEF Unreadable, TypeOK
<1>5. ~established => delivered = 0 /\ got = <<>>
  BY <1>1 DEF Unreadable, Written
<1> QED
  BY <1>1, <1>2, <1>3, <1>4, <1>5, QuitStep
  DEF Unreadable, Forget, Quit, Reached, modes, local, broker

LEMMA SpawnFailsStep ==
    ASSUME WrapperInv, SpawnFails
    PROVE  WrapperInv'
<1>1. /\ TypeOK /\ Attempt /\ Sole /\ Input /\ Written /\ Final
      /\ w = "idle" /\ w' = "unable" /\ cur = NoSlot
  BY DEF WrapperInv, Attempt, SpawnFails
<1>2. UNCHANGED <<window, live, inEnd, inEof, base, cur, create, established, delivered, told,
                  declared, spos, ctl, link, px, ask, reply, up, down, sent, late, session, epoch,
                  pos, eofAt, outEnd, exit, stdin, holder, wrote, got, breaks, noisy>>
  BY DEF SpawnFails, modes, local, remote, broker, bounds
<1>3. ~Flowing /\ ~Flowing' /\ (Reached' <=> Reached)
  BY <1>1, <1>2 DEF Flowing, Reached
<1>4. TypeOK' /\ Attempt'
  BY <1>1, <1>2, <1>3 DEF TypeOK, Attempt
<1>5. Sole' /\ Flow'
  BY <1>1, <1>2, <1>3 DEF Sole, Flow
<1>6. Input'
  BY <1>1, <1>2 DEF Input, InputOnce, StdinClosed
<1>7. Written'
  BY <1>1, <1>2 DEF Written, OutputOnce, Real, Spare
<1>8. Final'
  BY <1>1, <1>2 DEF Final, ExitComplete
<1> QED
  BY <1>2, <1>4, <1>5, <1>6, <1>7, <1>8, Frames DEF WrapperInv

(* The wrapper does not listen to its sender any more.                      *)
LEMMA StreamEndsStep ==
    ASSUME WrapperInv, StreamEnds
    PROVE  WrapperInv'
<1>1. /\ TypeOK /\ Shapes /\ Attempt /\ Written /\ Flow
      /\ w = "stream" /\ link[cur] = "up" /\ cur \in Slots /\ Flowing
  BY DEF WrapperInv, Attempt, TypeOK, StreamEnds, Flowing
<1>2. /\ ctl' = "deaf"
      /\ UNCHANGED <<window, live, inEnd, inEof, base, w, cur, create, established, delivered, told,
                     declared, spos, link, px, ask, reply, up, down, sent, late, session, epoch,
                     pos, eofAt, outEnd, exit, stdin, holder, wrote, got, noisy>>
  BY DEF StreamEnds, modes, local, remote, broker
<1>3. breaks' \in 0 .. Breaks /\ breaks' \in Int /\ breaks \in Int /\ Breaks \in Int /\ breaks' <= breaks
  BY <1>1, WrapperAssumption DEF StreamEnds, TypeOK
<1>4. TypeOK'
  <2>1. {window, live, inEof, create, established, late, exit}' \subseteq BOOLEAN
    BY <1>1, <1>2 DEF TypeOK
  <2> QED
    BY <1>1, <1>2, <1>3, <2>1 DEF TypeOK
<1>5. Attempt'
  BY <1>1, <1>2 DEF Attempt, Flowing
<1>6. Written'
  <2>1. OutputOnce' /\ Real' = Real
    BY <1>1, <1>2 DEF Written, OutputOnce, Real
  <2>2. delivered <= outEnd + (Breaks - breaks) /\ delivered \in Int /\ outEnd \in Int
    BY <1>1 DEF Written, Spare, TypeOK
  <2>3. delivered <= outEnd + (Breaks - breaks')
    BY <1>3, <2>2, Slack
  <2> QED
    BY <1>1, <1>2, <2>1, <2>3 DEF Written, Spare
<1>7. Flow'
  <2> DEFINE d == down[cur]
  <2>1. /\ d \in Seq(Bytes) /\ Len(d) \in Int /\ At \in Int /\ outEnd \in Int /\ sent[cur] \in Int
        /\ At + Len(d) \in Int
    BY <1>1, LenProperties DEF Shapes, Flow, TypeOK
  <2>2. /\ At + Len(d) <= outEnd + (Breaks - breaks)
        /\ At + Len(d) <= sent[cur] + (Breaks - breaks)
    BY <1>1 DEF Flow, Spare
  <2>3. At + Len(d) <= outEnd + (Breaks - breaks')
    BY <1>3, <2>1, <2>2, Slack
  <2>4. At + Len(d) <= sent[cur] + (Breaks - breaks')
    BY <1>3, <2>1, <2>2, Slack
  <2>5. At' = At /\ Real' = Real /\ (Flowing' <=> Flowing)
    BY <1>2 DEF At, Real, Flowing
  <2> QED
    BY <1>1, <1>2, <2>3, <2>4, <2>5 DEF Flow, Spare
<1> QED
  BY <1>2, <1>4, <1>5, <1>6, <1>7, Frames DEF WrapperInv

LEMMA WriteFailsStep ==
    ASSUME WrapperInv, WriteFails
    PROVE  WrapperInv'
<1>1. TypeOK /\ Attempt /\ cur \in Slots
  BY DEF WrapperInv, Attempt, WriteFails, TypeOK
<1>2. Flowing
  BY DEF WriteFails, Flowing
<1>3. /\ link' \in [Slots -> {"up", "lost", "closed"}] /\ link'[cur] # "up"
      /\ \A s \in Slots : s # cur => link'[s] = link[s]
  BY <1>1, Lost DEF WriteFails
<1>4. create' \in BOOLEAN /\ established' \in BOOLEAN /\ (established' => ~create')
  BY <1>1 DEF WriteFails, Attempt, TypeOK
<1>5. breaks' \in 0 .. breaks
  BY <1>1 DEF WriteFails, TypeOK
<1> QED
  BY <1>1, <1>2, <1>3, <1>4, <1>5, QuitStep
  DEF WriteFails, Forget, Quit, Reached, modes, local, broker

(* The wrapper ends with the command's status, or goes for the rest.        *)
LEMMA FinishStep ==
    ASSUME WrapperInv, Finish
    PROVE  WrapperInv'
<1>1. TypeOK /\ Attempt /\ Written /\ Flow /\ Final /\ cur \in Slots /\ Flowing
  BY DEF WrapperInv, Attempt, Finish, TypeOK, Flowing
<1>2. link[cur] # "up"
  BY <1>1, WrapperAssumption DEF Finish, Attempt
<1>3. /\ link' \in [Slots -> {"up", "lost", "closed"}] /\ link'[cur] # "up"
      /\ \A s \in Slots : s # cur => link'[s] = link[s]
  BY <1>1, <1>2, Lost DEF Finish
<1>4. create' \in BOOLEAN /\ established' \in BOOLEAN /\ (established' => ~create')
  BY <1>1 DEF Finish, Attempt, TypeOK
<1>5. breaks' \in 0 .. breaks
  BY <1>1 DEF Finish, TypeOK, bounds
<1>6. w' \in {"idle", "exited"} /\ (w' = "idle" => established')
  BY DEF Finish
<1>7. ASSUME w' = "exited" PROVE exit /\ (~live /\ ~noisy => Len(got) = outEnd)
  <2>1. told.exit /\ delivered >= told.end
    BY <1>7 DEF Finish, Complete
  <2>2. exit /\ told.end = outEnd
    BY <1>1, <2>1 DEF Final, Finish
  <2>3. ~live /\ ~noisy => Len(got) = delivered /\ delivered <= outEnd
    BY <1>1 DEF Written
  <2> QED
    BY <1>1, <2>1, <2>2, <2>3 DEF TypeOK
<1> QED
  BY <1>1, <1>3, <1>4, <1>5, <1>6, <1>7, QuitStep
  DEF Finish, Forget, Quit, Reached, modes, local, broker, bounds

-----------------------------------------------------------------------------
(* The current transport is cut: of what was under way only a first part    *)
(* is left, an answer may be lost, and no more goes the other way.          *)
Trims(f, g, s) ==
    /\ Len(f[s]) \in Nat /\ Len(g[s]) \in 0 .. Len(f[s])
    /\ \A i \in 1 .. Len(g[s]) : g[s][i] = f[s][i]
    /\ \A r \in Slots : r # s => g[r] = f[r]

LEMMA Trimmed ==
    ASSUME NEW S, NEW f \in [Slots -> Seq(S)], NEW g, NEW s \in Slots,
           g = f \/ \E n \in 0 .. Len(f[s]) : g = [f EXCEPT ![s] = SubSeq(@, 1, n)]
    PROVE  g \in [Slots -> Seq(S)] /\ Trims(f, g, s)
<1>1. f[s] \in Seq(S) /\ Len(f[s]) \in Nat
  BY LenProperties
<1>2. CASE g = f
  BY <1>1, <1>2 DEF Trims
<1>3. CASE \E n \in 0 .. Len(f[s]) : g = [f EXCEPT ![s] = SubSeq(@, 1, n)]
  <2>1. PICK n \in 0 .. Len(f[s]) : g = [f EXCEPT ![s] = SubSeq(f[s], 1, n)]
    BY <1>3
  <2>2. /\ SubSeq(f[s], 1, n) \in Seq(S) /\ Len(SubSeq(f[s], 1, n)) = n
        /\ \A i \in 1 .. n : SubSeq(f[s], 1, n)[i] = f[s][i]
    BY <1>1, Shortened
  <2>3. g \in [Slots -> Seq(S)]
    BY <2>1, <2>2
  <2>4. g[s] = SubSeq(f[s], 1, n) /\ \A r \in Slots : r # s => g[r] = f[r]
    BY <2>1
  <2> QED
    BY <1>1, <2>2, <2>3, <2>4 DEF Trims
<1> QED
  BY <1>2, <1>3

Sever ==
    /\ cur \in Slots
    /\ link' \in [Slots -> {"up", "lost", "closed"}] /\ link'[cur] # "up"
    /\ \A s \in Slots : s # cur => link'[s] = link[s]
    /\ up' \in [Slots -> Seq(Nat)] /\ Trims(up, up', cur)
    /\ down' \in [Slots -> Seq(Bytes)] /\ Trims(down, down', cur)
    /\ \/ reply' = reply
       \/ w = "opening" /\ reply' = [reply EXCEPT ![cur] = NoReply]
    /\ \/ UNCHANGED <<px, ask>>
       \/ /\ px[cur] = "sent"
          /\ px' = [px EXCEPT ![cur] = "none"] /\ ask' = [ask EXCEPT ![cur] = NoAsk]
    /\ w' = w \/ (w = "stream" /\ w' = "drain")
    /\ ctl' \in {ctl, "over"} /\ (ctl' \in {"asked", "applied"} => w' = "stream")
    /\ (ctl' \notin {"none", "deaf"} \/ late' => inEof) /\ late' \in BOOLEAN
    /\ breaks' \in 0 .. breaks
    /\ UNCHANGED <<window, live, inEnd, inEof, base, cur, create, established, delivered, told,
                   declared, spos, sent, session, epoch, pos, eofAt, outEnd, exit, holder, stdin,
                   wrote, got, noisy>>

LEMMA SeverStep ==
    ASSUME WrapperInv, Sever
    PROVE  WrapperInv'
<1>1. /\ TypeOK /\ Shapes /\ Attempt /\ Sole /\ Input /\ Written /\ Flow /\ Final
      /\ \A s \in Slots : Behind(s)
      /\ cur \in Slots
  BY DEF WrapperInv, Sever
<1>2. UNCHANGED <<window, live, inEnd, inEof, base, cur, create, established, delivered, told,
                  declared, spos, sent, session, epoch, pos, eofAt, outEnd, exit, holder, stdin,
                  wrote, got, noisy>>
  BY DEF Sever
<1>3. /\ w' \in {"idle", "opening", "stream", "drain", "exited", "failed", "unable", "broken"}
      /\ w' = w \/ (w = "stream" /\ w' = "drain")
      /\ ctl' \in {"none", "asked", "applied", "over", "deaf"}
      /\ breaks' \in 0 .. Breaks /\ breaks' <= breaks
  <2>1. /\ w \in {"idle", "opening", "stream", "drain", "exited", "failed", "unable", "broken"}
        /\ w' = w \/ (w = "stream" /\ w' = "drain")
    BY <1>1 DEF Sever, TypeOK
  <2>2. ctl \in {"none", "asked", "applied", "over", "deaf"} /\ ctl' \in {ctl, "over"}
    BY <1>1 DEF Sever, TypeOK
  <2>3. breaks' \in 0 .. Breaks /\ breaks' <= breaks
    BY <1>1, WrapperAssumption DEF Sever, TypeOK
  <2> QED
    BY <2>1, <2>2, <2>3
<1>4. /\ reply' \in [Slots -> Hellos \cup Errors]
      /\ \A s \in Slots : s # cur => reply'[s] = reply[s]
      /\ reply'[cur] = reply[cur] \/ (w = "opening" /\ reply'[cur] = NoReply)
  <2>1. reply \in [Slots -> Hellos \cup Errors]
    BY <1>1 DEF Shapes
  <2>2. CASE reply' = reply
    BY <2>1, <2>2
  <2>3. CASE w = "opening" /\ reply' = [reply EXCEPT ![cur] = NoReply]
    BY <1>1, <2>1, <2>3, Messages
  <2> QED
    BY <2>2, <2>3 DEF Sever
<1>5. /\ px' \in [Slots -> {"none", "sent", "asked", "dialing", "attached"}]
      /\ ask' \in [Slots -> Asks]
      /\ \A s \in Slots : \/ px'[s] = px[s] /\ ask'[s] = ask[s]
                          \/ px[s] = "sent" /\ px'[s] = "none" /\ ask'[s] = NoAsk
  <2>1. /\ px \in [Slots -> {"none", "sent", "asked", "dialing", "attached"}]
        /\ ask \in [Slots -> Asks]
    BY <1>1 DEF Shapes, TypeOK
  <2>2. CASE UNCHANGED <<px, ask>>
    BY <2>1, <2>2
  <2>3. CASE /\ px[cur] = "sent"
             /\ px' = [px EXCEPT ![cur] = "none"] /\ ask' = [ask EXCEPT ![cur] = NoAsk]
    <3>1. \A s \in Slots : s # cur => px'[s] = px[s] /\ ask'[s] = ask[s]
      BY <2>1, <2>3
    <3>2. px'[cur] = "none" /\ ask'[cur] = NoAsk
      BY <1>1, <2>1, <2>3
    <3> QED
      BY <1>1, <2>1, <2>3, <3>1, <3>2, Messages
  <2> QED
    BY <2>2, <2>3 DEF Sever
<1>6. /\ up' \in [Slots -> Seq(Nat)] /\ Trims(up, up', cur)
      /\ down' \in [Slots -> Seq(Bytes)] /\ Trims(down, down', cur)
      /\ link'[cur] # "up" /\ \A s \in Slots : s # cur => link'[s] = link[s]
  BY DEF Sever
<1>7. Flowing' => /\ Flowing /\ reply'[cur] = reply[cur] /\ (w' = "opening" <=> w = "opening")
                  /\ px'[cur] = px[cur]
  <2>1. NoReply.kind # "hello" /\ (w' = "opening" => w = "opening")
    BY <1>3, Messages
  <2>2. Flowing' => Flowing /\ reply'[cur] = reply[cur]
    BY <1>2, <1>3, <1>4, <2>1 DEF Flowing
  <2> QED
    BY <1>1, <1>2, <1>3, <1>5, <2>1, <2>2 DEF Flowing, Attempt
<1>8. TypeOK'
  <2>1. {window, live, inEof, create, established, late, exit}' \subseteq BOOLEAN
    <3>1. late' \in BOOLEAN
      BY DEF Sever
    <3> QED
      BY <1>1, <1>2, <3>1 DEF TypeOK
  <2>2. link' \in [Slots -> {"up", "lost", "closed"}]
    BY DEF Sever
  <2> QED
    BY <1>1, <1>2, <1>3, <1>5, <2>1, <2>2 DEF TypeOK
<1>9. Shapes'
  BY <1>1, <1>2, <1>4, <1>5, <1>6 DEF Shapes
<1>10. \A s \in Slots : (up[s] = <<>> => up'[s] = <<>>) /\ (down[s] = <<>> => down'[s] = <<>>)
  <2> SUFFICES ASSUME NEW s \in Slots
               PROVE  (up[s] = <<>> => up'[s] = <<>>) /\ (down[s] = <<>> => down'[s] = <<>>)
      OBVIOUS
  <2>1. CASE s # cur
    BY <1>6, <2>1 DEF Trims
  <2>2. CASE s = cur
    <3>1. up'[s] \in Seq(Nat) /\ down'[s] \in Seq(Bytes)
      BY <1>6
    <3>2. (up[s] = <<>> => Len(up'[s]) = 0) /\ (down[s] = <<>> => Len(down'[s]) = 0)
      BY <1>6, <2>2, Nothing DEF Trims
    <3> QED
      BY <3>1, <3>2, Nothing
  <2> QED
    BY <2>1, <2>2
<1>11. Attempt'
  <2>1. w' \in {"opening", "stream", "drain"} <=> cur # NoSlot
    BY <1>1, <1>3 DEF Attempt
  <2>2. w' = "opening" => up'[cur] = <<>>
    BY <1>1, <1>3, <1>10, WrapperAssumption DEF Attempt
  <2>3. established => ~ask'[cur].create
    BY <1>1, <1>5, WrapperAssumption, Messages DEF Attempt
  <2>4. Flowing' => px'[cur] \in {"attached", "none"}
    BY <1>1, <1>7, WrapperAssumption DEF Attempt
  <2>5. /\ ctl' \in {"asked", "applied"} => w' = "stream"
        /\ ctl' \notin {"none", "deaf"} \/ late' => inEof
    BY DEF Sever
  <2> QED
    BY <1>1, <1>2, <1>6, <2>1, <2>2, <2>3, <2>4, <2>5 DEF Attempt
<1>12. ASSUME NEW s \in Slots PROVE Behind(s)'
  <2>1. Behind(s) /\ base \in Nat /\ 0 \in 0 .. base
    BY <1>1 DEF TypeOK
  <2>2. \/ px'[s] = px[s] /\ ask'[s] = ask[s]
        \/ px[s] = "sent" /\ px'[s] = "none" /\ ask'[s] = NoAsk
    BY <1>5
  <2>3. s # cur \/ px'[s] \in {"sent", "asked", "dialing"} => reply'[s] = NoReply /\ down'[s] = <<>>
    BY <1>4, <1>10, <2>1, <2>2 DEF Behind
  <2>4. px'[s] # "attached" => up'[s] = <<>> /\ sent[s] = 0
    BY <1>10, <2>1, <2>2 DEF Behind
  <2>5. /\ ask'[s].start \in 0 .. base /\ ask'[s].out \in Nat
        /\ ask'[s].eof # None => inEof /\ ask'[s].eof = inEnd
    BY <2>1, <2>2, Messages DEF Behind
  <2>6. /\ px'[s] \in {"dialing", "attached"} => session = "live"
        /\ px'[s] = "attached" <=> holder = s
    BY <2>1, <2>2 DEF Behind
  <2> QED
    BY <1>2, <1>6, <2>1, <2>3, <2>4, <2>5, <2>6 DEF Behind
<1>13. Sole'
  <2>1. Reached' => Reached
    BY <1>2, <1>3, <1>7 DEF Reached
  <2> QED
    BY <1>1, <1>2, <1>5, <2>1, Messages DEF Sole
<1>14. Input'
  <2>1. stdin = "open" => \A s \in Slots : \A i \in 1 .. Len(up'[s]) :
          up'[s][i] = pos + i - 1 /\ up'[s][i] < inEnd
    <3> SUFFICES ASSUME stdin = "open", NEW s \in Slots, NEW i \in 1 .. Len(up'[s])
                 PROVE  up'[s][i] = pos + i - 1 /\ up'[s][i] < inEnd
        OBVIOUS
    <3>1. i \in 1 .. Len(up[s]) /\ up'[s][i] = up[s][i]
      <4>1. CASE s = cur
        BY <1>6, <4>1 DEF Trims
      <4>2. CASE s # cur
        BY <1>6, <4>2 DEF Trims
      <4> QED
        BY <4>1, <4>2
    <3> QED
      BY <1>1, <3>1 DEF Input
  <2>2. w' = "opening" /\ reply'[cur].kind = "hello" =>
            reply'[cur].in \in 0 .. inEnd /\ (px'[cur] = "attached" => reply'[cur].in = pos)
    <3> SUFFICES ASSUME w' = "opening", reply'[cur].kind = "hello"
                 PROVE  reply'[cur].in \in 0 .. inEnd /\ (px'[cur] = "attached" => reply'[cur].in = pos)
        OBVIOUS
    <3>1. w = "opening" /\ reply'[cur] = reply[cur] /\ px'[cur] = px[cur]
      BY <1>2, <1>7 DEF Flowing
    <3> QED
      BY <1>1, <3>1 DEF Input
  <2>3. InputOnce'
    BY <1>1, <1>2 DEF Input, InputOnce, StdinClosed
  <2> QED
    BY <1>1, <1>2, <1>6, <2>1, <2>2, <2>3 DEF Input
<1>15. delivered <= outEnd + (Breaks - breaks')
  <2>1. delivered <= outEnd + (Breaks - breaks)
    BY <1>1 DEF Written, Spare
  <2>2. /\ delivered \in Int /\ outEnd \in Int /\ Breaks \in Int /\ breaks \in Int
        /\ breaks' \in Int /\ breaks' <= breaks
    BY <1>1, <1>3, WrapperAssumption DEF TypeOK
  <2> QED
    BY <2>1, <2>2, Slack
<1>16. Written'
  <2>1. OutputOnce' /\ Real' = Real
    BY <1>1, <1>2 DEF Written, OutputOnce, Real
  <2>2. ~established /\ w' \in {"idle", "opening", "failed", "unable"} => delivered = 0 /\ got = <<>>
    BY <1>1, <1>3 DEF Written
  <2> QED
    BY <1>1, <1>2, <1>15, <2>1, <2>2 DEF Written, Spare
<1>17. Flow'
  <2> SUFFICES ASSUME Flowing' PROVE Flow'
      BY DEF Flow
  <2>1. Flowing /\ reply'[cur] = reply[cur] /\ (w' = "opening" <=> w = "opening") /\ cur' = cur
    BY <1>2, <1>7
  <2>2. At' = At /\ Real' = Real
    BY <1>2, <2>1 DEF At, Real
  <2>3. /\ Len(down'[cur]) \in Nat /\ Len(down[cur]) \in Nat /\ Len(down'[cur]) <= Len(down[cur])
        /\ \A i \in 1 .. Len(down'[cur]) : i \in 1 .. Len(down[cur]) /\ down'[cur][i] = down[cur][i]
    BY <1>6 DEF Trims
  <2>4. At \in Nat /\ At + Len(down[cur]) <= outEnd + (Breaks - breaks)
    BY <1>1, <2>1 DEF Flow, Spare
  <2>5. At + Len(down'[cur]) <= outEnd + (Breaks - breaks')
    <3>1. breaks \in Int /\ breaks' \in Int /\ breaks' <= breaks /\ Breaks \in Int /\ outEnd \in Int
      BY <1>1, <1>3, WrapperAssumption DEF TypeOK
    <3>2. At + Len(down'[cur]) \in Int /\ At + Len(down'[cur]) <= At + Len(down[cur])
          /\ At + Len(down[cur]) \in Int
      BY <2>3, <2>4
    <3>3. At + Len(down'[cur]) <= outEnd + (Breaks - breaks)
      BY <2>4, <3>1, <3>2
    <3> QED
      BY <3>1, <3>2, <3>3, Slack
  <2>6. ~noisy => At + Len(down'[cur]) <= outEnd
    <3> SUFFICES ASSUME ~noisy PROVE At + Len(down'[cur]) <= outEnd
        OBVIOUS
    <3>1. At + Len(down[cur]) <= outEnd
      BY <1>1, <2>1 DEF Flow
    <3> QED
      BY <1>1, <2>3, <2>4, <3>1 DEF TypeOK
  <2>7. \A i \in 1 .. Len(down'[cur]) : down'[cur][i] # Diagnostic =>
              /\ down'[cur][i][1] = epoch /\ down'[cur][i][2] \in Nat /\ down'[cur][i][2] < At + i
              /\ \A j \in 1 .. i - 1 : down'[cur][j] # Diagnostic => down'[cur][j][2] < down'[cur][i][2]
              /\ IF w = "opening" THEN At <= down'[cur][i][2]
                 ELSE \A j \in Real : got[j][2] < down'[cur][i][2]
    <3> SUFFICES ASSUME NEW i \in 1 .. Len(down'[cur]), down'[cur][i] # Diagnostic
                 PROVE  /\ down'[cur][i][1] = epoch /\ down'[cur][i][2] \in Nat
                        /\ down'[cur][i][2] < At + i
                        /\ \A j \in 1 .. i - 1 : down'[cur][j] # Diagnostic
                                                    => down'[cur][j][2] < down'[cur][i][2]
                        /\ IF w = "opening" THEN At <= down'[cur][i][2]
                           ELSE \A j \in Real : got[j][2] < down'[cur][i][2]
        OBVIOUS
    <3>1. i \in 1 .. Len(down[cur]) /\ down'[cur][i] = down[cur][i]
      BY <2>3
    <3>2. \A j \in 1 .. i - 1 : j \in 1 .. Len(down'[cur]) /\ down'[cur][j] = down[cur][j]
      BY <2>3
    <3> QED
      BY <1>1, <2>1, <3>1, <3>2 DEF Flow
  <2>8. ~noisy => \A i \in 1 .. Len(down'[cur]) : down'[cur][i] = <<epoch, At + i - 1>>
    BY <1>1, <2>1, <2>3 DEF Flow
  <2>9. link'[cur] # "up"
    BY <1>6
  <2> QED
    BY <1>2, <2>1, <2>2, <2>4, <2>5, <2>6, <2>7, <2>8, <2>9 DEF Flow, Spare
<1>18. Final'
  <2>1. w' = "opening" /\ reply'[cur].kind = "hello" => w = "opening" /\ reply'[cur] = reply[cur]
    BY <1>2, <1>7 DEF Flowing
  <2> QED
    BY <1>1, <1>2, <1>3, <2>1 DEF Final, ExitComplete
<1> QED
  BY <1>8, <1>9, <1>11, <1>12, <1>13, <1>14, <1>16, <1>17, <1>18 DEF WrapperInv

(* What Reattach does to the transport.                                     *)
LEMMA Reattached ==
    ASSUME TypeOK, Shapes, cur \in Slots, Reattach
    PROVE  /\ w' = "drain"
           /\ link' \in [Slots -> {"up", "lost", "closed"}] /\ link'[cur] # "up"
           /\ \A s \in Slots : s # cur => link'[s] = link[s]
           /\ up' \in [Slots -> Seq(Nat)] /\ Trims(up, up', cur)
           /\ down' \in [Slots -> Seq(Bytes)] /\ Trims(down, down', cur)
<1>1. up \in [Slots -> Seq(Nat)] /\ down \in [Slots -> Seq(Bytes)]
  BY DEF Shapes
<1>2. PICK ins \in 0 .. Len(up[cur]), outs \in 0 .. Len(down[cur]) :
          /\ w' = "drain"
          /\ IF link[cur] = "up" THEN Cut(cur, ins, outs) ELSE UNCHANGED <<link, up, down>>
  BY DEF Reattach
<1>3. CASE link[cur] = "up"
  <2>1. /\ link' = [link EXCEPT ![cur] = "lost"]
        /\ up' = [up EXCEPT ![cur] = SubSeq(@, 1, ins)]
        /\ down' = [down EXCEPT ![cur] = SubSeq(@, 1, outs)]
    BY <1>2, <1>3 DEF Cut
  <2>2. up' \in [Slots -> Seq(Nat)] /\ Trims(up, up', cur)
    BY <1>1, <2>1, Trimmed
  <2>3. down' \in [Slots -> Seq(Bytes)] /\ Trims(down, down', cur)
    BY <1>1, <2>1, Trimmed
  <2> QED
    BY <1>2, <2>1, <2>2, <2>3, Lost
<1>4. CASE link[cur] # "up"
  <2>1. link' = link /\ up' = up /\ down' = down
    BY <1>2, <1>4
  <2>2. up' \in [Slots -> Seq(Nat)] /\ Trims(up, up', cur)
    BY <1>1, <2>1, Trimmed
  <2>3. down' \in [Slots -> Seq(Bytes)] /\ Trims(down, down', cur)
    BY <1>1, <2>1, Trimmed
  <2> QED
    BY <1>2, <1>4, <2>1, <2>2, <2>3, Lost
<1> QED
  BY <1>3, <1>4

LEMMA StopStep ==
    ASSUME WrapperInv, Stop
    PROVE  WrapperInv'
<1>1. TypeOK /\ Shapes /\ Attempt /\ cur \in Slots
  BY DEF WrapperInv, Attempt, Stop, TypeOK
<1>2. link' = link /\ up' = up /\ down' = down /\ reply' = reply /\ px' = px /\ ask' = ask
      /\ sent' = sent
  BY DEF Stop, remote
<1>3. up' \in [Slots -> Seq(Nat)] /\ Trims(up, up', cur)
  BY <1>1, <1>2, Trimmed DEF Shapes
<1>4. down' \in [Slots -> Seq(Bytes)] /\ Trims(down, down', cur)
  BY <1>1, <1>2, Trimmed DEF Shapes
<1>5. breaks' \in 0 .. breaks /\ late' \in BOOLEAN
  BY <1>1 DEF Stop, TypeOK, bounds
<1>6. ctl' \notin {"none", "deaf"} \/ late' => inEof
  BY <1>1 DEF Stop, Attempt
<1> QED
  BY <1>1, <1>2, <1>3, <1>4, <1>5, <1>6, Lost, SeverStep
  DEF Stop, Sever, modes, local, broker, bounds

(* A window that went on behind the position is read again by an attempt.   *)
LEMMA SlideStep ==
    ASSUME WrapperInv, Send, Slid
    PROVE  WrapperInv'
<1>1. TypeOK /\ Shapes /\ Attempt /\ cur \in Slots
  BY DEF WrapperInv, Attempt, Send, TypeOK
<1>2. Reattach /\ ctl \notin {"asked", "applied"} /\ spos' = spos
  BY DEF Send
<1>3. /\ w' = "drain"
      /\ link' \in [Slots -> {"up", "lost", "closed"}] /\ link'[cur] # "up"
      /\ \A s \in Slots : s # cur => link'[s] = link[s]
      /\ up' \in [Slots -> Seq(Nat)] /\ Trims(up, up', cur)
      /\ down' \in [Slots -> Seq(Bytes)] /\ Trims(down, down', cur)
  BY <1>1, <1>2, Reattached
<1>4. breaks' \in 0 .. breaks /\ late' \in BOOLEAN
  BY <1>1 DEF Send, TypeOK, bounds
<1>5. ctl' \notin {"none", "deaf"} \/ late' => inEof
  BY <1>1 DEF Send, Attempt
<1> QED
  BY <1>1, <1>2, <1>3, <1>4, <1>5, SeverStep DEF Send, Sever, modes, local, broker, bounds

LEMMA ControlFailsStep ==
    ASSUME WrapperInv, ControlFails
    PROVE  WrapperInv'
<1>1. TypeOK /\ Shapes /\ Attempt
  BY DEF WrapperInv
<1>2. w = "stream" /\ inEof /\ cur \in Slots
  BY <1>1 DEF ControlFails, Attempt, TypeOK
<1>3. Reattach /\ ctl' = "over"
  BY DEF ControlFails
<1>4. /\ w' = "drain"
      /\ link' \in [Slots -> {"up", "lost", "closed"}] /\ link'[cur] # "up"
      /\ \A s \in Slots : s # cur => link'[s] = link[s]
      /\ up' \in [Slots -> Seq(Nat)] /\ Trims(up, up', cur)
      /\ down' \in [Slots -> Seq(Bytes)] /\ Trims(down, down', cur)
  BY <1>1, <1>2, <1>3, Reattached
<1>5. breaks' \in 0 .. breaks
  BY <1>1, WrapperAssumption DEF ControlFails, TypeOK
<1>6. late' \in BOOLEAN
  <2>1. late \in BOOLEAN /\ (ctl = "asked" \/ late) \in BOOLEAN
    BY <1>1 DEF TypeOK
  <2>2. late' = late \/ late' = (ctl = "asked" \/ late)
    BY DEF ControlFails
  <2>3. CASE late' = late
    BY <2>1, <2>3
  <2>4. CASE late' = (ctl = "asked" \/ late)
    BY <2>4
  <2> QED
    BY <2>2, <2>3, <2>4
<1> QED
  BY <1>2, <1>3, <1>4, <1>5, <1>6, SeverStep DEF ControlFails, Sever, modes, local, broker

(* A transport that is up is the current one.                               *)
LEMMA BreakStep ==
    ASSUME WrapperInv, NEW s \in Slots, Break(s)
    PROVE  WrapperInv'
<1>1. /\ TypeOK /\ Shapes /\ Attempt /\ Behind(s)
      /\ up \in [Slots -> Seq(Nat)] /\ down \in [Slots -> Seq(Bytes)]
  BY DEF WrapperInv, Shapes
<1>2. s = cur /\ cur \in Slots
  BY <1>1 DEF Break, Behind
<1>3. PICK ins \in 0 .. Len(up[cur]), outs \in 0 .. Len(down[cur]) : Cut(cur, ins, outs)
  BY <1>2 DEF Break
<1>4. /\ link' = [link EXCEPT ![cur] = "lost"]
      /\ up' = [up EXCEPT ![cur] = SubSeq(@, 1, ins)]
      /\ down' = [down EXCEPT ![cur] = SubSeq(@, 1, outs)]
  BY <1>3 DEF Cut
<1>5. up' \in [Slots -> Seq(Nat)] /\ Trims(up, up', cur)
  BY <1>1, <1>2, <1>4, Trimmed
<1>6. down' \in [Slots -> Seq(Bytes)] /\ Trims(down, down', cur)
  BY <1>1, <1>2, <1>4, Trimmed
<1>7. breaks' \in 0 .. breaks /\ late' \in BOOLEAN
  <2>1. late' \in BOOLEAN
    BY <1>1 DEF Break, TypeOK
  <2>2. breaks' \in 0 .. breaks
    BY <1>1, WrapperAssumption DEF Break, TypeOK
  <2> QED
    BY <2>1, <2>2
<1>8. reply' = reply \/ (w = "opening" /\ reply' = [reply EXCEPT ![cur] = NoReply])
  <2>1. PICK r \in IF w = "opening" THEN {NoReply, reply[cur]} ELSE {reply[cur]} :
            reply' = [reply EXCEPT ![cur] = r]
    BY <1>2 DEF Break
  <2>2. CASE r = reply[cur]
    BY <1>1, <1>2, <2>1, <2>2 DEF Shapes
  <2>3. CASE w = "opening" /\ r = NoReply
    BY <2>1, <2>3
  <2> QED
    BY <2>1, <2>2, <2>3
<1>9. \/ UNCHANGED <<px, ask>>
      \/ /\ px[cur] = "sent"
         /\ px' = [px EXCEPT ![cur] = "none"] /\ ask' = [ask EXCEPT ![cur] = NoAsk]
  BY <1>2 DEF Break
<1>10. ctl' \notin {"none", "deaf"} \/ late' => inEof
  BY <1>1 DEF Break, Attempt, wrapper
<1>11. UNCHANGED <<window, live, inEnd, inEof, base, w, cur, create, established, delivered, told,
                   declared, spos, ctl, sent, late, session, epoch, pos, eofAt, outEnd, exit, holder,
                   stdin, wrote, got, noisy>>
  BY DEF Break, modes, local, wrapper, broker
<1>12. ctl' \in {"asked", "applied"} => w' = "stream"
  BY <1>1, <1>11 DEF Attempt
<1> QED
  BY <1>1, <1>2, <1>4, <1>5, <1>6, <1>7, <1>8, <1>9, <1>10, <1>11, <1>12, Lost, SeverStep DEF Sever

-----------------------------------------------------------------------------
(* The current attempt at work.  Where its transport is up and bytes flow,  *)
(* its proxy holds the attachment.                                          *)
LEMMA Current ==
    ASSUME WrapperInv
    PROVE  /\ cur # NoSlot => cur \in Slots
           /\ Flowing => /\ cur \in Slots /\ cur # NoSlot /\ px[cur] \in {"attached", "none"}
                         /\ down[cur] \in Seq(Bytes) /\ Len(down[cur]) \in Nat
                         /\ link[cur] = "up" => px[cur] = "attached" /\ holder = cur
<1>1. TypeOK /\ Attempt /\ Shapes /\ \A s \in Slots : Behind(s)
  BY DEF WrapperInv
<1>2. cur # NoSlot => cur \in Slots
  BY <1>1 DEF TypeOK
<1>3. ASSUME Flowing
      PROVE  /\ cur \in Slots /\ cur # NoSlot /\ px[cur] \in {"attached", "none"}
             /\ link[cur] = "up" => px[cur] = "attached" /\ holder = cur
  BY <1>1, <1>2, <1>3 DEF Attempt, Flowing, Behind
<1>4. ASSUME Flowing PROVE down[cur] \in Seq(Bytes) /\ Len(down[cur]) \in Nat
  BY <1>1, <1>3, <1>4, LenProperties DEF Shapes
<1> QED
  BY <1>2, <1>3, <1>4

(* A hello that fits is where the wrapper stands from then on.              *)
LEMMA OpenedStep ==
    ASSUME WrapperInv, Opened, ~Mismatch
    PROVE  WrapperInv'
<1>1. /\ TypeOK /\ Shapes /\ Attempt /\ Sole /\ Input /\ Written /\ Flow /\ Final
      /\ \A s \in Slots : Behind(s)
  BY DEF WrapperInv
<1>2. Flowing /\ w = "opening" /\ reply[cur].kind = "hello" /\ cur \in Slots /\ cur # NoSlot
  BY Current DEF Opened, Flowing
<1>3. /\ w' = "stream" /\ told' = reply[cur]
      /\ delivered' = reply[cur].out /\ spos' = reply[cur].in
      /\ reply' = [reply EXCEPT ![cur] = NoReply]
      /\ UNCHANGED <<window, live, inEnd, inEof, base, cur, create, established, declared, ctl, link,
                     px, ask, up, down, sent, late, session, epoch, pos, eofAt, outEnd, exit, holder,
                     stdin, wrote, got, breaks, noisy>>
  BY DEF Opened, Mismatch, modes, local, broker, bounds
<1>4. /\ reply[cur] \in Hellos /\ reply[cur].out \in Nat /\ reply[cur].in \in 0 .. inEnd
      /\ reply'[cur] = NoReply /\ \A s \in Slots : s # cur => reply'[s] = reply[s]
      /\ reply' \in [Slots -> Hellos \cup Errors]
  BY <1>1, <1>2, <1>3, Messages DEF Shapes, Input
<1>5. Flowing' /\ ~(w' = "opening") /\ At = reply[cur].out /\ At' = At
  BY <1>2, <1>3 DEF Flowing, At
<1>6. At <= outEnd + (Breaks - breaks) /\ At \in Nat /\ Len(down[cur]) \in Nat
  <2>1. /\ At + Len(down[cur]) <= outEnd + (Breaks - breaks) /\ At \in Nat
        /\ Len(down[cur]) \in Nat
    BY <1>1, <1>2, Current DEF Flow, Spare
  <2>2. outEnd \in Int /\ Breaks - breaks \in Int
    BY <1>1, WrapperAssumption DEF TypeOK
  <2> QED
    BY <2>1, <2>2
<1>7. TypeOK'
  <2>1. {window, live, inEof, create, established, late, exit}' \subseteq BOOLEAN
    BY <1>1, <1>3 DEF TypeOK
  <2>2. delivered' \in 0 .. MaxOut + Breaks
    <3>1. /\ outEnd \in Int /\ outEnd <= MaxOut /\ breaks \in Nat /\ MaxOut \in Int /\ Breaks \in Int
      BY <1>1, WrapperAssumption DEF TypeOK
    <3>2. At <= MaxOut + Breaks
      BY <1>6, <3>1
    <3>3. MaxOut + Breaks \in Int
      BY <3>1
    <3>4. delivered' = At
      BY <1>3, <1>5
    <3> QED
      BY <1>6, <3>2, <3>3, <3>4
  <2> QED
    BY <1>1, <1>3, <1>4, <2>1, <2>2 DEF TypeOK
<1>8. Shapes'
  BY <1>1, <1>3, <1>4 DEF Shapes
<1>9. Attempt'
  BY <1>1, <1>2, <1>3, <1>4, Messages DEF Attempt, Flowing
<1>10. ASSUME NEW s \in Slots PROVE Behind(s)'
  BY <1>1, <1>3, <1>4 DEF Behind
<1>11. Sole'
  BY <1>1, <1>2, <1>3 DEF Sole, Reached
<1>12. Input'
  <2>1. link[cur] = "up" => spos' = pos + Len(up[cur])
    <3> SUFFICES ASSUME link[cur] = "up" PROVE spos' = pos + Len(up[cur])
        OBVIOUS
    <3>1. px[cur] = "attached" /\ up[cur] = <<>>
      BY <1>1, <1>2, Current DEF Attempt
    <3>2. reply[cur].in = pos /\ Len(up[cur]) = 0
      BY <1>1, <1>2, <3>1, Nothing DEF Input
    <3> QED
      BY <1>1, <1>3, <3>2 DEF TypeOK
  <2>2. InputOnce'
    BY <1>1, <1>3 DEF Input, InputOnce, StdinClosed
  <2> QED
    BY <1>1, <1>3, <2>1, <2>2 DEF Input
<1>13. delivered <= At /\ (~live => At = delivered)
  BY <1>1, <1>4, <1>5 DEF Mismatch, TypeOK
<1>14. Written'
  <2>1. OutputOnce' /\ Real' = Real
    BY <1>1, <1>3 DEF Written, OutputOnce, Real
  <2>2. \A i \in Real : got[i][1] = epoch /\ got[i][2] \in Nat /\ got[i][2] < delivered'
    <3>1. delivered \in Nat /\ delivered' = At
      BY <1>1, <1>3, <1>5 DEF TypeOK
    <3> QED
      BY <1>1, <1>6, <1>13, <3>1 DEF Written
  <2>3. ~live /\ ~noisy => Len(got) = delivered'
    BY <1>1, <1>3, <1>5, <1>13 DEF Written
  <2>4. ~noisy => delivered' <= outEnd
    <3> SUFFICES ASSUME ~noisy PROVE At <= outEnd
        BY <1>3, <1>5
    <3>1. At + Len(down[cur]) <= outEnd
      BY <1>1, <1>2 DEF Flow
    <3> QED
      BY <1>1, <1>6, <3>1 DEF TypeOK
  <2> QED
    BY <1>3, <1>5, <1>6, <2>1, <2>2, <2>3, <2>4 DEF Written, Spare
<1>15. Flow'
  <2>1. \A j \in Real : got[j][2] \in Nat /\ got[j][2] < At
    <3>1. delivered \in Nat
      BY <1>1 DEF TypeOK
    <3> QED
      BY <1>1, <1>6, <1>13, <3>1 DEF Written
  <2>2. \A i \in 1 .. Len(down[cur]) : down[cur][i] # Diagnostic =>
            \A j \in Real : got[j][2] < down[cur][i][2]
    <3> SUFFICES ASSUME NEW i \in 1 .. Len(down[cur]), down[cur][i] # Diagnostic, NEW j \in Real
                 PROVE  got[j][2] < down[cur][i][2]
        OBVIOUS
    <3>1. At <= down[cur][i][2] /\ down[cur][i][2] \in Nat
      BY <1>1, <1>2 DEF Flow
    <3> QED
      BY <1>6, <2>1, <3>1
  <2>3. link[cur] = "up" => \A j \in Real : got[j][2] < sent[cur]
    <3> SUFFICES ASSUME link[cur] = "up", NEW j \in Real PROVE got[j][2] < sent[cur]
        OBVIOUS
    <3>1. At <= sent[cur] /\ sent[cur] \in Nat
      BY <1>1, <1>2 DEF Flow, TypeOK
    <3> QED
      BY <1>6, <2>1, <3>1
  <2>4. Real' = Real /\ Spare' = Spare
    BY <1>3 DEF Real, Spare
  <2> QED
    BY <1>1, <1>2, <1>3, <1>5, <2>2, <2>3, <2>4 DEF Flow
<1>16. Final'
  BY <1>1, <1>2, <1>3 DEF Final, ExitComplete
<1> QED
  BY <1>7, <1>8, <1>9, <1>10, <1>11, <1>12, <1>14, <1>15, <1>16 DEF WrapperInv

(* The wrapper sends the byte at its position.                              *)
LEMMA SendStep ==
    ASSUME WrapperInv, Send, ~Slid
    PROVE  WrapperInv'
<1>1. TypeOK /\ Shapes /\ Attempt /\ Input /\ \A s \in Slots : Behind(s)
  BY DEF WrapperInv
<1>2. /\ w = "stream" /\ spos < inEnd /\ link[cur] = "up"
      /\ up' = [up EXCEPT ![cur] = Append(@, IF base > spos THEN base ELSE spos)]
      /\ spos' = spos + 1
      /\ UNCHANGED <<window, live, inEnd, inEof, base, w, cur, create, established, delivered, told,
                     declared, ctl, link, px, ask, reply, down, sent, late, session, epoch, pos, eofAt,
                     outEnd, exit, holder, stdin, wrote, got, breaks, noisy>>
  BY DEF Send, modes, local, broker, bounds
<1>3. cur \in Slots /\ cur # NoSlot /\ px[cur] = "attached" /\ spos \in Nat /\ inEnd \in Nat
      /\ pos \in Nat
  BY <1>1, <1>2, Current DEF Flowing, TypeOK
<1>4. up[cur] \in Seq(Nat) /\ up' = [up EXCEPT ![cur] = Append(up[cur], spos)]
  BY <1>1, <1>2, <1>3 DEF Shapes, Slid
<1>5. /\ up'[cur] \in Seq(Nat) /\ Len(up'[cur]) = Len(up[cur]) + 1 /\ Len(up[cur]) \in Nat
      /\ \A i \in 1 .. Len(up[cur]) : up'[cur][i] = up[cur][i]
      /\ up'[cur][Len(up[cur]) + 1] = spos
      /\ \A s \in Slots : s # cur => up'[s] = up[s]
      /\ up' \in [Slots -> Seq(Nat)]
  <2>1. up \in [Slots -> Seq(Nat)]
    BY <1>1 DEF Shapes
  <2>2. up'[cur] = Append(up[cur], spos) /\ \A s \in Slots : s # cur => up'[s] = up[s]
    BY <1>3, <1>4, <2>1
  <2>3. /\ up'[cur] \in Seq(Nat) /\ Len(up'[cur]) = Len(up[cur]) + 1 /\ Len(up[cur]) \in Nat
        /\ \A i \in 1 .. Len(up[cur]) : up'[cur][i] = up[cur][i]
        /\ up'[cur][Len(up[cur]) + 1] = spos
    BY <1>3, <1>4, <2>2, Appended
  <2>4. up' \in [Slots -> Seq(Nat)]
    BY <1>4, <2>1, <2>2, <2>3
  <2> QED
    BY <2>2, <2>3, <2>4
<1>6. TypeOK'
  <2>1. {window, live, inEof, create, established, late, exit}' \subseteq BOOLEAN
    BY <1>1, <1>2 DEF TypeOK
  <2>2. spos' \in 0 .. inEnd
    BY <1>2, <1>3
  <2> QED
    BY <1>1, <1>2, <2>1, <2>2 DEF TypeOK
<1>7. Shapes'
  BY <1>1, <1>2, <1>5 DEF Shapes
<1>8. Attempt'
  BY <1>1, <1>2, <1>3 DEF Attempt, Flowing
<1>9. ASSUME NEW s \in Slots PROVE Behind(s)'
  BY <1>1, <1>2, <1>3, <1>5 DEF Behind
<1>10. Input'
  <2>1. stdin = "open" => spos = pos + Len(up[cur])
    BY <1>1, <1>2 DEF Input
  <2>2. stdin = "open" => spos' = pos + Len(up'[cur])
    BY <1>2, <1>3, <1>5, <2>1
  <2>3. stdin = "open" => \A s \in Slots : \A i \in 1 .. Len(up'[s]) :
          up'[s][i] = pos + i - 1 /\ up'[s][i] < inEnd
    <3> SUFFICES ASSUME stdin = "open", NEW s \in Slots, NEW i \in 1 .. Len(up'[s])
                 PROVE  up'[s][i] = pos + i - 1 /\ up'[s][i] < inEnd
        OBVIOUS
    <3>1. CASE s # cur
      BY <1>1, <1>5, <3>1 DEF Input
    <3>2. CASE s = cur /\ i \in 1 .. Len(up[cur])
      BY <1>1, <1>3, <1>5, <3>2 DEF Input
    <3>3. CASE s = cur /\ i = Len(up[cur]) + 1
      <4>1. up'[s][i] = spos /\ spos = pos + Len(up[cur])
        BY <1>5, <2>1, <3>3
      <4> QED
        BY <1>2, <1>3, <1>5, <3>3, <4>1
    <3> QED
      BY <1>5, <3>1, <3>2, <3>3
  <2>4. InputOnce'
    BY <1>1, <1>2 DEF Input, InputOnce, StdinClosed
  <2> QED
    BY <1>1, <1>2, <2>2, <2>3, <2>4 DEF Input
<1> QED
  BY <1>2, <1>6, <1>7, <1>8, <1>9, <1>10, Frames DEF WrapperInv

(* The wrapper writes the next byte, and counts it.                         *)
LEMMA CopyStep ==
    ASSUME WrapperInv, Copy
    PROVE  WrapperInv'
<1> DEFINE d == down[cur]
           n == Len(got) + 1
<1>1. /\ TypeOK /\ Shapes /\ Attempt /\ Input /\ Written /\ Flow /\ Final
      /\ \A s \in Slots : Behind(s)
  BY DEF WrapperInv
<1>2. /\ w \in {"stream", "drain"} /\ d # <<>>
      /\ got' = Append(got, Head(d))
      /\ down' = [down EXCEPT ![cur] = Tail(d)]
      /\ delivered' = delivered + 1
      /\ UNCHANGED <<window, live, inEnd, inEof, base, w, cur, create, established, told,
                     declared, spos, ctl, link, px, ask, reply, up, sent, late, session, epoch, pos,
                     eofAt, outEnd, exit, holder, stdin, wrote, breaks, noisy>>
  BY DEF Copy, modes, local, broker, bounds
<1>3. /\ cur \in Slots /\ cur # NoSlot /\ px[cur] \in {"attached", "none"} /\ d \in Seq(Bytes)
      /\ Flowing /\ Flowing' /\ w # "opening"
  BY <1>2, Current DEF Flowing
<1>4. delivered \in Nat /\ At = delivered /\ At' = delivered + 1
  BY <1>1, <1>2, <1>3 DEF At, TypeOK
<1>5. /\ down'[cur] = Tail(d) /\ \A s \in Slots : s # cur => down'[s] = down[s]
      /\ down \in [Slots -> Seq(Bytes)] /\ got \in Seq(Bytes)
  BY <1>1, <1>2, <1>3 DEF Shapes
<1>6. /\ down'[cur] \in Seq(Bytes) /\ Len(down'[cur]) = Len(d) - 1
      /\ \A i \in 1 .. Len(d) - 1 : down'[cur][i] = d[i + 1]
      /\ Head(d) = d[1] /\ d[1] \in Bytes
      /\ Len(d) \in Nat /\ Len(d) > 0
  BY <1>2, <1>3, <1>5, Shifted
<1>7. /\ got' \in Seq(Bytes) /\ Len(got') = n /\ Len(got) \in Nat
      /\ \A i \in 1 .. Len(got) : got'[i] = got[i]
      /\ got'[n] = d[1]
  BY <1>2, <1>5, <1>6, Appended
<1>8. down' \in [Slots -> Seq(Bytes)]
  BY <1>2, <1>5, <1>6
<1>9. delivered + Len(d) <= outEnd + (Breaks - breaks)
  BY <1>1, <1>3, <1>4 DEF Flow, Spare
<1>10. delivered + 1 <= outEnd + (Breaks - breaks)
  <2>1. outEnd \in Int /\ Breaks - breaks \in Int
    BY <1>1, WrapperAssumption DEF TypeOK
  <2> QED
    BY <1>4, <1>6, <1>9, <2>1
<1>11. TypeOK'
  <2>1. {window, live, inEof, create, established, late, exit}' \subseteq BOOLEAN
    BY <1>1, <1>2 DEF TypeOK
  <2>2. delivered' \in 0 .. MaxOut + Breaks
    <3>1. /\ outEnd \in Int /\ outEnd <= MaxOut /\ breaks \in Nat /\ MaxOut \in Int /\ Breaks \in Int
      BY <1>1, WrapperAssumption DEF TypeOK
    <3>2. delivered + 1 <= MaxOut + Breaks
      BY <1>4, <1>10, <3>1
    <3> QED
      BY <1>2, <1>4, <3>1, <3>2
  <2> QED
    BY <1>1, <1>2, <2>1, <2>2 DEF TypeOK
<1>12. Shapes'
  BY <1>1, <1>2, <1>7, <1>8 DEF Shapes
<1>13. ASSUME NEW s \in Slots PROVE Behind(s)'
  BY <1>1, <1>2, <1>3, <1>5 DEF Behind
(* The byte that is written now comes behind those that were.               *)
<1>14. \A i \in Real' : \/ i \in Real /\ got'[i] = got[i] /\ i < n
                        \/ i = n /\ got'[i] = d[1] /\ d[1] # Diagnostic
  <2> SUFFICES ASSUME NEW i \in Real'
               PROVE  \/ i \in Real /\ got'[i] = got[i] /\ i < n
                      \/ i = n /\ got'[i] = d[1] /\ d[1] # Diagnostic
      OBVIOUS
  <2>1. i \in 1 .. n /\ got'[i] # Diagnostic
    BY <1>7 DEF Real
  <2>2. CASE i = n
    BY <1>7, <2>1, <2>2
  <2>3. CASE i # n
    <3>1. i \in 1 .. Len(got) /\ i < n
      BY <1>7, <2>1, <2>3
    <3> QED
      BY <1>7, <2>1, <3>1 DEF Real
  <2> QED
    BY <2>2, <2>3
<1>15. d[1] # Diagnostic => /\ d[1][1] = epoch /\ d[1][2] \in Nat /\ d[1][2] < delivered + 1
                           /\ \A j \in Real : got[j][2] < d[1][2]
  BY <1>1, <1>3, <1>4, <1>6 DEF Flow
<1>16. \A i \in Real : got[i][1] = epoch /\ got[i][2] \in Nat /\ got[i][2] < delivered
  BY <1>1 DEF Written
<1>17. \A i \in Real' : got'[i][1] = epoch /\ got'[i][2] \in Nat /\ got'[i][2] < delivered'
  <2> SUFFICES ASSUME NEW i \in Real'
               PROVE  got'[i][1] = epoch /\ got'[i][2] \in Nat /\ got'[i][2] < delivered'
      OBVIOUS
  <2>1. CASE i \in Real /\ got'[i] = got[i]
    <3>1. got[i][1] = epoch /\ got[i][2] \in Nat /\ got[i][2] < delivered
      BY <1>16, <2>1
    <3>2. got[i][2] < delivered + 1
      BY <1>4, <3>1
    <3> QED
      BY <1>2, <2>1, <3>1, <3>2
  <2>2. CASE got'[i] = d[1] /\ d[1] # Diagnostic
    BY <1>2, <1>4, <1>15, <2>2
  <2> QED
    BY <1>14, <2>1, <2>2
<1>18. \A i, j \in Real' : i < j => got'[i][2] < got'[j][2]
  <2> SUFFICES ASSUME NEW i \in Real', NEW j \in Real', i < j
               PROVE  got'[i][2] < got'[j][2]
      OBVIOUS
  <2>1. CASE j \in Real /\ got'[j] = got[j] /\ j < n
    <3>1. i \in Real /\ got'[i] = got[i]
      BY <1>7, <1>14, <2>1 DEF Real
    <3> QED
      BY <1>1, <2>1, <3>1 DEF Written, OutputOnce
  <2>2. CASE j = n /\ got'[j] = d[1] /\ d[1] # Diagnostic
    <3>1. i \in Real /\ got'[i] = got[i]
      BY <1>7, <1>14, <2>2 DEF Real
    <3> QED
      BY <1>15, <2>2, <3>1
  <2> QED
    BY <1>14, <2>1, <2>2
<1>19. ~live /\ ~noisy => Len(got') = delivered' /\ \A i \in 1 .. Len(got') : got'[i][2] = i - 1
  <2> SUFFICES ASSUME ~live, ~noisy
               PROVE  Len(got') = delivered' /\ \A i \in 1 .. Len(got') : got'[i][2] = i - 1
      OBVIOUS
  <2>1. Len(got) = delivered /\ \A i \in 1 .. Len(got) : got[i][2] = i - 1
    BY <1>1 DEF Written, OutputOnce
  <2>2. d[1] = <<epoch, delivered + 1 - 1>>
    BY <1>1, <1>3, <1>4, <1>6 DEF Flow
  <2>3. d[1][2] = delivered
    BY <1>4, <2>2
  <2> QED
    BY <1>2, <1>4, <1>7, <2>1, <2>3
<1>20. ~noisy => delivered' <= outEnd
  <2> SUFFICES ASSUME ~noisy PROVE delivered + 1 <= outEnd
      BY <1>2
  <2>1. delivered + Len(d) <= outEnd /\ outEnd \in Int
    BY <1>1, <1>3, <1>4 DEF Flow, TypeOK
  <2> QED
    BY <1>4, <1>6, <2>1
<1>21. Written'
  <2>1. OutputOnce'
    BY <1>2, <1>17, <1>18, <1>19 DEF OutputOnce
  <2> QED
    BY <1>2, <1>3, <1>10, <1>17, <1>19, <1>20, <2>1 DEF Written, Spare
<1>22. At' + Len(down'[cur]) = At + Len(d) /\ At' \in Nat
  <2>1. delivered \in Int /\ delivered + 1 \in Nat
    BY <1>1 DEF TypeOK
  <2>2. Len(d) \in Int
    BY <1>6
  <2>3. (delivered + 1) + (Len(d) - 1) = delivered + Len(d)
    BY <2>1, <2>2, Shift
  <2> QED
    BY <1>4, <1>6, <2>1, <2>3
<1>23. \A i \in 1 .. Len(down'[cur]) :
          i + 1 \in 1 .. Len(d) /\ down'[cur][i] = d[i + 1] /\ i \in Nat
  BY <1>6
<1>24. \A i \in 1 .. Len(down'[cur]) : down'[cur][i] # Diagnostic =>
              /\ down'[cur][i][1] = epoch /\ down'[cur][i][2] \in Nat /\ down'[cur][i][2] < At' + i
              /\ \A j \in 1 .. i - 1 : down'[cur][j] # Diagnostic => down'[cur][j][2] < down'[cur][i][2]
              /\ \A j \in Real' : got'[j][2] < down'[cur][i][2]
  <2> SUFFICES ASSUME NEW i \in 1 .. Len(down'[cur]), down'[cur][i] # Diagnostic
               PROVE  /\ down'[cur][i][1] = epoch /\ down'[cur][i][2] \in Nat
                      /\ down'[cur][i][2] < At' + i
                      /\ \A j \in 1 .. i - 1 : down'[cur][j] # Diagnostic
                                                  => down'[cur][j][2] < down'[cur][i][2]
                      /\ \A j \in Real' : got'[j][2] < down'[cur][i][2]
      OBVIOUS
  <2>1. i + 1 \in 1 .. Len(d) /\ down'[cur][i] = d[i + 1] /\ d[i + 1] # Diagnostic /\ i \in Nat
    BY <1>23
  <2>2. /\ d[i + 1][1] = epoch /\ d[i + 1][2] \in Nat /\ d[i + 1][2] < At + (i + 1)
        /\ \A j \in 1 .. i + 1 - 1 : d[j] # Diagnostic => d[j][2] < d[i + 1][2]
        /\ \A j \in Real : got[j][2] < d[i + 1][2]
    BY <1>1, <1>3, <2>1 DEF Flow
  <2>3. down'[cur][i][2] < At' + i
    BY <1>4, <2>1, <2>2
  <2>4. ASSUME NEW j \in 1 .. i - 1, down'[cur][j] # Diagnostic PROVE down'[cur][j][2] < down'[cur][i][2]
    <3>1. j \in 1 .. Len(down'[cur]) /\ j + 1 \in 1 .. i + 1 - 1
      BY <1>6, <2>1
    <3>2. down'[cur][j] = d[j + 1]
      BY <1>23, <3>1
    <3> QED
      BY <2>1, <2>2, <2>4, <3>1, <3>2
  <2>5. ASSUME NEW j \in Real' PROVE got'[j][2] < down'[cur][i][2]
    <3>1. CASE j \in Real /\ got'[j] = got[j]
      BY <2>1, <2>2, <3>1
    <3>2. CASE got'[j] = d[1] /\ d[1] # Diagnostic
      <4>1. 1 \in 1 .. i + 1 - 1
        BY <2>1
      <4> QED
        BY <2>1, <2>2, <3>2, <4>1
    <3> QED
      BY <1>14, <3>1, <3>2
  <2> QED
    BY <2>1, <2>2, <2>3, <2>4, <2>5
<1>25. ~noisy => \A i \in 1 .. Len(down'[cur]) : down'[cur][i] = <<epoch, At' + i - 1>>
  <2> SUFFICES ASSUME ~noisy, NEW i \in 1 .. Len(down'[cur])
               PROVE  down'[cur][i] = <<epoch, At' + i - 1>>
      OBVIOUS
  <2>1. i + 1 \in 1 .. Len(d) /\ down'[cur][i] = d[i + 1] /\ i \in Nat
    BY <1>23
  <2>2. d[i + 1] = <<epoch, At + (i + 1) - 1>>
    BY <1>1, <1>3, <2>1 DEF Flow
  <2>3. At + (i + 1) - 1 = At' + i - 1
    BY <1>4, <2>1
  <2> QED
    BY <2>1, <2>2, <2>3
<1>26. link[cur] = "up" =>
              /\ sent[cur] <= At + Len(d) /\ At + Len(d) <= sent[cur] + Spare
              /\ ~noisy => sent[cur] = At + Len(d)
              /\ \A i \in 1 .. Len(d) : d[i] # Diagnostic => d[i][2] < sent[cur]
              /\ \A j \in Real : got[j][2] < sent[cur]
  BY <1>1, <1>3 DEF Flow
<1>27. link[cur] = "up" =>
              /\ \A i \in 1 .. Len(down'[cur]) : down'[cur][i] # Diagnostic => down'[cur][i][2] < sent[cur]
              /\ \A j \in Real' : got'[j][2] < sent[cur]
  <2> SUFFICES ASSUME link[cur] = "up"
               PROVE  /\ \A i \in 1 .. Len(down'[cur]) : down'[cur][i] # Diagnostic
                                                           => down'[cur][i][2] < sent[cur]
                      /\ \A j \in Real' : got'[j][2] < sent[cur]
      OBVIOUS
  <2>1. ASSUME NEW i \in 1 .. Len(down'[cur]), down'[cur][i] # Diagnostic
        PROVE  down'[cur][i][2] < sent[cur]
    BY <1>23, <1>26, <2>1
  <2>2. ASSUME NEW j \in Real' PROVE got'[j][2] < sent[cur]
    <3>1. 1 \in 1 .. Len(d)
      BY <1>6
    <3> QED
      BY <1>14, <1>26, <3>1
  <2> QED
    BY <2>1, <2>2
<1>28. Flow'
  <2>1. Spare' = Spare /\ ~(w' = "opening")
    BY <1>2, <1>3 DEF Spare
  <2>2. At + Len(d) <= outEnd + Spare /\ (~noisy => At + Len(d) <= outEnd)
    BY <1>1, <1>3 DEF Flow
  <2> QED
    BY <1>2, <1>22, <1>24, <1>25, <1>26, <1>27, <2>1, <2>2 DEF Flow
<1>29. Attempt' /\ Sole' /\ Input'
  BY <1>2, Frames
<1>30. Final'
  BY <1>1, <1>2 DEF Final, ExitComplete
<1> QED
  BY <1>11, <1>12, <1>13, <1>21, <1>28, <1>29, <1>30 DEF WrapperInv

(* A byte joins what is under way to the wrapper: one of the transport's    *)
(* own, or the next one of the command's output.                            *)
Joins(b) ==
    /\ link[cur] = "up" /\ b \in Bytes
    /\ down' = [down EXCEPT ![cur] = Append(@, b)]
    /\ \/ /\ b = Diagnostic /\ w = "stream" /\ noisy' = TRUE
          /\ breaks > 0 /\ breaks' = breaks - 1
          /\ UNCHANGED sent
       \/ /\ b = <<epoch, sent[cur]>> /\ sent[cur] < outEnd
          /\ sent' = [sent EXCEPT ![cur] = @ + 1]
          /\ UNCHANGED <<noisy, breaks>>
    /\ UNCHANGED <<window, live, inEnd, inEof, base, w, cur, create, established, delivered, told,
                   declared, spos, ctl, link, px, ask, reply, up, late, session, epoch, pos, eofAt,
                   outEnd, exit, holder, stdin, wrote, got>>

LEMMA JoinStep ==
    ASSUME WrapperInv, NEW b, Joins(b), cur \in Slots, px[cur] = "attached"
    PROVE  WrapperInv'
<1> DEFINE d == down[cur]
           n == Len(d) + 1
<1>1. /\ TypeOK /\ Shapes /\ Attempt /\ Input /\ Written /\ Flow /\ Final
      /\ \A s \in Slots : Behind(s)
      /\ cur \in Slots /\ cur # NoSlot /\ px[cur] = "attached" /\ link[cur] = "up"
      /\ sent[cur] \in 0 .. outEnd /\ outEnd \in 0 .. MaxOut
  BY WrapperAssumption DEF WrapperInv, Joins, TypeOK
<1>2. UNCHANGED <<window, live, inEnd, inEof, base, w, cur, create, established, delivered, told,
                  declared, spos, ctl, link, px, ask, reply, up, late, session, epoch, pos, eofAt,
                  outEnd, exit, holder, stdin, wrote, got>>
  BY DEF Joins
<1>3. /\ down' \in [Slots -> Seq(Bytes)] /\ \A s \in Slots : s # cur => down'[s] = down[s]
      /\ down'[cur] \in Seq(Bytes) /\ Len(down'[cur]) = n /\ Len(d) \in Nat
      /\ \A i \in 1 .. Len(d) : down'[cur][i] = d[i]
      /\ down'[cur][n] = b
  <2>1. /\ down \in [Slots -> Seq(Bytes)] /\ d \in Seq(Bytes) /\ b \in Bytes
        /\ down' = [down EXCEPT ![cur] = Append(d, b)]
    BY <1>1 DEF Shapes, Joins
  <2>2. down'[cur] = Append(d, b) /\ \A s \in Slots : s # cur => down'[s] = down[s]
    BY <1>1, <2>1
  <2>3. /\ down'[cur] \in Seq(Bytes) /\ Len(down'[cur]) = n /\ Len(d) \in Nat
        /\ \A i \in 1 .. Len(d) : down'[cur][i] = d[i]
        /\ down'[cur][n] = b
    BY <2>1, <2>2, Appended
  <2>4. down' \in [Slots -> Seq(Bytes)]
    BY <2>1, <2>2, <2>3
  <2> QED
    BY <2>2, <2>3, <2>4
<1>4. /\ noisy' \in BOOLEAN /\ breaks' \in 0 .. Breaks /\ (~noisy' => ~noisy)
      /\ breaks' <= breaks
  <2>1. noisy \in BOOLEAN /\ breaks \in 0 .. Breaks /\ Breaks \in Nat
    BY <1>1, WrapperAssumption DEF TypeOK
  <2>2. CASE noisy' = TRUE /\ breaks > 0 /\ breaks' = breaks - 1
    BY <2>1, <2>2
  <2>3. CASE UNCHANGED <<noisy, breaks>>
    BY <2>1, <2>3
  <2> QED
    BY <2>2, <2>3 DEF Joins
<1>5. /\ sent' \in [Slots -> 0 .. outEnd] /\ sent'[cur] \in Nat /\ sent[cur] <= sent'[cur]
      /\ \A s \in Slots : s # cur => sent'[s] = sent[s]
  <2>1. sent \in [Slots -> 0 .. outEnd]
    BY <1>1 DEF TypeOK
  <2>2. CASE sent' = sent
    BY <1>1, <2>1, <2>2
  <2>3. CASE sent[cur] < outEnd /\ sent' = [sent EXCEPT ![cur] = sent[cur] + 1]
    <3>1. sent[cur] + 1 \in 0 .. outEnd
      BY <1>1, <2>3
    <3>2. sent'[cur] = sent[cur] + 1 /\ \A s \in Slots : s # cur => sent'[s] = sent[s]
      BY <1>1, <2>1, <2>3
    <3>3. sent' \in [Slots -> 0 .. outEnd]
      BY <2>1, <2>3, <3>1
    <3> QED
      BY <1>1, <3>1, <3>2, <3>3
  <2> QED
    BY <2>2, <2>3 DEF Joins
<1>6. TypeOK'
  <2>1. {window, live, inEof, create, established, late, exit}' \subseteq BOOLEAN
    BY <1>1, <1>2 DEF TypeOK
  <2> QED
    BY <1>1, <1>2, <1>4, <1>5, <2>1 DEF TypeOK
<1>7. Shapes'
  BY <1>1, <1>2, <1>3 DEF Shapes
<1>8. ASSUME NEW s \in Slots PROVE Behind(s)'
  BY <1>1, <1>2, <1>3, <1>5 DEF Behind
<1>9. /\ delivered \in Int /\ outEnd \in Int /\ Breaks \in Int /\ breaks \in Int
      /\ breaks' \in Int /\ breaks' <= breaks
  BY <1>1, <1>4, WrapperAssumption DEF TypeOK
<1>10. Written'
  <2>1. OutputOnce' /\ Real' = Real
    <3>1. Real' = Real
      BY <1>2 DEF Real
    <3>2. OutputOnce
      BY <1>1 DEF Written
    <3>3. ~live' /\ ~noisy' => \A i \in 1 .. Len(got') : got'[i][2] = i - 1
      BY <1>2, <1>4, <3>2 DEF OutputOnce
    <3> QED
      BY <1>2, <3>1, <3>2, <3>3 DEF OutputOnce
  <2>2. delivered <= outEnd + (Breaks - breaks')
    <3>1. delivered <= outEnd + (Breaks - breaks)
      BY <1>1 DEF Written, Spare
    <3> QED
      BY <3>1, <1>9, Slack
  <2>3. ~live' /\ ~noisy' => Len(got') = delivered'
    BY <1>1, <1>2, <1>4 DEF Written
  <2>4. ~noisy' => delivered' <= outEnd'
    BY <1>1, <1>2, <1>4 DEF Written
  <2> QED
    BY <1>1, <1>2, <2>1, <2>2, <2>3, <2>4 DEF Written, Spare
<1>11. Flow'
  <2> SUFFICES ASSUME Flowing' PROVE Flow'
      BY DEF Flow
  <2>1. Flowing /\ At' = At /\ Real' = Real
    BY <1>2 DEF Flowing, At, Real
  <2>2. /\ At \in Nat
        /\ sent[cur] <= At + Len(d) /\ At + Len(d) <= sent[cur] + (Breaks - breaks)
    BY <1>1, <2>1 DEF Flow, Spare
  <2>3. ~noisy => sent[cur] = At + Len(d) /\ \A i \in 1 .. Len(d) : d[i] = <<epoch, At + i - 1>>
    BY <1>1, <2>1 DEF Flow
  <2>4. /\ \A i \in 1 .. Len(d) : d[i] # Diagnostic =>
              /\ d[i][1] = epoch /\ d[i][2] \in Nat /\ d[i][2] < At + i
              /\ \A j \in 1 .. i - 1 : d[j] # Diagnostic => d[j][2] < d[i][2]
              /\ IF w = "opening" THEN At <= d[i][2] ELSE \A j \in Real : got[j][2] < d[i][2]
              /\ d[i][2] < sent[cur]
        /\ IF w = "opening" THEN At <= sent[cur] ELSE \A j \in Real : got[j][2] < sent[cur]
    BY <1>1, <2>1 DEF Flow
  (* Where the two ends stand, by the kind of the byte.                     *)
  <2>5. /\ sent'[cur] <= At + n /\ At + n <= sent'[cur] + (Breaks - breaks')
        /\ ~noisy' => sent'[cur] = At + n
    <3>1. /\ At \in Int /\ Len(d) \in Int /\ sent[cur] \in Int /\ sent'[cur] \in Int
      BY <1>1, <1>3, <1>5, <2>2
    <3>2. CASE noisy' = TRUE /\ breaks' = breaks - 1 /\ sent' = sent
      BY <1>9, <2>2, <3>1, <3>2
    <3>3. CASE /\ sent' = [sent EXCEPT ![cur] = sent[cur] + 1] /\ UNCHANGED <<noisy, breaks>>
      <4>1. sent'[cur] = sent[cur] + 1 /\ breaks' = breaks
        BY <1>1, <3>3 DEF TypeOK
      <4>2. sent'[cur] <= At + n /\ At + n <= sent'[cur] + (Breaks - breaks')
        BY <1>9, <2>2, <3>1, <4>1
      <4>3. ASSUME ~noisy' PROVE sent'[cur] = At + n
        <5>1. sent[cur] = At + Len(d)
          BY <2>3, <3>3, <4>3
        <5> QED
          BY <3>1, <4>1, <5>1
      <4> QED
        BY <4>2, <4>3
    <3> QED
      BY <3>2, <3>3 DEF Joins
  <2>6. At + n <= outEnd + (Breaks - breaks') /\ (~noisy' => At + n <= outEnd)
    <3>1. sent'[cur] \in Int /\ sent'[cur] <= outEnd /\ At + n \in Int
      BY <1>1, <1>3, <1>5, <2>2
    <3>2. At + n <= outEnd + (Breaks - breaks')
      BY <1>9, <2>5, <3>1
    <3>3. ASSUME ~noisy' PROVE At + n <= outEnd
      BY <1>9, <2>5, <3>1, <3>3
    <3> QED
      BY <3>2, <3>3
  <2>7. b # Diagnostic => b = <<epoch, sent[cur]>> /\ sent'[cur] = sent[cur] + 1
    BY <1>1 DEF Joins, TypeOK
  <2>8. \A i \in 1 .. n : \/ i \in 1 .. Len(d) /\ down'[cur][i] = d[i]
                          \/ i = n /\ down'[cur][i] = b
    BY <1>3
  <2>9. \A i \in 1 .. n : down'[cur][i] # Diagnostic =>
              /\ down'[cur][i][1] = epoch /\ down'[cur][i][2] \in Nat /\ down'[cur][i][2] < At + i
              /\ \A j \in 1 .. i - 1 : down'[cur][j] # Diagnostic => down'[cur][j][2] < down'[cur][i][2]
              /\ IF w = "opening" THEN At <= down'[cur][i][2]
                 ELSE \A j \in Real : got[j][2] < down'[cur][i][2]
              /\ down'[cur][i][2] < sent'[cur]
    <3> SUFFICES ASSUME NEW i \in 1 .. n, down'[cur][i] # Diagnostic
                 PROVE  /\ down'[cur][i][1] = epoch /\ down'[cur][i][2] \in Nat
                        /\ down'[cur][i][2] < At + i
                        /\ \A j \in 1 .. i - 1 : down'[cur][j] # Diagnostic
                                                    => down'[cur][j][2] < down'[cur][i][2]
                        /\ IF w = "opening" THEN At <= down'[cur][i][2]
                           ELSE \A j \in Real : got[j][2] < down'[cur][i][2]
                        /\ down'[cur][i][2] < sent'[cur]
        OBVIOUS
    <3>1. \A j \in 1 .. i - 1 : j \in 1 .. Len(d) /\ down'[cur][j] = d[j]
      BY <1>3
    <3>2. CASE i \in 1 .. Len(d) /\ down'[cur][i] = d[i]
      <4>1. /\ d[i][1] = epoch /\ d[i][2] \in Nat /\ d[i][2] < At + i /\ d[i][2] < sent[cur]
            /\ \A j \in 1 .. i - 1 : d[j] # Diagnostic => d[j][2] < d[i][2]
            /\ IF w = "opening" THEN At <= d[i][2] ELSE \A j \in Real : got[j][2] < d[i][2]
        BY <2>4, <3>2
      <4>2. d[i][2] < sent'[cur]
        BY <1>1, <1>5, <4>1
      <4> QED
        BY <3>1, <3>2, <4>1, <4>2
    <3>3. CASE i = n /\ down'[cur][i] = b
      <4>1. down'[cur][i] = <<epoch, sent[cur]>> /\ sent'[cur] = sent[cur] + 1
        BY <2>7, <3>3
      <4>2. /\ down'[cur][i][1] = epoch /\ down'[cur][i][2] = sent[cur] /\ sent[cur] \in Nat
            /\ sent[cur] < sent'[cur]
        BY <1>1, <4>1
      <4>3. sent[cur] < At + i
        BY <1>1, <1>3, <2>2, <3>3
      <4>4. \A j \in 1 .. i - 1 : down'[cur][j] # Diagnostic => down'[cur][j][2] < down'[cur][i][2]
        BY <2>4, <3>1, <4>2
      <4> QED
        BY <2>4, <4>2, <4>3, <4>4
    <3> QED
      BY <2>8, <3>2, <3>3
  <2>10. ~noisy' => \A i \in 1 .. n : down'[cur][i] = <<epoch, At + i - 1>>
    <3> SUFFICES ASSUME ~noisy', NEW i \in 1 .. n PROVE down'[cur][i] = <<epoch, At + i - 1>>
        OBVIOUS
    <3>1. ~noisy
      BY <1>4
    <3>2. CASE i \in 1 .. Len(d) /\ down'[cur][i] = d[i]
      BY <2>3, <3>1, <3>2
    <3>3. CASE i = n /\ down'[cur][i] = b
      <4>1. b = <<epoch, sent[cur]>> /\ sent[cur] = At + Len(d)
        BY <2>3, <3>1 DEF Joins
      <4>2. At + i - 1 = At + Len(d)
        BY <1>3, <2>2, <3>3
      <4> QED
        BY <3>3, <4>1, <4>2
    <3> QED
      BY <2>8, <3>2, <3>3
  <2>11. IF w = "opening" THEN At <= sent'[cur] ELSE \A j \in Real : got[j][2] < sent'[cur]
    <3>1. \A j \in Real : got[j][2] \in Nat
      BY <1>1 DEF Written
    <3> QED
      BY <1>1, <1>5, <2>2, <2>4, <3>1
  <2> QED
    BY <1>2, <1>3, <2>1, <2>2, <2>5, <2>6, <2>9, <2>10, <2>11 DEF Flow, Spare
<1>12. Final'
  <2>1. w # "exited"
    BY <1>1 DEF Attempt
  <2> QED
    BY <1>1, <1>2, <2>1 DEF Final, ExitComplete
<1>13. Attempt' /\ Sole' /\ Input'
  BY <1>2, Frames
<1> QED
  BY <1>6, <1>7, <1>8, <1>10, <1>11, <1>12, <1>13 DEF WrapperInv

LEMMA DiagnoseStep ==
    ASSUME WrapperInv, NEW s \in Slots, Diagnose(s)
    PROVE  WrapperInv'
<1>1. s = cur /\ w = "stream" /\ Flowing /\ link[cur] = "up" /\ cur \in Slots
  BY DEF Diagnose, Flowing
<1>2. px[cur] = "attached"
  BY <1>1, Current
<1>3. Diagnostic \in Bytes
  BY DEF Diagnostic, Bytes, None
<1> QED
  BY <1>1, <1>2, <1>3, JoinStep DEF Diagnose, Joins, modes, local, wrapper, broker

LEMMA PassOutputStep ==
    ASSUME WrapperInv, NEW s \in Slots, PassOutput(s)
    PROVE  WrapperInv'
<1>1. Behind(s) /\ TypeOK
  BY DEF WrapperInv
<1>2. s = cur /\ px[cur] = "attached" /\ link[cur] = "up"
  BY <1>1 DEF PassOutput, Proxying, Behind
<1>3. <<epoch, sent[cur]>> \in Bytes
  BY <1>1, <1>2, WrapperAssumption DEF Bytes, TypeOK
<1> QED
  BY <1>2, <1>3, JoinStep DEF PassOutput, Joins, modes, local, wrapper, broker, bounds

-----------------------------------------------------------------------------
(* The one that holds the attachment passes the next byte of input on.      *)
LEMMA PassInputStep ==
    ASSUME WrapperInv, NEW s \in Slots, PassInput(s)
    PROVE  WrapperInv'
<1> DEFINE u == up[s]
           n == Len(wrote) + 1
<1>1. /\ TypeOK /\ Shapes /\ Attempt /\ Input /\ \A r \in Slots : Behind(r)
      /\ px[s] = "attached" /\ u # <<>> /\ u \in Seq(Nat) /\ up \in [Slots -> Seq(Nat)]
      /\ wrote \in Seq(Nat \X Nat)
      /\ pos \in Nat /\ inEnd \in Nat /\ pos <= inEnd
  <2>1. TypeOK /\ Shapes /\ Attempt /\ Input /\ \A r \in Slots : Behind(r)
    BY DEF WrapperInv
  <2>2. px[s] = "attached" /\ u # <<>>
    BY DEF PassInput, Proxying
  <2>3. pos \in Nat /\ inEnd \in Nat /\ pos <= inEnd
    BY <2>1 DEF TypeOK
  <2> QED
    BY <2>1, <2>2, <2>3 DEF Shapes
<1>2. /\ up' = [up EXCEPT ![s] = Tail(u)]
      /\ UNCHANGED <<window, live, inEnd, inEof, base, w, cur, create, established, delivered, told,
                     declared, spos, ctl, link, px, ask, reply, down, sent, late, session, epoch, eofAt,
                     outEnd, exit, holder, stdin, got, breaks, noisy>>
  BY DEF PassInput, modes, local, wrapper, bounds
<1>3. /\ up'[s] = Tail(u) /\ \A r \in Slots : r # s => up'[r] = up[r]
      /\ up' \in [Slots -> Seq(Nat)]
      /\ Len(up'[s]) = Len(u) - 1 /\ Len(u) \in Nat /\ Len(u) > 0
      /\ \A i \in 1 .. Len(u) - 1 : up'[s][i] = u[i + 1]
      /\ Head(u) = u[1] /\ Head(u) \in Nat
  <2>1. up'[s] = Tail(u) /\ \A r \in Slots : r # s => up'[r] = up[r]
    BY <1>1, <1>2
  <2>2. /\ Tail(u) \in Seq(Nat) /\ Len(Tail(u)) = Len(u) - 1 /\ Len(u) \in Nat /\ Len(u) > 0
        /\ \A i \in 1 .. Len(u) - 1 : Tail(u)[i] = u[i + 1]
        /\ Head(u) = u[1] /\ Head(u) \in Nat
    BY <1>1, Shifted
  <2> QED
    BY <1>1, <1>2, <2>1, <2>2
<1>4. \A r \in Slots : r # s => px[r] # "attached" /\ up[r] = <<>> /\ Len(up[r]) = 0
  BY <1>1, Nothing DEF Behind
<1>5. cur = s => w # "opening"
  BY <1>1, WrapperAssumption DEF Attempt
(* What reaches the command is the byte at the session's position.          *)
<1>6. \/ /\ stdin = "open" /\ pos' = pos + 1 /\ pos' <= inEnd
         /\ wrote' = Append(wrote, <<pos, pos>>)
      \/ stdin # "open" /\ pos' = pos /\ wrote' = wrote
  <2>1. CASE stdin = "open"
    <3>1. u[1] = pos + 1 - 1 /\ u[1] < inEnd
      BY <1>1, <1>3, <2>1 DEF Input
    <3>2. Head(u) = pos /\ pos < inEnd
      BY <1>1, <1>3, <3>1
    <3> QED
      BY <1>1, <2>1, <3>2 DEF PassInput
  <2>2. CASE stdin # "open"
    BY <2>2 DEF PassInput
  <2> QED
    BY <2>1, <2>2
<1>7. pos' \in Nat /\ pos' \in 0 .. inEnd /\ pos <= pos'
  BY <1>1, <1>6
<1>8. TypeOK'
  <2>1. {window, live, inEof, create, established, late, exit}' \subseteq BOOLEAN
    BY <1>1, <1>2 DEF TypeOK
  <2> QED
    BY <1>1, <1>2, <1>7, <2>1 DEF TypeOK
<1>9. wrote' \in Seq(Nat \X Nat)
  <2>1. <<pos, pos>> \in Nat \X Nat
    BY <1>1
  <2>2. Append(wrote, <<pos, pos>>) \in Seq(Nat \X Nat)
    BY <1>1, <2>1, Appended
  <2> QED
    BY <1>1, <1>6, <2>2
<1>10. Shapes'
  BY <1>1, <1>2, <1>3, <1>9 DEF Shapes
<1>11. Attempt'
  <2>1. w = "opening" => up'[cur] = <<>>
    BY <1>1, <1>3, <1>5, WrapperAssumption DEF Attempt, TypeOK
  <2> QED
    BY <1>1, <1>2, <2>1 DEF Attempt, Flowing
<1>12. ASSUME NEW r \in Slots PROVE Behind(r)'
  BY <1>1, <1>2, <1>3 DEF Behind
<1>13. Input'
  <2>1. eofAt # None => inEof /\ eofAt = inEnd
    BY <1>1 DEF Input
  <2>2. StdinClosed' => inEof' /\ pos' = inEnd'
    BY <1>2, <1>7, <2>1 DEF StdinClosed, None
  <2>3. InputOnce /\ \A i \in 1 .. Len(wrote) : wrote[i][2] \in Nat /\ wrote[i][2] < pos
    BY <1>1 DEF Input
  <2>4. CASE stdin = "open" /\ pos' = pos + 1 /\ wrote' = Append(wrote, <<pos, pos>>)
    <3>1. /\ Len(wrote') = n /\ Len(wrote) \in Nat /\ wrote'[n] = <<pos, pos>>
          /\ \A i \in 1 .. Len(wrote) : wrote'[i] = wrote[i]
      <4>1. <<pos, pos>> \in Nat \X Nat
        BY <1>1
      <4> QED
        BY <1>1, <2>4, <4>1, Appended
    <3>2. \A i \in 1 .. n : i \in 1 .. Len(wrote) \/ i = n
      BY <3>1
    <3>3. \A i \in 1 .. n : /\ wrote'[i][1] = wrote'[i][2]
                            /\ wrote'[i][2] \in Nat /\ wrote'[i][2] < pos + 1
      <4> SUFFICES ASSUME NEW i \in 1 .. n
                   PROVE  /\ wrote'[i][1] = wrote'[i][2]
                          /\ wrote'[i][2] \in Nat /\ wrote'[i][2] < pos + 1
          OBVIOUS
      <4>1. CASE i = n
        BY <1>1, <3>1, <4>1
      <4>2. CASE i \in 1 .. Len(wrote)
        <5>1. wrote[i][1] = wrote[i][2] /\ wrote[i][2] \in Nat /\ wrote[i][2] < pos
          BY <2>3, <4>2 DEF InputOnce
        <5> QED
          BY <1>1, <3>1, <4>2, <5>1
      <4> QED
        BY <3>2, <4>1, <4>2
    <3>4. \A i \in 1 .. n - 1 : wrote'[i][2] < wrote'[i + 1][2]
      <4> SUFFICES ASSUME NEW i \in 1 .. n - 1 PROVE wrote'[i][2] < wrote'[i + 1][2]
          OBVIOUS
      <4>1. i \in 1 .. Len(wrote) /\ wrote'[i] = wrote[i]
        BY <3>1
      <4>2. CASE i = Len(wrote)
        BY <2>3, <3>1, <4>1, <4>2
      <4>3. CASE i # Len(wrote)
        <5>1. i \in 1 .. Len(wrote) - 1 /\ i + 1 \in 1 .. Len(wrote)
          BY <3>1, <4>1, <4>3
        <5> QED
          BY <2>3, <3>1, <4>1, <5>1 DEF InputOnce
      <4> QED
        BY <4>2, <4>3
    <3>5. ~(window /\ live) => n = pos + 1
      BY <2>3, <3>1 DEF InputOnce
    <3>6. InputOnce'
      BY <1>2, <2>2, <2>4, <3>1, <3>3, <3>4, <3>5 DEF InputOnce
    <3>7. \A r \in Slots : \A i \in 1 .. Len(up'[r]) :
              up'[r][i] = pos + 1 + i - 1 /\ up'[r][i] < inEnd
      <4> SUFFICES ASSUME NEW r \in Slots, NEW i \in 1 .. Len(up'[r])
                   PROVE  up'[r][i] = pos + 1 + i - 1 /\ up'[r][i] < inEnd
          OBVIOUS
      <4>1. r = s
        BY <1>3, <1>4
      <4>2. i + 1 \in 1 .. Len(u) /\ up'[s][i] = u[i + 1] /\ i \in Nat
        BY <1>3, <4>1
      <4>3. u[i + 1] = pos + (i + 1) - 1 /\ u[i + 1] < inEnd
        BY <1>1, <2>4, <4>2 DEF Input
      <4>4. pos + (i + 1) - 1 = pos + 1 + i - 1
        BY <1>1, <4>2
      <4> QED
        BY <4>1, <4>2, <4>3, <4>4
    <3>8. w = "opening" /\ reply[cur].kind = "hello" =>
              reply[cur].in \in 0 .. inEnd /\ px[cur] # "attached"
      BY <1>1, <1>4, <1>5, WrapperAssumption DEF Input, Attempt, TypeOK
    <3>9. w = "stream" /\ link[cur] = "up" => spos = pos' + Len(up'[cur])
      <4> SUFFICES ASSUME w = "stream", link[cur] = "up" PROVE spos = pos' + Len(up'[cur])
          OBVIOUS
      <4>1. cur = s
        BY <1>1, <1>4, Current DEF Flowing
      <4>2. spos = pos + Len(u)
        BY <1>1, <2>4, <4>1 DEF Input
      <4>3. (pos + 1) + (Len(u) - 1) = pos + Len(u)
        <5>1. pos \in Int /\ Len(u) \in Int
          BY <1>1, <1>3
        <5> QED
          BY <5>1, Shift
      <4> QED
        BY <1>3, <2>4, <4>1, <4>2, <4>3
    <3>10. \A i \in 1 .. Len(wrote') : wrote'[i][2] \in Nat /\ wrote'[i][2] < pos'
      BY <2>4, <3>1, <3>3
    <3> QED
      BY <1>1, <1>2, <2>1, <2>4, <3>6, <3>7, <3>8, <3>9, <3>10 DEF Input
  <2>5. CASE stdin # "open" /\ pos' = pos /\ wrote' = wrote
    <3>1. InputOnce'
      BY <1>2, <2>3, <2>5 DEF InputOnce, StdinClosed
    <3> QED
      BY <1>1, <1>2, <2>5, <3>1 DEF Input
  <2> QED
    BY <1>6, <2>4, <2>5
<1> QED
  BY <1>2, <1>8, <1>10, <1>11, <1>12, <1>13, Frames DEF WrapperInv

-----------------------------------------------------------------------------
(* A new attempt takes a slot that nobody is left in.                       *)
LEMMA StartStep ==
    ASSUME WrapperInv, NEW s \in Slots, Start(s)
    PROVE  WrapperInv'
<1>1. /\ TypeOK /\ Shapes /\ Attempt /\ Sole /\ Input /\ Written /\ Final
      /\ \A r \in Slots : Behind(r)
  BY DEF WrapperInv
<1>2. /\ w = "idle" /\ px[s] = "none" /\ w' = "opening" /\ cur' = s
      /\ UNCHANGED <<window, live, inEnd, inEof, base, create, established, delivered, told, spos,
                     ctl, reply, up, down, sent, late, session, epoch, pos, eofAt, outEnd, exit,
                     holder, stdin, wrote, got, breaks, noisy>>
  BY DEF Start, modes, local, broker, bounds
<1>3. cur = NoSlot /\ s # NoSlot /\ \A r \in Slots : r # cur
  BY <1>1, <1>2, WrapperAssumption DEF Attempt
<1>4. /\ link' \in [Slots -> {"up", "lost", "closed"}] /\ link'[s] = "up"
      /\ px' \in [Slots -> {"none", "sent", "asked", "dialing", "attached"}] /\ px'[s] = "sent"
      /\ \A r \in Slots : r # s => link'[r] = link[r] /\ px'[r] = px[r]
  BY <1>1 DEF Start, TypeOK
<1>5. /\ ask' \in [Slots -> Asks] /\ \A r \in Slots : r # s => ask'[r] = ask[r]
      /\ ask'[s].create = create /\ ask'[s].start = base /\ ask'[s].out \in Nat
      /\ ask'[s].eof # None => inEof /\ ask'[s].eof = inEnd
  <2> DEFINE a == [create |-> create, out |-> IF create THEN 0 ELSE delivered,
                   start |-> base, eof |-> IF inEof THEN inEnd ELSE None]
  <2>1. ask' = [ask EXCEPT ![s] = a] /\ ask \in [Slots -> Asks]
    BY <1>1 DEF Start, Shapes
  <2>2. (IF create THEN 0 ELSE delivered) \in Nat /\ (IF inEof THEN inEnd ELSE None) \in Int
        /\ base \in Nat /\ create \in BOOLEAN
    BY <1>1 DEF TypeOK, None
  <2>3. a \in Asks
    BY <2>2 DEF Asks
  <2> QED
    BY <2>1, <2>2, <2>3
<1>6. reply[s] = NoReply /\ down[s] = <<>> /\ up[s] = <<>> /\ sent[s] = 0
      /\ reply[s].kind = "none"
  BY <1>1, <1>2, <1>3, Messages DEF Behind
<1>7. ~Flowing' /\ (Reached' => Reached)
  BY <1>2, <1>6 DEF Flowing, Reached
<1>8. TypeOK'
  <2>1. {window, live, inEof, create, established, late, exit}' \subseteq BOOLEAN
    BY <1>1, <1>2 DEF TypeOK
  <2> QED
    BY <1>1, <1>2, <1>4, <2>1 DEF TypeOK
<1>9. Shapes'
  BY <1>1, <1>2, <1>5 DEF Shapes
<1>10. Attempt'
  BY <1>1, <1>2, <1>3, <1>4, <1>5, <1>6, <1>7 DEF Attempt
<1>11. ASSUME NEW r \in Slots PROVE Behind(r)'
  <2>1. Behind(r) /\ r # cur /\ base \in Nat /\ base \in 0 .. base
    BY <1>1, <1>3 DEF TypeOK
  <2>2. CASE r = s
    BY <1>2, <1>4, <1>5, <1>6, <2>1, <2>2 DEF Behind
  <2>3. CASE r # s
    BY <1>2, <1>4, <1>5, <2>1, <2>3 DEF Behind
  <2> QED
    BY <2>2, <2>3
<1>12. Sole'
  <2>1. Reached' => ~create
    BY <1>1, <1>2, <1>7 DEF Reached, Attempt
  <2> QED
    BY <1>1, <1>2, <1>4, <1>5, <1>7, <2>1 DEF Sole
<1>13. Input'
  <2>1. InputOnce'
    BY <1>1, <1>2 DEF Input, InputOnce, StdinClosed
  <2> QED
    BY <1>1, <1>2, <1>6, <2>1 DEF Input
<1>14. Written'
  BY <1>1, <1>2 DEF Written, OutputOnce, Real, Spare
<1>15. Flow'
  BY <1>7 DEF Flow
<1>16. Final'
  BY <1>2, <1>6 DEF Final, ExitComplete
<1> QED
  BY <1>8, <1>9, <1>10, <1>11, <1>12, <1>13, <1>14, <1>15, <1>16 DEF WrapperInv

-----------------------------------------------------------------------------
(* A request comes one step nearer to the session.                          *)
Advance(s) ==
    /\ px[s] \in {"sent", "asked"}
    /\ \/ px' = [px EXCEPT ![s] = "asked"]
       \/ session = "live" /\ px' = [px EXCEPT ![s] = "dialing"]
    /\ UNCHANGED <<window, live, inEnd, inEof, base, w, cur, create, established, delivered, told,
                   declared, spos, ctl, link, ask, reply, up, down, sent, late, session, epoch, pos,
                   eofAt, outEnd, exit, holder, stdin, wrote, got, breaks, noisy>>

LEMMA AdvanceStep ==
    ASSUME WrapperInv, NEW s \in Slots, Advance(s)
    PROVE  WrapperInv'
<1>1. TypeOK /\ Attempt /\ Sole /\ Input /\ \A r \in Slots : Behind(r)
  BY DEF WrapperInv
<1>2. /\ px[s] \in {"sent", "asked"}
      /\ UNCHANGED <<window, live, inEnd, inEof, base, w, cur, create, established, delivered, told,
                     declared, spos, ctl, link, ask, reply, up, down, sent, late, session, epoch, pos,
                     eofAt, outEnd, exit, holder, stdin, wrote, got, breaks, noisy>>
  BY DEF Advance
<1>3. /\ px' \in [Slots -> {"none", "sent", "asked", "dialing", "attached"}]
      /\ px'[s] \in {"asked", "dialing"} /\ (px'[s] = "dialing" => session = "live")
      /\ \A r \in Slots : r # s => px'[r] = px[r]
  BY <1>1 DEF Advance, TypeOK
<1>4. TypeOK'
  <2>1. {window, live, inEof, create, established, late, exit}' \subseteq BOOLEAN
    BY <1>1, <1>2 DEF TypeOK
  <2> QED
    BY <1>1, <1>2, <1>3, <2>1 DEF TypeOK
<1>5. Attempt'
  <2>1. cur # NoSlot => /\ cur \in Slots
                        /\ link[cur] = "up" => px'[cur] # "none"
                        /\ Flowing => px'[cur] \in {"attached", "none"}
    BY <1>1, <1>2, <1>3 DEF Attempt, TypeOK
  <2> QED
    BY <1>1, <1>2, <2>1 DEF Attempt, Flowing
<1>6. ASSUME NEW r \in Slots PROVE Behind(r)'
  <2>1. CASE r = s
    BY <1>1, <1>2, <1>3, <2>1 DEF Behind
  <2>2. CASE r # s
    BY <1>1, <1>2, <1>3, <2>2 DEF Behind
  <2> QED
    BY <2>1, <2>2
<1>7. Sole'
  BY <1>1, <1>2, <1>3 DEF Sole, Reached, Flowing
<1>8. Input'
  <2>1. InputOnce'
    BY <1>1, <1>2 DEF Input, InputOnce, StdinClosed
  <2>2. w = "opening" => cur \in Slots
    BY <1>1, Current DEF Attempt
  <2>3. w = "opening" /\ px'[cur] = "attached" => px[cur] = "attached"
    BY <1>3, <2>2
  <2> QED
    BY <1>1, <1>2, <2>1, <2>3 DEF Input
<1> QED
  BY <1>2, <1>4, <1>5, <1>6, <1>7, <1>8, Frames DEF WrapperInv

LEMMA ArriveStep ==
    ASSUME WrapperInv, NEW s \in Slots, Arrive(s)
    PROVE  WrapperInv'
BY AdvanceStep DEF Arrive, Advance, modes, local, wrapper, broker, bounds

(* A request is turned down, and its proxy ends.                            *)
Decline(s, r) ==
    /\ px[s] \in {"asked", "dialing"} /\ r \in Errors
    /\ ask' = [ask EXCEPT ![s] = NoAsk]
    /\ reply' = [reply EXCEPT ![s] = IF link[s] = "up" THEN r ELSE NoReply]
    /\ px' = [px EXCEPT ![s] = "none"]
    /\ link' = [link EXCEPT ![s] = "closed"]
    /\ UNCHANGED <<window, live, inEnd, inEof, base, w, cur, create, established, delivered, told,
                   declared, spos, ctl, up, down, sent, late, session, epoch, pos, eofAt, outEnd,
                   exit, holder, stdin, wrote, got, breaks, noisy>>

LEMMA DeclineStep ==
    ASSUME WrapperInv, NEW s \in Slots, NEW e, Decline(s, e)
    PROVE  WrapperInv'
<1>1. /\ TypeOK /\ Shapes /\ Attempt /\ Sole /\ Input /\ Written /\ Flow /\ Final
      /\ \A r \in Slots : Behind(r)
  BY DEF WrapperInv
<1>2. /\ px[s] \in {"asked", "dialing"}
      /\ UNCHANGED <<window, live, inEnd, inEof, base, w, cur, create, established, delivered, told,
                     declared, spos, ctl, up, down, sent, late, session, epoch, pos, eofAt, outEnd,
                     exit, holder, stdin, wrote, got, breaks, noisy>>
  BY DEF Decline
<1>3. /\ px' \in [Slots -> {"none", "sent", "asked", "dialing", "attached"}] /\ px'[s] = "none"
      /\ link' \in [Slots -> {"up", "lost", "closed"}] /\ link'[s] = "closed"
      /\ \A r \in Slots : r # s => px'[r] = px[r] /\ link'[r] = link[r]
  BY <1>1 DEF Decline, TypeOK
<1>4. /\ ask' \in [Slots -> Asks] /\ ask'[s] = NoAsk /\ \A r \in Slots : r # s => ask'[r] = ask[r]
  BY <1>1, Messages DEF Decline, Shapes
<1>5. /\ reply' \in [Slots -> Hellos \cup Errors] /\ reply'[s].kind # "hello"
      /\ (link[s] # "up" => reply'[s] = NoReply)
      /\ \A r \in Slots : r # s => reply'[r] = reply[r]
  <2> DEFINE a == IF link[s] = "up" THEN e ELSE NoReply
  <2>1. a \in Errors /\ (link[s] # "up" => a = NoReply) /\ a.kind # "hello"
    BY Messages DEF Decline
  <2>2. reply' = [reply EXCEPT ![s] = a] /\ reply \in [Slots -> Hellos \cup Errors]
    BY <1>1 DEF Decline, Shapes
  <2>3. reply'[s] = a /\ \A r \in Slots : r # s => reply'[r] = reply[r]
    BY <2>2
  <2>4. reply' \in [Slots -> Hellos \cup Errors]
    BY <2>1, <2>2
  <2> QED
    BY <2>1, <2>3, <2>4
<1>6. Flowing' => Flowing /\ cur # s /\ cur \in Slots
  <2>1. w' = w /\ cur' = cur
    BY <1>2
  <2>2. CASE w \in {"stream", "drain"}
    <3>1. Flowing
      BY <2>2 DEF Flowing
    <3> QED
      BY <1>2, <3>1, Current
  <2>3. CASE w = "opening" /\ reply'[cur].kind = "hello"
    <3>1. cur \in Slots /\ cur # s
      BY <1>1, <1>5, <2>3, Current DEF Attempt
    <3> QED
      BY <1>5, <2>3, <3>1 DEF Flowing
  <2> QED
    BY <2>1, <2>2, <2>3 DEF Flowing
<1>7. TypeOK'
  <2>1. {window, live, inEof, create, established, late, exit}' \subseteq BOOLEAN
    BY <1>1, <1>2 DEF TypeOK
  <2> QED
    BY <1>1, <1>2, <1>3, <2>1 DEF TypeOK
<1>8. Shapes'
  BY <1>1, <1>2, <1>4, <1>5 DEF Shapes
<1>9. Attempt'
  <2>1. CASE cur = s
    BY <1>1, <1>2, <1>3, <1>4, <1>5, <1>6, <2>1, Messages DEF Attempt
  <2>2. CASE cur # s
    <3>1. cur # NoSlot => /\ cur \in Slots /\ px'[cur] = px[cur] /\ link'[cur] = link[cur]
                          /\ ask'[cur] = ask[cur] /\ reply'[cur] = reply[cur]
      BY <1>3, <1>4, <1>5, <2>2, Current
    <3> QED
      BY <1>1, <1>2, <1>6, <3>1 DEF Attempt
  <2> QED
    BY <2>1, <2>2
<1>10. ASSUME NEW r \in Slots PROVE Behind(r)'
  <2>1. Behind(r) /\ base \in Nat /\ 0 \in 0 .. base
    BY <1>1 DEF TypeOK
  <2>2. CASE r = s
    BY <1>2, <1>3, <1>4, <1>5, <2>1, <2>2, Messages DEF Behind
  <2>3. CASE r # s
    BY <1>2, <1>3, <1>4, <1>5, <2>1, <2>3 DEF Behind
  <2> QED
    BY <2>2, <2>3
<1>11. Sole'
  <2>1. Reached' => Reached
    BY <1>2, <1>6 DEF Reached
  <2> QED
    BY <1>1, <1>2, <1>3, <1>4, <2>1 DEF Sole
<1>12. Input'
  <2>1. InputOnce'
    BY <1>1, <1>2 DEF Input, InputOnce, StdinClosed
  <2>2. w = "opening" /\ reply'[cur].kind = "hello" =>
            reply'[cur] = reply[cur] /\ px'[cur] = px[cur]
    BY <1>2, <1>3, <1>5, <1>6 DEF Flowing
  <2>3. w = "stream" => link'[cur] = link[cur]
    BY <1>2, <1>3, <1>6 DEF Flowing
  <2> QED
    BY <1>1, <1>2, <2>1, <2>2, <2>3 DEF Input
<1>13. Written'
  BY <1>1, <1>2 DEF Written, OutputOnce, Real, Spare
<1>14. Flow'
  <2> SUFFICES ASSUME Flowing' PROVE Flow'
      BY DEF Flow
  <2>1. Flowing /\ reply'[cur] = reply[cur] /\ link'[cur] = link[cur]
    BY <1>3, <1>5, <1>6
  <2>2. At' = At /\ Real' = Real /\ Spare' = Spare
    BY <1>2, <2>1 DEF At, Real, Spare
  <2> QED
    BY <1>1, <1>2, <2>1, <2>2 DEF Flow
<1>15. Final'
  <2>1. w = "opening" /\ reply'[cur].kind = "hello" => reply'[cur] = reply[cur]
    BY <1>2, <1>5, <1>6 DEF Flowing
  <2> QED
    BY <1>1, <1>2, <2>1 DEF Final, ExitComplete
<1> QED
  BY <1>7, <1>8, <1>9, <1>10, <1>11, <1>12, <1>13, <1>14, <1>15 DEF WrapperInv

LEMMA FindSessionStep ==
    ASSUME WrapperInv, NEW s \in Slots, FindSession(s)
    PROVE  WrapperInv'
<1>1. px[s] = "asked" /\ session \in {"none", "live"}
  BY DEF FindSession, WrapperInv, TypeOK
<1>2. CASE session = "none"
  <2>1. Error("missing") \in Errors /\ Error("missing").kind # "hello"
    BY Kinds
  <2>2. Answer(s, Error("missing"))
    BY <1>2 DEF FindSession
  <2>3. Decline(s, Error("missing"))
    BY <1>1, <2>1, <2>2
    DEF FindSession, Answer, Decline, modes, local, wrapper, broker, bounds
  <2> QED
    BY <2>3, DeclineStep
<1>3. CASE session = "live"
  <2>1. Advance(s)
    BY <1>1, <1>3 DEF FindSession, Advance, modes, local, wrapper, broker, bounds
  <2> QED
    BY <2>1, AdvanceStep
<1> QED
  BY <1>1, <1>2, <1>3

(* A session is created only where the wrapper has not seen one.            *)
LEMMA CreateSessionStep ==
    ASSUME WrapperInv, Fresh, NEW s \in Slots, CreateSession(s)
    PROVE  WrapperInv'
<1>1. /\ TypeOK /\ Shapes /\ Attempt /\ Sole /\ Input /\ Written /\ Final
      /\ \A r \in Slots : Behind(r)
      /\ px[s] = "asked" /\ ask[s].create
  BY DEF WrapperInv, CreateSession
<1>2. CASE session = "live"
  <2>1. Error("exists") \in Errors /\ Error("exists").kind # "hello"
    BY Kinds
  <2>2. Answer(s, Error("exists")) /\ UNCHANGED broker
    BY <1>2 DEF CreateSession
  <2>3. Decline(s, Error("exists"))
    BY <1>1, <2>1, <2>2
    DEF CreateSession, Answer, Decline, modes, local, wrapper, broker, bounds
  <2> QED
    BY <2>3, DeclineStep
<1>3. CASE session # "live"
  <2>1. /\ epoch < MaxRuns /\ session' = "live" /\ epoch' = epoch + 1
        /\ pos' = 0 /\ eofAt' = None /\ outEnd' = 0 /\ exit' = FALSE
        /\ holder' = NoSlot /\ stdin' = "open"
        /\ px' = [px EXCEPT ![s] = "dialing"]
        /\ UNCHANGED <<window, live, inEnd, inEof, base, w, cur, create, established, delivered, told,
                       declared, spos, ctl, link, ask, reply, up, down, sent, late, wrote, got,
                       breaks, noisy>>
    BY <1>3 DEF CreateSession, modes, local, wrapper, bounds
  <2>2. session = "none" /\ ~Reached /\ ~Flowing /\ ~established
    BY <1>1, <1>3 DEF Sole, TypeOK, Reached
  <2>3. w \in {"idle", "opening", "failed", "unable"} /\ delivered = 0 /\ got = <<>>
        /\ wrote = <<>>
    BY <1>1, <2>2 DEF TypeOK, Reached, Flowing, Written, Fresh
  <2>4. /\ px' \in [Slots -> {"none", "sent", "asked", "dialing", "attached"}] /\ px'[s] = "dialing"
        /\ \A r \in Slots : r # s => px'[r] = px[r]
    BY <1>1, <2>1 DEF TypeOK
  <2>5. \A r \in Slots : px[r] # "attached" /\ px'[r] # "attached" /\ up[r] = <<>> /\ sent[r] = 0
                         /\ Len(up[r]) = 0
    BY <1>1, <2>2, <2>4, Nothing DEF Behind
  <2>6. ~Flowing' /\ Len(got) = 0 /\ Len(wrote') = 0 /\ Real' = {}
    <3>1. Len(got) = 0 /\ Len(wrote') = 0 /\ got' = got
      BY <2>1, <2>3, Nothing
    <3> QED
      BY <2>1, <2>2, <3>1 DEF Flowing, Real
  <2>7. TypeOK'
    <3>1. {window, live, inEof, create, established, late, exit}' \subseteq BOOLEAN
      BY <1>1, <2>1 DEF TypeOK
    <3>2. /\ pos' \in 0 .. inEnd' /\ eofAt' \in None .. MaxIn /\ outEnd' \in 0 .. MaxOut
          /\ epoch' \in 0 .. MaxRuns
      BY <1>1, <2>1, WrapperAssumption DEF TypeOK, None
    <3>3. sent' \in [Slots -> 0 .. outEnd']
      <4>1. \A r \in Slots : sent[r] \in 0 .. 0
        BY <2>5
      <4> QED
        BY <1>1, <2>1, <4>1 DEF TypeOK
    <3> QED
      BY <1>1, <2>1, <2>4, <3>1, <3>2, <3>3 DEF TypeOK
  <2>8. Shapes'
    BY <1>1, <2>1, Nothing DEF Shapes
  <2>9. Attempt'
    <3>1. cur # NoSlot => cur \in Slots /\ (link[cur] = "up" => px'[cur] # "none")
      BY <1>1, <2>4, Current DEF Attempt
    <3> QED
      BY <1>1, <2>1, <2>6, <3>1 DEF Attempt
  <2>10. ASSUME NEW r \in Slots PROVE Behind(r)'
    <3>1. Behind(r) /\ r # NoSlot
      BY <1>1, WrapperAssumption
    <3>2. px'[r] \in {"sent", "asked", "dialing"} => px[r] \in {"sent", "asked", "dialing"}
      BY <1>1, <2>4
    <3> QED
      BY <2>1, <2>5, <3>1, <3>2 DEF Behind
  <2>11. Sole'
    BY <2>1 DEF Sole
  <2>12. Input'
    <3>1. InputOnce'
      BY <2>1, <2>6 DEF InputOnce, StdinClosed, None
    <3>2. ~window => base = 0
      BY <1>1 DEF Input
    <3>3. ~(w = "opening" /\ reply[cur].kind = "hello") /\ w # "stream"
      BY <2>2 DEF Flowing
    <3> QED
      BY <2>1, <2>5, <2>6, <3>1, <3>2, <3>3 DEF Input
  <2>13. Written'
    <3>1. Breaks - breaks \in Nat
      BY <1>1, WrapperAssumption DEF TypeOK
    <3>2. OutputOnce'
      BY <2>1, <2>6 DEF OutputOnce
    <3> QED
      BY <2>1, <2>3, <2>6, <3>1, <3>2 DEF Written, Spare
  <2>14. Flow'
    BY <2>6 DEF Flow
  <2>15. Final'
    BY <2>1, <2>2, <2>3 DEF Final, ExitComplete, Flowing
  <2> QED
    BY <2>7, <2>8, <2>9, <2>10, <2>11, <2>12, <2>13, <2>14, <2>15 DEF WrapperInv
<1> QED
  BY <1>2, <1>3

(* Nobody else is attached, and what is asked for fits what there is.       *)
Accepts(s) == session = "live" /\ holder = NoSlot /\ ~Ahead(ask[s]) /\ StdinAcceptable(ask[s])

LEMMA AttachStep ==
    ASSUME WrapperInv, NEW s \in Slots, Attach(s), Accepts(s)
    PROVE  WrapperInv'
<1> DEFINE a == ask[s]
           hello == [kind |-> "hello", in |-> pos', out |-> sent'[s],
                     eof |-> eofAt' = pos', exit |-> exit, end |-> outEnd]
<1>1. /\ TypeOK /\ Shapes /\ Attempt /\ Sole /\ Input /\ Written /\ Flow /\ Final
      /\ \A r \in Slots : Behind(r)
      /\ px[s] = "dialing" /\ session = "live" /\ holder = NoSlot /\ s # NoSlot
  BY WrapperAssumption DEF WrapperInv, Attach, Accepts
<1>2. /\ holder' = s
      /\ pos' = IF a.start > pos THEN a.start ELSE pos
      /\ eofAt' = IF eofAt = None THEN a.eof ELSE eofAt
      /\ sent' = [sent EXCEPT ![s] = IF live THEN outEnd ELSE a.out]
      /\ Answer(s, hello)
      /\ UNCHANGED <<window, live, inEnd, inEof, base, w, cur, create, established, delivered, told,
                     declared, spos, ctl, up, down, late, session, epoch, outEnd, exit, stdin, wrote,
                     got, breaks, noisy>>
  BY DEF Attach, Accepts, modes, local, wrapper, bounds
<1>3. /\ pos \in Nat /\ inEnd \in Nat /\ pos <= inEnd /\ base \in Nat /\ base <= inEnd
      /\ outEnd \in Nat /\ sent \in [Slots -> 0 .. outEnd]
  BY <1>1 DEF TypeOK
<1>4. /\ a.start \in 0 .. base /\ a.out \in Nat /\ a.out <= outEnd
      /\ a.eof # None => inEof /\ a.eof = inEnd
  BY <1>1, <1>3 DEF Behind, Accepts, Ahead
<1>5. pos' \in 0 .. inEnd /\ pos' \in Nat /\ pos <= pos' /\ (~(window /\ live) => pos' = pos)
  <2>1. a.start > pos => live
    BY DEF Accepts, StdinAcceptable
  <2>2. ~window => a.start = 0
    BY <1>1, <1>4 DEF Input
  <2> QED
    BY <1>2, <1>3, <1>4, <2>1, <2>2
<1>6. eofAt' \in None .. MaxIn /\ (eofAt' # None => inEof /\ eofAt' = inEnd)
  <2>1. eofAt' # None => inEof /\ eofAt' = inEnd
    BY <1>1, <1>2, <1>4 DEF Input
  <2>2. inEnd \in None .. MaxIn /\ None \in None .. MaxIn
    BY <1>1, WrapperAssumption DEF TypeOK, None
  <2> QED
    BY <2>1, <2>2
<1>7. /\ sent' \in [Slots -> 0 .. outEnd] /\ sent'[s] \in Nat /\ sent'[s] <= outEnd
      /\ \A r \in Slots : r # s => sent'[r] = sent[r]
  <2> DEFINE o == IF live THEN outEnd ELSE a.out
  <2>1. o \in 0 .. outEnd
    BY <1>3, <1>4
  <2>2. sent' = [sent EXCEPT ![s] = o]
    BY <1>2
  <2>3. sent' \in [Slots -> 0 .. outEnd] /\ sent'[s] = o /\ \A r \in Slots : r # s => sent'[r] = sent[r]
    BY <1>3, <2>1, <2>2
  <2> QED
    BY <1>3, <2>1, <2>3
<1>8. /\ hello \in Hellos /\ hello.kind = "hello" /\ hello.in = pos' /\ hello.out = sent'[s]
      /\ hello.exit = exit /\ hello.end = outEnd
  <2>1. exit \in BOOLEAN /\ (eofAt' = pos') \in BOOLEAN
    BY <1>1 DEF TypeOK
  <2> QED
    BY <1>3, <1>5, <1>7, <2>1 DEF Hellos
<1>9. /\ ask' = [ask EXCEPT ![s] = NoAsk]
      /\ reply' = [reply EXCEPT ![s] = IF link[s] = "up" THEN hello ELSE NoReply]
      /\ px' = [px EXCEPT ![s] = "attached"] /\ link' = link
  BY <1>2, <1>8 DEF Answer
<1>10. /\ px' \in [Slots -> {"none", "sent", "asked", "dialing", "attached"}] /\ px'[s] = "attached"
       /\ \A r \in Slots : r # s => px'[r] = px[r]
  BY <1>1, <1>9 DEF TypeOK
<1>11. /\ ask' \in [Slots -> Asks] /\ ask'[s] = NoAsk /\ \A r \in Slots : r # s => ask'[r] = ask[r]
  BY <1>1, <1>9, Messages DEF Shapes
<1>12. /\ reply' \in [Slots -> Hellos \cup Errors]
       /\ reply'[s] = IF link[s] = "up" THEN hello ELSE NoReply
       /\ \A r \in Slots : r # s => reply'[r] = reply[r]
  <2> DEFINE b == IF link[s] = "up" THEN hello ELSE NoReply
  <2>1. b \in Hellos \cup Errors
    BY <1>8, Messages
  <2>2. reply' = [reply EXCEPT ![s] = b] /\ reply \in [Slots -> Hellos \cup Errors]
    BY <1>1, <1>9 DEF Shapes
  <2> HIDE DEF b
  <2>3. /\ reply' \in [Slots -> Hellos \cup Errors] /\ reply'[s] = b
        /\ \A r \in Slots : r # s => reply'[r] = reply[r]
    BY <2>1, <2>2
  <2> QED
    BY <2>3 DEF b
<1> HIDE DEF hello
<1>13. \A r \in Slots : px[r] # "attached" /\ up[r] = <<>> /\ Len(up[r]) = 0
  BY <1>1, Nothing, WrapperAssumption DEF Behind
<1>14. Flowing => cur \in Slots /\ cur # s /\ px[cur] = "none" /\ link[cur] # "up"
  BY <1>1, <1>13, Current
<1>15. cur = s => w = "opening" /\ ~Flowing
  BY <1>1, <1>14 DEF Attempt, Flowing
<1>16. TypeOK'
  <2>1. {window, live, inEof, create, established, late, exit}' \subseteq BOOLEAN
    BY <1>1, <1>2 DEF TypeOK
  <2> QED
    BY <1>1, <1>2, <1>5, <1>6, <1>7, <1>9, <1>10, <2>1 DEF TypeOK
<1>17. Shapes'
  BY <1>1, <1>2, <1>11, <1>12 DEF Shapes
<1>18. cur # s => (Flowing' <=> Flowing) /\ (cur # NoSlot => reply'[cur] = reply[cur])
  <2>1. cur # s /\ cur # NoSlot => reply'[cur] = reply[cur]
    BY <1>12, Current
  <2>2. w = "opening" => cur # NoSlot
    BY <1>1 DEF Attempt
  <2> QED
    BY <1>2, <2>1, <2>2 DEF Flowing
<1>19. Attempt'
  <2>1. CASE cur = s
    <3>1. ~(reply'[cur].kind \notin {"none", "hello"})
      BY <1>8, <1>12, <2>1, Messages
    <3> QED
      BY <1>1, <1>2, <1>9, <1>10, <1>11, <1>15, <2>1, <3>1, Messages DEF Attempt
  <2>2. CASE cur # s
    <3>1. cur # NoSlot => cur \in Slots /\ px'[cur] = px[cur] /\ ask'[cur] = ask[cur]
      BY <1>10, <1>11, <2>2, Current
    <3> QED
      BY <1>1, <1>2, <1>9, <1>18, <2>2, <3>1 DEF Attempt
  <2> QED
    BY <2>1, <2>2
<1>20. ASSUME NEW r \in Slots PROVE Behind(r)'
  <2>1. Behind(r) /\ 0 \in 0 .. base
    BY <1>1, <1>3
  <2>2. CASE r = s
    BY <1>1, <1>2, <1>9, <1>10, <1>11, <1>12, <2>1, <2>2, Messages DEF Behind
  <2>3. CASE r # s
    BY <1>2, <1>7, <1>9, <1>10, <1>11, <1>12, <1>13, <2>1, <2>3 DEF Behind
  <2> QED
    BY <2>2, <2>3
<1>21. Sole'
  BY <1>1, <1>2 DEF Sole
<1>22. Input'
  <2>1. StdinClosed' => inEof' /\ pos' = inEnd'
    BY <1>2, <1>5, <1>6 DEF StdinClosed, None
  <2>2. InputOnce'
    BY <1>1, <1>2, <1>5, <2>1 DEF Input, InputOnce
  <2>3. ASSUME w = "opening", reply'[cur].kind = "hello"
        PROVE  reply'[cur].in \in 0 .. inEnd /\ (px'[cur] = "attached" => reply'[cur].in = pos')
    <3>1. CASE cur = s
      BY <1>5, <1>8, <1>12, <2>3, <3>1, Messages
    <3>2. CASE cur # s
      <4>1. cur \in Slots /\ reply'[cur] = reply[cur] /\ px'[cur] = px[cur]
        BY <1>1, <1>10, <1>12, <2>3, <3>2, Current DEF Attempt
      <4> QED
        BY <1>1, <1>13, <2>3, <4>1 DEF Input
    <3> QED
      BY <3>1, <3>2
  <2>4. w = "stream" => link[cur] # "up"
    BY <1>14 DEF Flowing
  <2>5. \A i \in 1 .. Len(wrote) : wrote[i][2] \in Nat /\ wrote[i][2] < pos'
    BY <1>1, <1>3, <1>5 DEF Input
  <2>6. ~window => base = 0
    BY <1>1 DEF Input
  <2> QED
    BY <1>2, <1>6, <1>9, <1>13, <2>2, <2>3, <2>4, <2>5, <2>6 DEF Input
<1>23. Written'
  BY <1>1, <1>2 DEF Written, OutputOnce, Real, Spare
<1>24. Flow'
  <2> SUFFICES ASSUME Flowing' PROVE Flow'
      BY DEF Flow
  <2>1. CASE cur = s
    <3>1. w = "opening" /\ link[s] = "up" /\ reply'[cur] = hello
      BY <1>2, <1>12, <1>15, <2>1, Messages DEF Flowing
    <3>2. down[cur] = <<>> /\ Len(down[cur]) = 0
      BY <1>1, <2>1, Nothing DEF Behind
    <3>3. At' = sent'[s]
      BY <1>2, <1>8, <3>1 DEF At
    <3>4. Breaks - breaks \in Nat
      BY <1>1, WrapperAssumption DEF TypeOK
    <3>5. /\ sent'[s] + 0 = sent'[s] /\ sent'[s] <= outEnd + (Breaks - breaks)
          /\ sent'[s] <= sent'[s] + (Breaks - breaks)
      BY <1>3, <1>7, <3>4
    <3>6. down' = down /\ cur' = cur /\ breaks' = breaks /\ w' = "opening" /\ outEnd' = outEnd
      BY <1>2, <3>1
    <3>7. sent'[s] <= sent'[s]
      BY <1>7
    <3>8. 1 .. 0 = {}
      OBVIOUS
    <3> QED
      BY <1>7, <2>1, <3>2, <3>3, <3>5, <3>6, <3>7, <3>8 DEF Flow, Spare
  <2>2. CASE cur # s
    <3>1. Flowing /\ cur \in Slots /\ link'[cur] # "up"
      BY <1>9, <1>14, <1>18, <2>2
    <3>2. At' = At /\ Real' = Real /\ Spare' = Spare
      BY <1>2, <1>12, <2>2, <3>1 DEF At, Real, Spare
    <3> QED
      BY <1>1, <1>2, <3>1, <3>2 DEF Flow
  <2> QED
    BY <2>1, <2>2
<1>25. Final'
  <2>1. ASSUME w = "opening", reply'[cur].kind = "hello", reply'[cur].exit
        PROVE  exit /\ reply'[cur].end = outEnd
    <3>1. CASE cur = s
      BY <1>8, <1>12, <2>1, <3>1, Messages
    <3>2. CASE cur # s
      BY <1>1, <1>12, <2>1, <3>2, Current DEF Final, Attempt
    <3> QED
      BY <3>1, <3>2
  <2> QED
    BY <1>1, <1>2, <2>1 DEF Final, ExitComplete
<1> QED
  BY <1>16, <1>17, <1>19, <1>20, <1>21, <1>22, <1>23, <1>24, <1>25 DEF WrapperInv

LEMMA AttachRefusedStep ==
    ASSUME WrapperInv, NEW s \in Slots, Attach(s), ~Accepts(s)
    PROVE  WrapperInv'
<1> DEFINE k == IF session = "live" /\ holder # NoSlot THEN "attached" ELSE "refused"
<1>1. Error(k) \in Errors /\ Error(k).kind # "hello"
  BY Kinds
<1>2. /\ px[s] = "dialing" /\ Answer(s, Error(k)) /\ UNCHANGED <<holder, pos, eofAt, sent, up>>
  BY DEF Attach, Accepts
<1>3. Decline(s, Error(k))
  BY <1>1, <1>2 DEF Attach, Answer, Decline, modes, local, wrapper, bounds
<1> QED
  BY <1>3, DeclineStep

(* An attachment ends, and its proxy with it.                               *)
LEMMA DetachStep ==
    ASSUME WrapperInv, NEW s \in Slots, InputFails(s) \/ PassExit(s) \/ SeesGap(s) \/ Notice(s)
    PROVE  WrapperInv'
<1>1. /\ TypeOK /\ Shapes /\ Attempt /\ Sole /\ Input /\ Written /\ Flow /\ Final
      /\ \A r \in Slots : Behind(r)
      /\ px[s] = "attached" /\ holder = s /\ s # NoSlot
  <2>1. px[s] = "attached" /\ \A r \in Slots : Behind(r)
    BY DEF InputFails, PassExit, SeesGap, Notice, Proxying, WrapperInv
  <2> QED
    BY <2>1, WrapperAssumption DEF WrapperInv, Behind
<1>2. Detach(s) /\ breaks' \in 0 .. breaks
  BY <1>1, WrapperAssumption DEF InputFails, PassExit, SeesGap, Notice, TypeOK
<1>3. /\ holder' = NoSlot
      /\ UNCHANGED <<window, live, inEnd, inEof, base, w, cur, create, established, delivered, told,
                     declared, spos, ctl, ask, reply, down, late, session, epoch, pos, eofAt, outEnd,
                     exit, stdin, wrote, got, noisy>>
  BY <1>2 DEF Detach, modes, local, wrapper
<1>4. /\ px' \in [Slots -> {"none", "sent", "asked", "dialing", "attached"}] /\ px'[s] = "none"
      /\ link' \in [Slots -> {"up", "lost", "closed"}] /\ link'[s] = "closed"
      /\ \A r \in Slots : r # s => px'[r] = px[r] /\ link'[r] = link[r]
  BY <1>1, <1>2 DEF Detach, TypeOK
<1>5. /\ up' \in [Slots -> Seq(Nat)] /\ up'[s] = <<>> /\ Len(up'[s]) = 0
      /\ sent' \in [Slots -> 0 .. outEnd] /\ sent'[s] = 0
      /\ \A r \in Slots : r # s => up'[r] = up[r] /\ sent'[r] = sent[r]
  <2>1. up \in [Slots -> Seq(Nat)] /\ sent \in [Slots -> 0 .. outEnd] /\ 0 \in 0 .. outEnd
    BY <1>1 DEF Shapes, TypeOK
  <2>2. up' = [up EXCEPT ![s] = <<>>] /\ sent' = [sent EXCEPT ![s] = 0]
    BY <1>2 DEF Detach
  <2> QED
    BY <2>1, <2>2, Nothing
<1>6. Flowing => cur \in Slots /\ px'[cur] \in {"attached", "none"} /\ link'[cur] # "up"
  BY <1>1, <1>4, Current
<1>7. Flowing' <=> Flowing
  BY <1>3 DEF Flowing
<1>8. breaks' \in 0 .. Breaks /\ breaks' <= breaks
  BY <1>1, <1>2, WrapperAssumption DEF TypeOK
<1>9. TypeOK'
  <2>1. {window, live, inEof, create, established, late, exit}' \subseteq BOOLEAN
    BY <1>1, <1>3 DEF TypeOK
  <2> QED
    BY <1>1, <1>3, <1>4, <1>5, <1>8, <2>1 DEF TypeOK
<1>10. Shapes'
  BY <1>1, <1>3, <1>5 DEF Shapes
<1>11. Attempt'
  <2>1. cur # NoSlot => /\ link'[cur] = "up" => link[cur] = "up" /\ px'[cur] # "none"
                        /\ up[cur] = <<>> => up'[cur] = <<>>
    BY <1>1, <1>4, <1>5, Current DEF Attempt
  <2> QED
    BY <1>1, <1>3, <1>6, <1>7, <2>1 DEF Attempt
<1>12. ASSUME NEW r \in Slots PROVE Behind(r)'
  <2>1. Behind(r) /\ r # NoSlot
    BY <1>1, WrapperAssumption
  <2>2. CASE r = s
    BY <1>1, <1>3, <1>4, <1>5, <2>1, <2>2 DEF Behind
  <2>3. CASE r # s
    BY <1>1, <1>3, <1>4, <1>5, <2>1, <2>3 DEF Behind
  <2> QED
    BY <2>2, <2>3
<1>13. Sole'
  BY <1>1, <1>3, <1>4, <1>7 DEF Sole, Reached
<1>14. Input'
  <2>1. InputOnce'
    BY <1>1, <1>3 DEF Input, InputOnce, StdinClosed
  <2>2. stdin = "open" => \A r \in Slots : \A i \in 1 .. Len(up'[r]) :
          up'[r][i] = pos + i - 1 /\ up'[r][i] < inEnd
    <3> SUFFICES ASSUME stdin = "open", NEW r \in Slots, NEW i \in 1 .. Len(up'[r])
                 PROVE  up'[r][i] = pos + i - 1 /\ up'[r][i] < inEnd
        OBVIOUS
    <3>1. r # s /\ up'[r] = up[r]
      BY <1>5
    <3> QED
      BY <1>1, <3>1 DEF Input
  <2>3. w = "opening" /\ reply[cur].kind = "hello" /\ px'[cur] = "attached" => px[cur] = "attached"
    BY <1>4, <1>6 DEF Flowing
  <2>4. w = "stream" => link'[cur] # "up"
    BY <1>6 DEF Flowing
  <2> QED
    BY <1>1, <1>3, <2>1, <2>2, <2>3, <2>4 DEF Input
<1>15. /\ delivered \in Int /\ outEnd \in Int /\ Breaks \in Int /\ breaks \in Int /\ breaks' \in Int
  BY <1>1, <1>8, WrapperAssumption DEF TypeOK
<1>16. Written'
  <2>1. OutputOnce' /\ Real' = Real
    BY <1>1, <1>3 DEF Written, OutputOnce, Real
  <2>2. delivered <= outEnd + (Breaks - breaks')
    <3>1. delivered <= outEnd + (Breaks - breaks)
      BY <1>1 DEF Written, Spare
    <3> QED
      BY <1>8, <1>15, <3>1, Slack
  <2> QED
    BY <1>1, <1>3, <2>1, <2>2 DEF Written, Spare
<1>17. Flow'
  <2> SUFFICES ASSUME Flowing' PROVE Flow'
      BY DEF Flow
  <2>1. At' = At /\ Real' = Real /\ Flowing
    BY <1>3, <1>7 DEF At, Real
  <2>2. At + Len(down[cur]) <= outEnd + (Breaks - breaks')
    <3>1. At + Len(down[cur]) <= outEnd + (Breaks - breaks)
      BY <1>1, <2>1 DEF Flow, Spare
    <3>2. At + Len(down[cur]) \in Int
      BY <1>1, <2>1, Current DEF Flow
    <3> QED
      BY <1>8, <1>15, <3>1, <3>2, Slack
  <2> QED
    BY <1>1, <1>3, <1>6, <2>1, <2>2 DEF Flow, Spare
<1>18. Final'
  BY <1>1, <1>3 DEF Final, ExitComplete
<1> QED
  BY <1>9, <1>10, <1>11, <1>12, <1>13, <1>14, <1>16, <1>17, <1>18 DEF WrapperInv

-----------------------------------------------------------------------------
LEMMA FreshStep ==
    ASSUME WrapperInv, Fresh, [Next]_vars
    PROVE  Fresh'
<1> DEFINE Early == {"idle", "opening", "failed", "unable"}
<1> SUFFICES ASSUME ~established', w' \in Early
             PROVE  wrote' = <<>> /\ \A s \in Slots : up'[s] = <<>>
    BY DEF Fresh
<1>1. up \in [Slots -> Seq(Nat)] /\ (w = "opening" => cur \in Slots)
  BY DEF WrapperInv, Shapes, Attempt, TypeOK
<1>2. ASSUME w \in Early, ~established
      PROVE  wrote = <<>> /\ \A s \in Slots : up[s] = <<>>
  BY <1>2 DEF Fresh
<1>3. CASE Wrapper \/ SpawnFails \/ Unreadable
  <2>1. ~(Send \/ Finish \/ Copy \/ Stop \/ AskEof \/ ControlArrives \/ ControlConfirmed)
    <3>1. w # "stream" \/ ~(Send \/ Copy \/ AskEof \/ ControlArrives \/ ControlConfirmed)
      BY DEF Send, Copy, AskEof, ControlArrives, ControlConfirmed, Reattach, WrapperInv, Attempt
    <3> QED
      BY <3>1 DEF Send, Finish, Copy, Stop, AskEof, ControlArrives, ControlConfirmed, WrapperInv, Attempt
  <2>2. w \in Early /\ ~established /\ wrote' = wrote /\ up' = up
    <3>1. CASE \E s \in Slots : Start(s)
      BY <3>1 DEF Start, broker
    <3>2. CASE NoAnswer \/ Refused
      BY <3>2 DEF NoAnswer, Refused, broker
    <3>3. CASE Opened
      BY <3>3 DEF Opened, broker
    <3>4. CASE SpawnFails \/ Unreadable
      BY <3>4 DEF SpawnFails, Unreadable, broker, remote
    <3> QED
      BY <1>3, <2>1, <3>1, <3>2, <3>3, <3>4 DEF Wrapper
  <2> QED
    BY <1>2, <2>2
<1>4. CASE ReadLocal \/ LocalEof \/ ControlLate \/ Produce \/ CommandExits \/ CommandCloses
           \/ TakeStdin \/ Expire \/ UNCHANGED vars
  <2>1. w' = w /\ established' = established /\ wrote' = wrote /\ up' = up
    BY <1>4 DEF ReadLocal, LocalEof, ControlLate, Produce, CommandExits, CommandCloses, TakeStdin,
                Expire, vars, wrapper, remote, broker
  <2> QED
    BY <1>2, <2>1
<1>5. CASE ControlFails \/ WriteFails \/ StreamEnds
  BY <1>5 DEF ControlFails, WriteFails, StreamEnds, Reattach
<1>6. ASSUME NEW s \in Slots, Proxy(s) \/ Break(s) \/ Diagnose(s) \/ SeesGap(s)
      PROVE  wrote' = <<>> /\ \A t \in Slots : up'[t] = <<>>
  <2>1. w' = w /\ established' = established
    BY <1>6 DEF Proxy, Break, Diagnose, SeesGap, Arrive, CreateSession, FindSession, Attach,
                PassInput, PassOutput, PassExit, Notice, InputFails, Detach, wrapper
  <2>2. wrote = <<>> /\ \A t \in Slots : up[t] = <<>>
    BY <1>2, <2>1
  <2>3. CASE Break(s)
    <3>1. PICK n \in 0 .. Len(up[s]) : up' = [up EXCEPT ![s] = SubSeq(@, 1, n)]
      BY <2>3 DEF Break, Cut
    <3>2. Len(up[s]) = 0 /\ n = 0
      BY <2>2, <3>1, Nothing
    <3>3. SubSeq(up[s], 1, n) \in Seq(Nat) /\ Len(SubSeq(up[s], 1, n)) = 0
      BY <1>1, <3>1, <3>2, Shortened
    <3>4. SubSeq(up[s], 1, n) = <<>>
      BY <3>3, Nothing
    <3>5. wrote' = wrote
      BY <2>3 DEF Break, broker
    <3> QED
      BY <1>1, <2>2, <3>1, <3>4, <3>5
  <2>4. CASE PassExit(s) \/ Notice(s) \/ InputFails(s) \/ SeesGap(s)
    <3>1. wrote' = wrote /\ up' = [up EXCEPT ![s] = <<>>]
      BY <2>4 DEF PassExit, Notice, InputFails, SeesGap, Detach
    <3> QED
      BY <1>1, <2>2, <3>1
  <2>5. CASE Arrive(s) \/ CreateSession(s) \/ FindSession(s) \/ Attach(s) \/ PassOutput(s)
             \/ Diagnose(s)
    <3>1. wrote' = wrote /\ up' = up
      BY <2>5 DEF Arrive, CreateSession, FindSession, Attach, PassOutput, Diagnose, broker
    <3> QED
      BY <2>2, <3>1
  <2>6. ~PassInput(s)
    BY <2>2 DEF PassInput
  <2> QED
    BY <1>6, <2>3, <2>4, <2>5, <2>6 DEF Proxy
<1> QED
  BY <1>3, <1>4, <1>5, <1>6 DEF Next

LEMMA StepInv ==
    ASSUME WrapperInv, Fresh, [Next]_vars
    PROVE  WrapperInv'
<1>1. CASE ReadLocal \/ LocalEof
  BY <1>1, LocalStep
<1>2. ASSUME NEW s \in Slots, Start(s) PROVE WrapperInv'
  BY <1>2, StartStep
<1>3. CASE NoAnswer \/ Refused \/ WriteFails \/ Finish \/ Unreadable \/ SpawnFails
  BY <1>3, NoAnswerStep, RefusedStep, WriteFailsStep, FinishStep, UnreadableStep, SpawnFailsStep
<1>4. CASE Opened
  BY <1>4, OpenedStep, MismatchStep
<1>5. CASE Send
  BY <1>5, SendStep, SlideStep
<1>6. CASE AskEof \/ ControlArrives \/ ControlConfirmed \/ ControlLate
  BY <1>6, ControlStep
<1>7. CASE Copy \/ Stop \/ ControlFails \/ StreamEnds
  BY <1>7, CopyStep, StopStep, ControlFailsStep, StreamEndsStep
<1>8. ASSUME NEW s \in Slots, Proxy(s) \/ Break(s) \/ Diagnose(s) \/ SeesGap(s)
      PROVE  WrapperInv'
  <2>1. CASE Arrive(s) \/ CreateSession(s) \/ FindSession(s)
    BY <2>1, ArriveStep, CreateSessionStep, FindSessionStep
  <2>2. CASE Attach(s)
    BY <2>2, AttachStep, AttachRefusedStep
  <2>3. CASE PassInput(s) \/ PassOutput(s)
    BY <2>3, PassInputStep, PassOutputStep
  <2>4. CASE InputFails(s) \/ PassExit(s) \/ SeesGap(s) \/ Notice(s)
    BY <2>4, DetachStep
  <2>5. CASE Break(s) \/ Diagnose(s)
    BY <2>5, BreakStep, DiagnoseStep
  <2> QED
    BY <1>8, <2>1, <2>2, <2>3, <2>4, <2>5 DEF Proxy
<1>9. CASE Produce \/ CommandExits \/ CommandCloses \/ TakeStdin \/ Expire
  BY <1>9, CommandStep, ExpireStep
<1>10. CASE UNCHANGED vars
  <2>1. UNCHANGED <<window, live, inEnd, inEof, base, w, cur, create, established, delivered, told,
                    declared, spos, ctl, link, px, ask, reply, up, down, sent, late, session, epoch,
                    pos, eofAt, outEnd, exit, holder, stdin, wrote, got, breaks, noisy>>
    BY <1>10 DEF vars, modes, local, wrapper, remote, broker, bounds
  <2>2. TypeOK'
    BY <2>1 DEF WrapperInv, TypeOK
  <2> QED
    BY <2>1, <2>2, Frames DEF WrapperInv
<1> QED
  BY <1>1, <1>2, <1>3, <1>4, <1>5, <1>6, <1>7, <1>8, <1>9, <1>10 DEF Next, Wrapper

LEMMA InvHolds == Spec => []WrapperInv
<1>1. Init => Fresh
  BY DEF Init, Fresh
<1>2. (WrapperInv /\ Fresh) /\ [Next]_vars => (WrapperInv /\ Fresh)'
  BY StepInv, FreshStep
<1> QED
  BY InitInv, <1>1, <1>2, PTL DEF Spec

(* Positions stay within what was read, written and produced, and every     *)
(* part of the wrapper, the proxies and the session has its type.           *)
THEOREM TypesHold == Spec => []TypeOK
<1>1. WrapperInv => TypeOK
  BY DEF WrapperInv
<1> QED
  BY <1>1, InvHolds, PTL

(* However attempts overlap: the local input reaches the command once, in   *)
(* order and at its own offsets, with nothing left out of a retained input, *)
(* and its end behind its last byte (outer.rs, send_raw_stdin and the EOF   *)
(* control).                                                                *)
THEOREM InputDelivered == Spec => []InputOnce
<1>1. WrapperInv => InputOnce
  BY DEF WrapperInv, Input
<1> QED
  BY <1>1, InvHolds, PTL

(* What the wrapper writes comes from one session, in order and once, and   *)
(* is a prefix of a buffered session's output where the transport itself    *)
(* was silent (outer.rs, copy_raw_output and the check of the hello).       *)
THEOREM OutputDelivered == Spec => []OutputOnce
<1>1. WrapperInv => OutputOnce
  BY DEF WrapperInv, Written
<1> QED
  BY <1>1, InvHolds, PTL

(* The wrapper ends with the command's status only behind the command's end *)
(* and, in a buffered session, the last byte of its output.                 *)
THEOREM ExitIsComplete == Spec => []ExitComplete
<1>1. WrapperInv => ExitComplete
  BY DEF WrapperInv, Final
<1> QED
  BY <1>1, InvHolds, PTL

-----------------------------------------------------------------------------
(* The proxy that an attempt meets, and whatever session is behind it: the  *)
(* relay of ProxyRelay, for every last offset and every size of a frame,    *)
(* whatever the broker sends and however the relay ends.                    *)
CONSTANTS Top, MaxData
VARIABLES mode, start, eof, stopped, relay, output, hand, position, receipt, given, last, fed, input

Relay == INSTANCE ProxyRelay WITH told <- last

RelayBounds == Top \in Nat /\ MaxData \in Nat \ {0}

(* What the client was given, and what was framed for the broker, goes on   *)
(* from the offsets of the hello.                                           *)
Gapless ==
    /\ given \in [Relay!Streams -> Seq(Relay!Offsets)] /\ fed \in Seq(Relay!Offsets)
    /\ \A s \in Relay!Streams : given[s] = Relay!From(start[s], Len(given[s]))
    /\ fed = Relay!From(start["stdin"], Len(fed))

(* The positions count it, as long as the relay is on.  A framed relay has  *)
(* counted the frame that it is writing already, a raw one has not.         *)
Counted(s) == IF Relay!Framed /\ output = "write" /\ hand.kind = s THEN hand.len ELSE 0

Positioned ==
    /\ relay \notin Relay!Over => \A s \in Relay!Streams :
          position[s] = start[s] + Len(given[s]) + Counted(s)
    /\ input = start["stdin"] + Len(fed)
    /\ eof # Relay!None /\ fed # <<>> => input <= eof

(* A frame in hand was accepted, and the relay is still where it was then.  *)
InHand ==
    relay \notin Relay!Over /\ output = "write" =>
        /\ Relay!Allowed(hand)
        /\ hand.kind \in Relay!Streams =>
              IF Relay!Framed THEN hand.offset + hand.len = position[hand.kind]
                              ELSE hand.offset <= position[hand.kind] /\ Relay!Useful(hand)
        /\ hand.kind = "end" => Relay!Framed /\ hand.retained = position

(* An end that was told is the end of all that was given.                   *)
Told ==
    /\ last # "nothing" <=> relay = "exit"
    /\ last = "end" => /\ hand.kind = "end"
                       /\ \A s \in Relay!Streams : hand.retained[s] = start[s] + Len(given[s])

RelayInv == Relay!TypeOK /\ Gapless /\ Positioned /\ InHand /\ Told

-----------------------------------------------------------------------------
(* Runs of offsets.                                                         *)

LEMMA Listed ==
    ASSUME NEW S, NEW m \in Nat, NEW f \in [1 .. m -> S]
    PROVE  f \in Seq(S) /\ Len(f) = m
OBVIOUS

LEMMA FromIs ==
    ASSUME RelayBounds, NEW a \in Nat, NEW m \in Nat, a + m <= Top
    PROVE  /\ Relay!From(a, m) \in Seq(Relay!Offsets) /\ Len(Relay!From(a, m)) = m
           /\ \A i \in 1 .. m : Relay!From(a, m)[i] = a + i - 1
<1>1. \A i \in 1 .. m : a + i - 1 \in Relay!Offsets
  BY DEF RelayBounds, Relay!Offsets
<1>2. Relay!From(a, m) \in [1 .. m -> Relay!Offsets]
  BY <1>1 DEF Relay!From
<1>3. Relay!From(a, m) \in Seq(Relay!Offsets) /\ Len(Relay!From(a, m)) = m
  BY <1>2, Listed
<1> QED
  BY <1>3 DEF Relay!From

(* A run that is followed by the bytes after it is a longer run.            *)
LEMMA Extends ==
    ASSUME RelayBounds, NEW a \in Nat, NEW q \in Seq(Relay!Offsets), q = Relay!From(a, Len(q)),
           NEW m \in Nat, a + Len(q) + m <= Top
    PROVE  /\ q \o Relay!From(a + Len(q), m) \in Seq(Relay!Offsets)
           /\ Len(q \o Relay!From(a + Len(q), m)) = Len(q) + m
           /\ q \o Relay!From(a + Len(q), m) = Relay!From(a, Len(q) + m)
<1> DEFINE r == Relay!From(a + Len(q), m)
           whole == Relay!From(a, Len(q) + m)
<1>1. Len(q) \in Nat /\ a + Len(q) \in Nat /\ Len(q) + m \in Nat /\ a + (Len(q) + m) <= Top
  BY LenProperties
<1>2. r \in Seq(Relay!Offsets) /\ Len(r) = m /\ \A i \in 1 .. m : r[i] = a + Len(q) + i - 1
  BY <1>1, FromIs
<1>3. /\ whole \in Seq(Relay!Offsets) /\ Len(whole) = Len(q) + m
      /\ \A i \in 1 .. Len(q) + m : whole[i] = a + i - 1
  BY <1>1, FromIs
<1>4. \A i \in 1 .. Len(q) : q[i] = a + i - 1
  BY <1>1 DEF Relay!From
<1> HIDE DEF r, whole
<1>5. /\ q \o r \in Seq(Relay!Offsets) /\ Len(q \o r) = Len(q) + m
      /\ \A i \in 1 .. Len(q) + m : (q \o r)[i] = IF i <= Len(q) THEN q[i] ELSE r[i - Len(q)]
  BY <1>2, ConcatProperties
<1>6. ASSUME NEW i \in 1 .. Len(q) + m PROVE (q \o r)[i] = whole[i]
  <2>1. CASE i <= Len(q)
    BY <1>1, <1>3, <1>4, <1>5, <2>1
  <2>2. CASE ~(i <= Len(q))
    <3>1. i - Len(q) \in 1 .. m
      BY <1>1, <2>2
    <3>2. (q \o r)[i] = r[i - Len(q)]
      BY <1>1, <1>5, <2>2
    <3>3. r[i - Len(q)] = a + Len(q) + (i - Len(q)) - 1
      BY <1>2, <3>1
    <3>4. whole[i] = a + i - 1
      BY <1>3
    <3> QED
      BY <1>1, <3>2, <3>3, <3>4
  <2> QED
    BY <2>1, <2>2
<1>7. q \o r = whole
  BY <1>3, <1>5, <1>6, SeqEqual
<1> QED
  BY <1>5, <1>7 DEF r, whole

(* What a part of a run is.                                                 *)
LEMMA FirstOf ==
    ASSUME RelayBounds, NEW a \in Nat, NEW m \in Nat, a + m <= Top, NEW n \in 0 .. m
    PROVE  SubSeq(Relay!From(a, m), 1, n) = Relay!From(a, n)
<1>1. /\ Relay!From(a, m) \in Seq(Relay!Offsets) /\ Len(Relay!From(a, m)) = m
      /\ \A i \in 1 .. m : Relay!From(a, m)[i] = a + i - 1
  BY FromIs
<1>2. n \in Nat /\ a + n <= Top /\ n <= m
  BY DEF RelayBounds
<1>3. /\ Relay!From(a, n) \in Seq(Relay!Offsets) /\ Len(Relay!From(a, n)) = n
      /\ \A i \in 1 .. n : Relay!From(a, n)[i] = a + i - 1
  BY <1>2, FromIs
<1>4. /\ SubSeq(Relay!From(a, m), 1, n) \in Seq(Relay!Offsets) /\ Len(SubSeq(Relay!From(a, m), 1, n)) = n
      /\ \A i \in 1 .. n : SubSeq(Relay!From(a, m), 1, n)[i] = Relay!From(a, m)[i]
  <2>1. \A i \in 1 .. n : Relay!From(a, m)[i] \in Relay!Offsets
    BY <1>1, <1>2, ElementOfSeq
  <2>2. /\ SubSeq(Relay!From(a, m), 1, n) \in Seq(Relay!Offsets)
        /\ Len(SubSeq(Relay!From(a, m), 1, n)) = IF 1 <= n THEN n - 1 + 1 ELSE 0
        /\ \A i \in 1 .. n - 1 + 1 : SubSeq(Relay!From(a, m), 1, n)[i] = Relay!From(a, m)[1 + i - 1]
    BY <1>2, <2>1, SubSeqProperties
  <2> QED
    BY <1>2, <2>2
<1>5. \A i \in 1 .. n : SubSeq(Relay!From(a, m), 1, n)[i] = Relay!From(a, n)[i]
  BY <1>1, <1>2, <1>3, <1>4
<1> QED
  BY <1>3, <1>4, <1>5, SeqEqual

(* The fields of a frame.                                                   *)
LEMMA FrameFields ==
    ASSUME RelayBounds, NEW f \in Relay!Frames
    PROVE  /\ f.kind \in {"stdout", "stderr", "position", "exit", "end", "state", "malformed"}
           /\ f.kind \in Relay!Streams => f.offset \in Nat /\ f.len \in Nat /\ f.offset \in Relay!Offsets
           /\ f.kind = "position" => f.offset \in Relay!Offsets
           /\ f.kind = "end" => f.retained \in [Relay!Streams -> Relay!Offsets]
<1>1. CASE f \in Relay!DataFrames
  BY <1>1 DEF RelayBounds, Relay!DataFrames, Relay!Streams, Relay!Offsets
<1>2. CASE f \in Relay!Positions
  BY <1>2 DEF Relay!Positions, Relay!Streams
<1>3. CASE f \in Relay!Ends
  BY <1>3 DEF Relay!Ends, Relay!Streams
<1>4. CASE f \in Relay!Exits \cup Relay!Facts \cup Relay!Malformed
  BY <1>4 DEF Relay!Exits, Relay!Facts, Relay!Malformed, Relay!Streams
<1> QED
  BY <1>1, <1>2, <1>3, <1>4 DEF Relay!Frames

LEMMA Typed ==
    ASSUME RelayBounds, RelayInv
    PROVE  /\ \A s \in Relay!Streams : /\ start[s] \in Nat /\ start[s] \in Relay!Offsets
                                 /\ position[s] \in Nat /\ position[s] <= Top
                                 /\ given[s] \in Seq(Relay!Offsets) /\ Len(given[s]) \in Nat
           /\ start["stdin"] \in Nat /\ input \in Nat /\ input <= Top
           /\ fed \in Seq(Relay!Offsets) /\ Len(fed) \in Nat
           /\ Top \in Nat /\ MaxData \in Nat
           /\ eof \in Relay!Offsets \cup {Relay!None} /\ hand \in Relay!Frames
<1>1. Relay!Offsets \subseteq Nat /\ \A n \in Relay!Offsets : n <= Top
  BY DEF RelayBounds, Relay!Offsets
<1>2. /\ start \in [Relay!Streams \cup {"stdin"} -> Relay!Offsets]
      /\ position \in [Relay!Streams -> Relay!Offsets]
      /\ input \in Relay!Offsets /\ eof \in Relay!Offsets \cup {Relay!None} /\ hand \in Relay!Frames
  BY DEF RelayInv, Relay!TypeOK
<1>3. given \in [Relay!Streams -> Seq(Relay!Offsets)] /\ fed \in Seq(Relay!Offsets)
  BY DEF RelayInv, Gapless
<1>4. Len(fed) \in Nat /\ \A s \in Relay!Streams : given[s] \in Seq(Relay!Offsets) /\ Len(given[s]) \in Nat
  BY <1>3, LenProperties
<1> QED
  BY <1>1, <1>2, <1>3, <1>4 DEF RelayBounds

LEMMA RelayInit ==
    ASSUME RelayBounds
    PROVE  Relay!Init => RelayInv
<1> SUFFICES ASSUME Relay!Init PROVE RelayInv
    OBVIOUS
<1>1. start \in [Relay!Streams \cup {"stdin"} -> Relay!Offsets] /\ Relay!Offsets \subseteq Nat
  BY DEF Relay!Init, Relay!Offsets
<1>2. position \in [Relay!Streams -> Relay!Offsets] /\ \A s \in Relay!Streams : position[s] = start[s]
  BY <1>1 DEF Relay!Init
<1>3. /\ \A s \in Relay!Streams : given[s] = <<>> /\ Len(given[s]) = 0
      /\ given \in [Relay!Streams -> Seq(Relay!Offsets)]
      /\ fed = <<>> /\ Len(fed) = 0 /\ fed \in Seq(Relay!Offsets)
  BY EmptySeq DEF Relay!Init
<1>4. hand \in Relay!Frames
  BY DEF Relay!Init, Relay!Frames, Relay!Malformed
<1>5. Relay!TypeOK
  <2>1. /\ \A s \in Relay!Streams : \A i \in DOMAIN given[s] : given[s][i] \in Relay!Offsets
        /\ \A i \in DOMAIN fed : fed[i] \in Relay!Offsets
    BY <1>3, LenProperties, ElementOfSeq
  <2> QED
    BY <1>1, <1>2, <1>4, <2>1 DEF Relay!Init, Relay!TypeOK
<1>6. ASSUME NEW a PROVE Relay!From(a, 0) = <<>>
  BY DEF Relay!From
<1>7. Gapless
  BY <1>3, <1>6 DEF Gapless
<1>8. start["stdin"] \in Nat /\ \A s \in Relay!Streams : start[s] \in Nat
  BY <1>1
<1>9. Positioned /\ InHand /\ Told
  BY <1>2, <1>3, <1>8 DEF Relay!Init, Positioned, Counted, InHand, Told, Relay!Over
<1> QED
  BY <1>5, <1>7, <1>9 DEF RelayInv

-----------------------------------------------------------------------------
(* The relay opens, or is over: nothing else changes.                       *)
LEMMA EndingStep ==
    ASSUME RelayBounds, RelayInv, relay \in {"opening", "on"},
           relay' \in {"on", "lost", "failed", "refused"},
           UNCHANGED <<Relay!opening, Relay!outward, Relay!inward>>
    PROVE  RelayInv'
<1>1. UNCHANGED <<mode, start, eof, stopped, output, hand, position, receipt, given, last, fed, input>>
  BY DEF Relay!opening, Relay!outward, Relay!inward
<1>2. Relay!TypeOK' /\ Gapless'
  BY <1>1 DEF RelayInv, Relay!TypeOK, Relay!Over, Gapless
<1>3. Positioned' /\ InHand' /\ Told'
  BY <1>1 DEF RelayInv, Positioned, Counted, Relay!Framed, InHand, Relay!Allowed, Relay!Fits,
              Relay!Useful, Relay!Skip, Told, Relay!Over
<1> QED
  BY <1>2, <1>3 DEF RelayInv

(* A framed relay counts the frame before it writes it; a raw one takes in  *)
(* hand what the client has not, and passes over the rest.                  *)
LEMMA BeginStep ==
    ASSUME RelayBounds, RelayInv, NEW f \in Relay!Frames, Relay!Begin(f)
    PROVE  RelayInv'
<1>1. /\ relay = "on" /\ output = "read" /\ Relay!Allowed(f) /\ Relay!TypeOK /\ Gapless /\ Positioned /\ Told
      /\ UNCHANGED <<mode, start, eof, stopped, relay, given, last, fed, input>>
  BY DEF RelayInv, Relay!Begin, Relay!opening, Relay!inward
<1>2. Gapless'
  BY <1>1 DEF Gapless
<1>3. last = "nothing" /\ Told'
  BY <1>1 DEF Told, Relay!TypeOK
<1>4. \A s \in Relay!Streams : position[s] = start[s] + Len(given[s]) /\ position[s] \in Nat
  BY <1>1, Typed DEF Positioned, Counted, Relay!Over
<1>5. Relay!Framed' = Relay!Framed /\ Relay!Allowed(f)' = Relay!Allowed(f)
  BY <1>1 DEF Relay!Framed, Relay!Allowed, Relay!Fits
<1>6. CASE Relay!Framed
  <2>1. /\ Relay!InPlace(f) /\ hand' = f /\ output' = "write"
        /\ position' = [s \in Relay!Streams |-> IF f.kind = s THEN f.offset + f.len ELSE position[s]]
        /\ receipt' = IF f.kind = "position" THEN f.offset ELSE receipt
    BY <1>6 DEF Relay!Begin
  <2>2. f.kind \in Relay!Streams => /\ f.offset \in Nat /\ f.len \in Nat /\ f.offset + f.len \in Relay!Offsets
                              /\ f.offset = position[f.kind]
    <3>1. f.kind \in Relay!Streams => Relay!Fits(f) /\ f.offset = position[f.kind]
      BY <1>1, <2>1 DEF Relay!Allowed, Relay!InPlace, Relay!Streams
    <3> QED
      BY <3>1, FrameFields, Typed DEF Relay!Fits, Relay!Offsets
  <2>3. position' \in [Relay!Streams -> Relay!Offsets] /\ receipt' \in Relay!Offsets
    BY <1>1, <2>1, <2>2, FrameFields DEF Relay!TypeOK
  <2>4. Relay!TypeOK'
    BY <1>1, <2>1, <2>3 DEF Relay!TypeOK
  <2>5. Positioned'
    <3>1. ASSUME NEW s \in Relay!Streams
          PROVE  position'[s] = start[s] + Len(given[s]) + Counted(s)'
      <4>1. CASE f.kind = s
        BY <1>4, <1>5, <1>6, <2>1, <2>2, <4>1 DEF Counted
      <4>2. CASE f.kind # s
        BY <1>4, <1>5, <2>1, <4>2, Typed DEF Counted
      <4> QED
        BY <4>1, <4>2
    <3> QED
      BY <1>1, <3>1 DEF Positioned
  <2>6. InHand'
    <3>1. f.kind \in Relay!Streams => f.offset + f.len = position'[f.kind]
      BY <2>1
    <3>2. f.kind = "end" => f.retained = position'
      <4>1. f.kind = "end" => f.retained = position /\ position' = position
        BY <1>1, <2>1 DEF Relay!InPlace, Relay!TypeOK, Relay!Streams
      <4> QED
        BY <4>1
    <3> QED
      BY <1>1, <1>5, <1>6, <2>1, <3>1, <3>2 DEF InHand
  <2> QED
    BY <1>2, <1>3, <2>4, <2>5, <2>6 DEF RelayInv
<1>7. CASE ~Relay!Framed
  <2>1. /\ Relay!NoGap(f) /\ UNCHANGED <<position, receipt>>
        /\ \/ (Relay!Useful(f) \/ f.kind = "exit") /\ hand' = f /\ output' = "write"
           \/ UNCHANGED <<hand, output>>
    BY <1>7 DEF Relay!Begin
  <2>2. Relay!TypeOK'
    BY <1>1, <2>1 DEF Relay!TypeOK
  <2>3. Positioned'
    BY <1>1, <1>4, <1>5, <1>7, <2>1, Typed DEF Positioned, Counted
  <2>4. InHand'
    <3>1. CASE UNCHANGED <<hand, output>>
      BY <1>1, <3>1 DEF InHand
    <3>2. CASE (Relay!Useful(f) \/ f.kind = "exit") /\ hand' = f /\ output' = "write"
      <4>1. f.kind # "end"
        BY <3>2 DEF Relay!Useful, Relay!Streams
      <4>2. f.kind \in Relay!Streams => f.offset <= position'[f.kind] /\ Relay!Useful(f)'
        <5>1. f.kind \in Relay!Streams => Relay!Useful(f) /\ f.offset <= position[f.kind]
          BY <2>1, <3>2 DEF Relay!NoGap, Relay!Streams
        <5> QED
          BY <2>1, <5>1 DEF Relay!Useful, Relay!Skip
      <4> QED
        BY <1>1, <1>5, <1>7, <3>2, <4>1, <4>2 DEF InHand, Relay!Useful, Relay!Skip
    <3> QED
      BY <2>1, <3>1, <3>2
  <2> QED
    BY <1>2, <1>3, <2>2, <2>3, <2>4 DEF RelayInv
<1> QED
  BY <1>6, <1>7

(* What is fresh in the frame in hand goes on from what was given.          *)
LEMMA FreshGoesOn ==
    ASSUME RelayBounds, RelayInv, relay = "on", output = "write", hand.kind \in Relay!Streams
    PROVE  \E m \in Nat :
              /\ Relay!Fresh(hand) = Relay!From(start[hand.kind] + Len(given[hand.kind]), m)
              /\ start[hand.kind] + Len(given[hand.kind]) + m <= Top
              /\ Relay!Framed => position[hand.kind] = start[hand.kind] + Len(given[hand.kind]) + m
              /\ ~Relay!Framed => position[hand.kind] = start[hand.kind] + Len(given[hand.kind])
<1> DEFINE s == hand.kind
           have == start[s] + Len(given[s])
<1>1. /\ hand.offset \in Nat /\ hand.len \in Nat /\ position[s] \in Nat /\ Top \in Nat
      /\ have \in Nat
  BY FrameFields, Typed
<1>2. /\ Relay!Allowed(hand) /\ Relay!Fits(hand)
      /\ Relay!Framed => hand.offset + hand.len = position[s]
      /\ ~Relay!Framed => hand.offset <= position[s] /\ Relay!Useful(hand)
  BY DEF RelayInv, InHand, Relay!Over, Relay!Allowed, Relay!Streams
<1>3. position[s] = have + Counted(s) /\ hand.offset + hand.len <= Top
  BY <1>2 DEF RelayInv, Positioned, Relay!Over, Relay!Fits
<1>4. CASE Relay!Framed
  <2>1. position[s] = have + hand.len
    BY <1>3, <1>4 DEF Counted
  <2>2. hand.offset = have
    BY <1>1, <1>2, <1>4, <2>1
  <2>3. Relay!Fresh(hand) = Relay!From(have, hand.len)
    <3>1. Relay!Fresh(hand) = [i \in 1 .. hand.len - 0 |-> hand.offset + 0 + i - 1]
      BY <1>4 DEF Relay!Fresh
    <3>2. hand.len - 0 = hand.len /\ hand.offset + 0 = hand.offset
      BY <1>1
    <3> QED
      BY <2>2, <3>1, <3>2 DEF Relay!From
  <2> QED
    BY <1>1, <1>3, <1>4, <2>1, <2>2, <2>3
<1>5. CASE ~Relay!Framed
  <2>1. position[s] = have
    BY <1>1, <1>3, <1>5 DEF Counted
  <2>2. /\ Relay!Skip(hand) = have - hand.offset /\ hand.len - Relay!Skip(hand) \in Nat
        /\ hand.offset + Relay!Skip(hand) = have
        /\ have + (hand.len - Relay!Skip(hand)) = hand.offset + hand.len
    BY <1>1, <1>2, <1>5, <2>1 DEF Relay!Skip, Relay!Useful
  <2>3. Relay!Fresh(hand) = Relay!From(have, hand.len - Relay!Skip(hand))
    <3>1. Relay!Fresh(hand) =
              [i \in 1 .. hand.len - Relay!Skip(hand) |-> hand.offset + Relay!Skip(hand) + i - 1]
      BY <1>5 DEF Relay!Fresh
    <3> QED
      BY <2>2, <3>1 DEF Relay!From
  <2> QED
    BY <1>3, <1>5, <2>1, <2>2, <2>3
<1> QED
  BY <1>4, <1>5

LEMMA GiveKeeps ==
    ASSUME RelayBounds, RelayInv, NEW s \in Relay!Streams, NEW n \in Nat, start[s] + Len(given[s]) + n <= Top,
           Relay!Give(s, Relay!From(start[s] + Len(given[s]), n)), UNCHANGED <<start, fed>>
    PROVE  /\ Gapless' /\ Len(given'[s]) = Len(given[s]) + n
           /\ \A t \in Relay!Streams \ {s} : given'[t] = given[t]
           /\ \A t \in Relay!Streams : \A i \in DOMAIN given'[t] : given'[t][i] \in Relay!Offsets
<1> DEFINE more == given[s] \o Relay!From(start[s] + Len(given[s]), n)
<1>1. /\ start[s] \in Nat /\ given[s] \in Seq(Relay!Offsets) /\ given[s] = Relay!From(start[s], Len(given[s]))
      /\ given \in [Relay!Streams -> Seq(Relay!Offsets)]
  BY Typed DEF RelayInv, Gapless
<1>2. /\ more \in Seq(Relay!Offsets) /\ Len(more) = Len(given[s]) + n
      /\ more = Relay!From(start[s], Len(given[s]) + n)
  BY <1>1, Extends
<1>3. given' = [given EXCEPT ![s] = more]
  BY DEF Relay!Give
<1> HIDE DEF more
<1>4. /\ given' \in [Relay!Streams -> Seq(Relay!Offsets)] /\ given'[s] = more
      /\ \A t \in Relay!Streams \ {s} : given'[t] = given[t]
  BY <1>1, <1>2, <1>3
<1>5. Gapless'
  BY <1>2, <1>4 DEF RelayInv, Gapless
<1>6. ASSUME NEW t \in Relay!Streams, NEW i \in DOMAIN given'[t] PROVE given'[t][i] \in Relay!Offsets
  <2>1. given'[t] \in Seq(Relay!Offsets)
    BY <1>4
  <2> QED
    BY <1>6, <2>1, LenProperties, ElementOfSeq
<1> QED
  BY <1>2, <1>4, <1>5, <1>6

(* The frame in hand is written: an exit or an end is told, and ends it.    *)
LEMMA WrittenStep ==
    ASSUME RelayBounds, RelayInv, Relay!Written
    PROVE  RelayInv'
<1>1. /\ relay = "on" /\ output = "write" /\ output' = "read"
      /\ last' = (IF hand.kind \in {"exit", "end"} THEN hand.kind ELSE last)
      /\ relay' = (IF hand.kind \in {"exit", "end"} THEN "exit" ELSE relay)
      /\ UNCHANGED <<mode, start, eof, stopped, hand, receipt, fed, input>>
      /\ Relay!TypeOK /\ Gapless /\ Positioned /\ InHand /\ Told
  BY DEF RelayInv, Relay!Written, Relay!opening, Relay!inward
<1>2. last = "nothing" /\ Relay!Framed' = Relay!Framed
  BY <1>1 DEF Told, Relay!TypeOK, Relay!Framed
<1>3. \A s \in Relay!Streams : position[s] = start[s] + Len(given[s]) + Counted(s)
  BY <1>1 DEF Positioned, Relay!Over
<1>4. CASE hand.kind \in Relay!Streams
  <2>1. PICK s \in Relay!Streams : s = hand.kind
    BY <1>4
  <2>2. PICK m \in Nat :
           /\ Relay!Fresh(hand) = Relay!From(start[s] + Len(given[s]), m)
           /\ start[s] + Len(given[s]) + m <= Top
           /\ Relay!Framed => position[s] = start[s] + Len(given[s]) + m
           /\ ~Relay!Framed => position[s] = start[s] + Len(given[s])
    BY <1>1, <2>1, FreshGoesOn
  <2>3. /\ Relay!Give(s, Relay!From(start[s] + Len(given[s]), m))
        /\ position' = IF Relay!Framed THEN position ELSE [position EXCEPT ![s] = @ + Len(Relay!Fresh(hand))]
    BY <2>1, <2>2 DEF Relay!Written
  <2>4. Len(Relay!Fresh(hand)) = m
    <3>1. start[s] + Len(given[s]) \in Nat
      BY Typed
    <3> QED
      BY <2>2, <3>1, FromIs
  <2>5. /\ Gapless' /\ Len(given'[s]) = Len(given[s]) + m
        /\ \A t \in Relay!Streams \ {s} : given'[t] = given[t]
        /\ \A t \in Relay!Streams : \A i \in DOMAIN given'[t] : given'[t][i] \in Relay!Offsets
    BY <1>1, <2>2, <2>3, GiveKeeps
  <2>6. relay' = "on" /\ last' = "nothing"
    BY <1>1, <1>2, <1>4 DEF Relay!Streams
  <2>7. start[s] + Len(given[s]) + m \in Relay!Offsets
    BY <2>2, Typed DEF Relay!Offsets
  <2>8. position' \in [Relay!Streams -> Relay!Offsets] /\ position'[s] = start[s] + Len(given[s]) + m
    BY <1>1, <2>2, <2>3, <2>4, <2>7 DEF Relay!TypeOK
  <2>9. Relay!TypeOK'
    BY <1>1, <2>5, <2>6, <2>8 DEF Relay!TypeOK
  <2>10. Positioned'
    <3>1. ASSUME NEW t \in Relay!Streams PROVE position'[t] = start[t] + Len(given'[t]) + Counted(t)'
      <4>1. Counted(t)' = 0
        BY <1>1 DEF Counted
      <4>2. CASE t = s
        BY <2>5, <2>8, <4>1, <4>2, Typed
      <4>3. CASE t # s
        <5>1. position'[t] = position[t] /\ given'[t] = given[t] /\ Counted(t) = 0
          BY <1>1, <2>1, <2>3, <2>5, <4>3 DEF Counted, Relay!TypeOK
        <5> QED
          BY <1>3, <4>1, <5>1
      <4> QED
        BY <4>2, <4>3
    <3> QED
      BY <1>1, <3>1 DEF Positioned
  <2> QED
    BY <1>1, <2>5, <2>6, <2>9, <2>10 DEF RelayInv, InHand, Told
<1>5. CASE hand.kind \notin Relay!Streams
  <2>1. UNCHANGED <<given, position>>
    BY <1>5 DEF Relay!Written
  <2>2. Relay!TypeOK' /\ Gapless'
    BY <1>1, <2>1 DEF Relay!TypeOK, Relay!Over, Gapless
  <2>3. \A s \in Relay!Streams : Counted(s) = 0 /\ Counted(s)' = 0
    BY <1>1, <1>5 DEF Counted
  <2>4. Positioned'
    BY <1>1, <1>3, <2>1, <2>3 DEF Positioned
  <2>5. InHand'
    BY <1>1 DEF InHand
  <2>6. Told'
    <3>1. (last' # "nothing" <=> relay' = "exit") /\ (last' = "end" => hand.kind = "end")
      BY <1>1, <1>2
    <3>2. ASSUME hand.kind = "end", NEW s \in Relay!Streams
          PROVE  hand.retained[s] = start[s] + Len(given[s])
      <4>1. hand.retained = position
        BY <1>1, <3>2 DEF InHand, Relay!Over
      <4> QED
        BY <1>3, <2>3, <4>1, Typed
    <3> QED
      BY <1>1, <2>1, <3>1, <3>2 DEF Told
  <2> QED
    BY <2>2, <2>4, <2>5, <2>6 DEF RelayInv
<1> QED
  BY <1>4, <1>5

(* The write is torn: a raw client keeps the first bytes of it.             *)
LEMMA TornStep ==
    ASSUME RelayBounds, RelayInv, Relay!Torn
    PROVE  RelayInv'
<1>1. /\ relay = "on" /\ output = "write" /\ relay' = "lost"
      /\ UNCHANGED <<mode, start, eof, stopped, output, hand, position, receipt, last, fed, input>>
      /\ Relay!TypeOK /\ Gapless /\ Positioned /\ Told
  BY DEF RelayInv, Relay!Torn, Relay!opening, Relay!inward
<1>2. /\ Gapless'
      /\ \A t \in Relay!Streams : \A i \in DOMAIN given'[t] : given'[t][i] \in Relay!Offsets
  <2>1. CASE ~Relay!Framed /\ hand.kind \in Relay!Streams
    <3>1. PICK s \in Relay!Streams : s = hand.kind
      BY <2>1
    <3>2. PICK n \in 0 .. Len(Relay!Fresh(hand)) : Relay!Give(s, SubSeq(Relay!Fresh(hand), 1, n))
      BY <2>1, <3>1 DEF Relay!Torn
    <3>3. PICK m \in Nat :
             /\ Relay!Fresh(hand) = Relay!From(start[s] + Len(given[s]), m)
             /\ start[s] + Len(given[s]) + m <= Top
      BY <1>1, <3>1, FreshGoesOn
    <3>4. start[s] + Len(given[s]) \in Nat /\ Top \in Nat
      BY Typed
    <3>5. Len(Relay!Fresh(hand)) = m
      BY <3>3, <3>4, FromIs
    <3>6. SubSeq(Relay!Fresh(hand), 1, n) = Relay!From(start[s] + Len(given[s]), n)
      BY <3>2, <3>3, <3>4, <3>5, FirstOf
    <3>7. n \in Nat /\ start[s] + Len(given[s]) + n <= Top
      BY <3>2, <3>3, <3>4, <3>5
    <3> QED
      BY <1>1, <3>2, <3>6, <3>7, GiveKeeps
  <2>2. CASE ~(~Relay!Framed /\ hand.kind \in Relay!Streams)
    <3>1. UNCHANGED given
      BY <2>2 DEF Relay!Torn
    <3> QED
      BY <1>1, <3>1 DEF Relay!TypeOK, Gapless
  <2> QED
    BY <2>1, <2>2
<1>3. Relay!TypeOK'
  BY <1>1, <1>2 DEF Relay!TypeOK, Relay!Over
<1>4. last = "nothing"
  BY <1>1 DEF Told
<1>5. Positioned' /\ InHand' /\ Told'
  BY <1>1, <1>4 DEF Positioned, InHand, Told, Relay!Over
<1> QED
  BY <1>2, <1>3, <1>5 DEF RelayInv

(* The input of a raw client is framed where the last frame ended, and not  *)
(* past the end it declared.                                                *)
LEMMA ForwardStep ==
    ASSUME RelayBounds, RelayInv, NEW n \in 1 .. MaxData, Relay!ForwardRaw(n)
    PROVE  RelayInv'
<1>1. /\ relay = "on" /\ ~Relay!Beyond /\ ~stopped /\ n <= Relay!Room
      /\ fed' = fed \o [i \in 1 .. n |-> input + i - 1]
      /\ input + n <= Top /\ input' = input + n
      /\ UNCHANGED <<mode, start, eof, stopped, relay, output, hand, position, receipt, given, last>>
      /\ Relay!TypeOK /\ Gapless /\ Positioned /\ InHand /\ Told
  BY DEF RelayInv, Relay!ForwardRaw, Relay!opening, Relay!outward
<1>2. /\ n \in Nat /\ start["stdin"] \in Nat /\ input \in Nat /\ fed \in Seq(Relay!Offsets)
      /\ Len(fed) \in Nat /\ input = start["stdin"] + Len(fed) /\ Top \in Nat
  BY <1>1, Typed DEF Positioned
<1>3. fed' = fed \o Relay!From(start["stdin"] + Len(fed), n)
  BY <1>1, <1>2 DEF Relay!From
<1>4. /\ fed' \in Seq(Relay!Offsets) /\ Len(fed') = Len(fed) + n
      /\ fed' = Relay!From(start["stdin"], Len(fed) + n)
  <2>1. fed = Relay!From(start["stdin"], Len(fed)) /\ start["stdin"] + Len(fed) + n <= Top
    BY <1>1, <1>2 DEF Gapless
  <2> QED
    BY <1>2, <1>3, <2>1, Extends
<1>5. Gapless'
  BY <1>1, <1>4 DEF Gapless
<1>6. Relay!TypeOK'
  <2>1. input' \in Relay!Offsets
    BY <1>1, <1>2 DEF Relay!Offsets
  <2>2. \A i \in DOMAIN fed' : fed'[i] \in Relay!Offsets
    BY <1>4, LenProperties, ElementOfSeq
  <2> QED
    BY <1>1, <2>1, <2>2 DEF Relay!TypeOK
<1>7. Positioned'
  <2>1. input' = start["stdin"] + Len(fed')
    BY <1>1, <1>2, <1>4
  <2>2. eof # Relay!None => input' <= eof
    <3>1. eof # Relay!None => eof \in Nat
      BY Typed DEF Relay!Offsets
    <3> QED
      BY <1>1, <1>2, <3>1 DEF Relay!Room
  <2> QED
    BY <1>1, <2>1, <2>2 DEF Positioned, Counted, Relay!Framed
<1>8. InHand' /\ Told'
  BY <1>1 DEF InHand, Relay!Allowed, Relay!Fits, Relay!Useful, Relay!Skip, Relay!Framed, Told
<1> QED
  BY <1>5, <1>6, <1>7, <1>8 DEF RelayInv

-----------------------------------------------------------------------------
LEMMA RelayStep ==
    ASSUME RelayBounds
    PROVE  RelayInv /\ [Relay!Next]_(Relay!vars) => RelayInv'
<1> SUFFICES ASSUME RelayInv, [Relay!Next]_(Relay!vars) PROVE RelayInv'
    OBVIOUS
<1>1. CASE Relay!Open
  BY <1>1, EndingStep DEF Relay!Open
<1>2. CASE Relay!OpenRefused
  BY <1>2, EndingStep DEF Relay!OpenRefused, Relay!Ending
<1>3. CASE \E f \in Relay!Frames : Relay!Begin(f)
  BY <1>3, BeginStep
<1>4. CASE \E f \in Relay!Frames : Relay!Reject(f)
  BY <1>4, EndingStep DEF Relay!Reject, Relay!Ending
<1>5. CASE Relay!BrokerEnds
  BY <1>5, EndingStep DEF Relay!BrokerEnds, Relay!Ending
<1>6. CASE Relay!Written \/ Relay!Torn
  BY <1>6, WrittenStep, TornStep
<1>7. CASE \E n \in 1 .. MaxData : Relay!ForwardRaw(n)
  BY <1>7, ForwardStep
<1>8. CASE \E n \in 1 .. MaxData : Relay!Overflows(n)
  BY <1>8, EndingStep DEF Relay!Overflows, Relay!Ending
<1>9. CASE Relay!ForwardFails
  BY <1>9, EndingStep DEF Relay!ForwardFails, Relay!Ending
<1>10. CASE Relay!InputEnds
  BY <1>10, EndingStep, TornStep DEF Relay!InputEnds, Relay!Ending
<1>11. CASE UNCHANGED Relay!vars
  BY <1>11 DEF Relay!vars, RelayInv, Relay!TypeOK, Gapless, Positioned, Counted, Relay!Framed,
               InHand, Relay!Allowed, Relay!Fits, Relay!Useful, Relay!Skip, Told
<1> QED
  BY <1>1, <1>2, <1>3, <1>4, <1>5, <1>6, <1>7, <1>8, <1>9, <1>10, <1>11 DEF Relay!Next

(* A client has the bytes from the offset of its hello on, each once and    *)
(* none left out, an end that it is told of speaks of just these, and what  *)
(* a raw client typed is framed once, in order and up to the end that it    *)
(* declared - whatever the broker sends (server.rs relay_streams).          *)
THEOREM ClientRelayed ==
    ASSUME RelayBounds
    PROVE  Relay!Spec => []Relay!Relayed
<1>1. RelayInv => Relay!Relayed
  BY Typed DEF RelayInv, Gapless, Positioned, Told, Relay!Relayed
<1>2. Relay!Init => RelayInv
  BY RelayInit
<1>3. RelayInv /\ [Relay!Next]_(Relay!vars) => RelayInv'
  BY RelayStep
<1> QED
  BY <1>1, <1>2, <1>3, PTL DEF Relay!Spec
=============================================================================
