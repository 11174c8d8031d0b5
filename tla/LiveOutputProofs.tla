--------------------------- MODULE LiveOutputProofs ---------------------------
(***************************************************************************)
(* Proof that Reliable of LiveOutput holds for every capacity of the       *)
(* queues and however much the command prints.                             *)
(***************************************************************************)
EXTENDS LiveOutput, TLAPS

(* A drain is one chunk ahead of its queue between recording and           *)
(* publishing, and a stream that is closed has stopped.                    *)
Flow(s) ==
    /\ drain[s] = "recorded" => end[s] = sent[s] + 1
    /\ drain[s] # "recorded" => end[s] = sent[s]
    /\ closed[s] => drain[s] \in {"closing", "done"}

(* The sender's own position stays behind its receiver's cursor from the   *)
(* first chunk it writes on: what it drops as covered is the hello's.      *)
Behind(s) ==
    /\ cursor[s] <= sent[s]
    /\ Attached => position[s] = start[s] \/ position[s] <= cursor[s]
    /\ Attached /\ ~gap => start[s] <= expected[s]

(* The chunk in hand was taken from the queue and keeps its offset.        *)
InHand ==
    pc = "write" =>
        /\ hand.offset = hand.content
        /\ hand.content < cursor[hand.stream]
        /\ position[hand.stream] = hand.content

Over == pc \in {"exit", "ended"} => Terminal

LiveInv ==
    /\ TypeOK
    /\ \A s \in Streams : Flow(s) /\ Behind(s)
    /\ InHand
    /\ Over
    /\ Accounted
    /\ GapsVisible

-----------------------------------------------------------------------------
(* Facts about the bounds.                                                  *)

LEMMA Counting ==
    /\ Counts \subseteq Nat /\ 0 \in Counts
    /\ \A n \in Counts, m \in Nat : m <= n => m \in Counts
    /\ \A s \in Streams : MaxChunks[s] \in Counts
<1>1. MaxChunks["stdout"] \in Nat /\ MaxChunks["stderr"] \in Nat
  BY LiveAssumption DEF Streams
<1>2. CASE MaxChunks["stdout"] < MaxChunks["stderr"]
  <2>1. Counts = 0 .. MaxChunks["stderr"]
    BY <1>2 DEF Counts
  <2> QED
    BY <1>1, <1>2, <2>1 DEF Streams
<1>3. CASE ~(MaxChunks["stdout"] < MaxChunks["stderr"])
  <2>1. Counts = 0 .. MaxChunks["stdout"]
    BY <1>3 DEF Counts
  <2> QED
    BY <1>1, <1>3, <2>1 DEF Streams
<1> QED
  BY <1>2, <1>3

LEMMA Cursors ==
    ASSUME TypeOK, NEW s \in Streams
    PROVE  /\ end[s] \in Nat /\ sent[s] \in Nat /\ cursor[s] \in Nat /\ position[s] \in Nat
           /\ start[s] \in Nat /\ expected[s] \in Nat /\ got[s] \subseteq Nat
           /\ end[s] \in Counts /\ sent[s] \in Counts /\ cursor[s] \in Counts
           /\ position[s] \in Counts
BY Counting DEF TypeOK

LEMMA InitInv == Init => LiveInv
<1> SUFFICES ASSUME Init PROVE LiveInv
    OBVIOUS
<1>1. TypeOK
  <2>1. closed \in [Streams -> BOOLEAN] /\ got \in [Streams -> SUBSET Counts]
    BY DEF Init
  <2>2. Zero \in [Streams -> Counts] /\ NoChunk \in Chunks
    BY Counting DEF Zero, NoChunk, Chunks, Streams
  <2>3. drain \in [Streams -> {"reading", "recorded", "notifying", "closing", "done"}]
    BY DEF Init
  <2> QED
    BY <2>1, <2>2, <2>3 DEF Init, TypeOK, PCs, Streams
<1>2. \A s \in Streams : Flow(s) /\ Behind(s)
  BY DEF Init, Flow, Behind, Zero, Attached
<1>3. InHand /\ Over /\ Accounted /\ GapsVisible
  BY DEF Init, InHand, Over, Accounted, GapsVisible, Attached
<1> QED
  BY <1>1, <1>2, <1>3 DEF LiveInv

-----------------------------------------------------------------------------
(* The command's side.                                                      *)

(* Recording moves the end, publishing the queue: neither reaches past the  *)
(* receiver's cursor, and what falls out of the queue only grows.           *)
LEMMA RecordStep ==
    ASSUME LiveInv, NEW s \in Streams, Record(s)
    PROVE  LiveInv'
<1>1. TypeOK'
  <2>1. end' \in [Streams -> Counts]
    <3>1. end[s] \in Nat /\ end[s] < MaxChunks[s] /\ MaxChunks[s] \in Nat
      BY Cursors, LiveAssumption DEF Record, LiveInv
    <3>2. end[s] + 1 \in Counts
      BY <3>1, Counting
    <3> QED
      BY <3>2 DEF Record, LiveInv, TypeOK
  <2>2. drain' \in [Streams -> {"reading", "recorded", "notifying", "closing", "done"}]
    BY DEF Record, LiveInv, TypeOK
  <2> QED
    BY <2>1, <2>2 DEF Record, sender, LiveInv, TypeOK
<1>2. \A t \in Streams : Flow(t)'
  BY Cursors DEF Record, LiveInv, TypeOK, Flow
<1>3. (\A t \in Streams : Behind(t)') /\ InHand' /\ Over' /\ Accounted' /\ GapsVisible'
  BY DEF Record, sender, LiveInv, Behind, InHand, Over, Terminal, Accounted, GapsVisible,
         Attached, Oldest
<1> QED
  BY <1>1, <1>2, <1>3 DEF LiveInv

LEMMA PublishStep ==
    ASSUME LiveInv, NEW s \in Streams, PublishChunk(s)
    PROVE  LiveInv'
<1>1. TypeOK /\ Flow(s) /\ drain[s] = "recorded" /\ sent'[s] = sent[s] + 1
  BY DEF LiveInv, PublishChunk, TypeOK
<1>2. sent'[s] = end[s]
  BY <1>1 DEF Flow
<1>3. TypeOK'
  <2>1. sent' \in [Streams -> Counts]
    BY <1>1, <1>2, Cursors DEF PublishChunk, TypeOK
  <2>2. drain' \in [Streams -> {"reading", "recorded", "notifying", "closing", "done"}]
    BY <1>1 DEF PublishChunk, TypeOK
  <2> QED
    BY <1>1, <2>1, <2>2 DEF PublishChunk, sender, TypeOK
<1>4. \A t \in Streams : Flow(t)'
  BY <1>1, <1>2 DEF PublishChunk, LiveInv, TypeOK, Flow
<1>5. \A t \in Streams : Behind(t)'
  BY <1>1, Cursors DEF PublishChunk, sender, LiveInv, TypeOK, Behind, Attached
<1>6. InHand' /\ Over' /\ GapsVisible'
  BY DEF PublishChunk, sender, LiveInv, InHand, Over, Terminal, GapsVisible, Attached
<1>7. Accounted'
  <2> SUFFICES ASSUME Attached, NEW t \in Streams, NEW i \in start[t] .. (sent'[t] - 1)
               PROVE  \/ i \in got[t]
                      \/ hand.stream = t /\ hand.content = i /\ pc = "write"
                      \/ i >= cursor[t]
                      \/ i < Oldest(t)'
    BY DEF PublishChunk, sender, Accounted, Attached, Oldest
  <2>1. CASE i < sent[t]
    <3>1. \/ i \in got[t]
          \/ hand.stream = t /\ hand.content = i /\ pc = "write"
          \/ i >= cursor[t]
          \/ i < Oldest(t)
      BY <1>1, <2>1, Cursors DEF LiveInv, Accounted
    <3>2. Oldest(t) <= Oldest(t)'
      BY <1>1, Cursors, LiveAssumption DEF PublishChunk, TypeOK, Oldest
    <3>3. Oldest(t) \in Int /\ Oldest(t)' \in Int /\ i \in Int
      <4>1. sent[t] \in Nat /\ sent'[t] \in Nat
        BY <1>1, <1>3, Counting DEF TypeOK
      <4> QED
        BY <4>1, LiveAssumption DEF Oldest
    <3> QED
      BY <3>1, <3>2, <3>3
  <2>2. CASE i >= sent[t]
    BY <1>1, <2>2, Cursors DEF LiveInv, Behind
  <2> QED
    BY <1>1, <2>1, <2>2, Cursors
<1> QED
  BY <1>3, <1>4, <1>5, <1>6, <1>7 DEF LiveInv

(* The other steps of the command tell of ends and wake sleepers.           *)
LEMMA TellStep ==
    ASSUME LiveInv,
           \/ \E s \in Streams : NotifyChunk(s) \/ CloseStream(s) \/ FailStream(s)
                                    \/ NotifyClosed(s)
           \/ RecordStatus \/ NotifyStatus
    PROVE  LiveInv'
<1>1. TypeOK
  BY DEF LiveInv
<1>2. UNCHANGED <<end, sent, sender>>
  BY DEF NotifyChunk, CloseStream, FailStream, NotifyClosed, RecordStatus, NotifyStatus
<1>3. /\ closed' \in [Streams -> BOOLEAN] /\ status' \in BOOLEAN /\ woken' \in BOOLEAN
      /\ Terminal => Terminal'
  <2>1. CASE \E s \in Streams : NotifyChunk(s) \/ NotifyClosed(s)
    BY <1>1, <2>1 DEF NotifyChunk, NotifyClosed, NotifyWaiters, TypeOK, Terminal
  <2>2. CASE \E s \in Streams : CloseStream(s) \/ FailStream(s)
    <3> PICK s \in Streams : CloseStream(s) \/ FailStream(s)
      BY <2>2
    <3>1. closed' = [closed EXCEPT ![s] = TRUE] \/ closed' = closed
      BY DEF CloseStream, FailStream
    <3>2. closed' \in [Streams -> BOOLEAN]
      BY <1>1, <3>1 DEF TypeOK
    <3>3. UNCHANGED <<status, woken>>
      BY DEF CloseStream, FailStream
    <3> QED
      BY <1>1, <3>1, <3>2, <3>3 DEF TypeOK, Terminal
  <2>3. CASE RecordStatus \/ NotifyStatus
    BY <1>1, <2>3 DEF RecordStatus, NotifyStatus, NotifyWaiters, TypeOK, Terminal
  <2> QED
    BY <2>1, <2>2, <2>3
<1>4. /\ drain' \in [Streams -> {"reading", "recorded", "notifying", "closing", "done"}]
      /\ waiter' \in {"waiting", "notifying", "done"}
  BY <1>1 DEF NotifyChunk, CloseStream, FailStream, NotifyClosed, RecordStatus, NotifyStatus,
              TypeOK
<1>5. TypeOK'
  BY <1>1, <1>2, <1>3, <1>4 DEF TypeOK, sender
<1>6. \A t \in Streams : Flow(t)'
  BY <1>1, <1>2 DEF NotifyChunk, CloseStream, FailStream, NotifyClosed, RecordStatus,
                    NotifyStatus, LiveInv, Flow, TypeOK
<1>7. (\A t \in Streams : Behind(t)') /\ InHand' /\ Over' /\ Accounted' /\ GapsVisible'
  BY <1>2, <1>3 DEF sender, LiveInv, Behind, InHand, Over, Accounted, GapsVisible,
                    Attached, Oldest
<1> QED
  BY <1>5, <1>6, <1>7 DEF LiveInv

-----------------------------------------------------------------------------
(* The sender's side.                                                       *)

(* Steps that neither take a chunk nor write one.                           *)
LEMMA Moves ==
    ASSUME LiveInv, UNCHANGED <<command, cursor, position, hand, client>>,
           Attached, pc # "write",
           pc' \in PCs \ {"detached", "subscribed", "write"},
           pc' \in {"exit", "ended"} => Terminal,
           prefer' \in Streams, armed' \in BOOLEAN, woken' \in BOOLEAN
    PROVE  LiveInv'
<1>1. TypeOK'
  BY DEF LiveInv, TypeOK, command, client
<1>2. Attached' /\ (Terminal <=> Terminal')
  BY DEF Attached, PCs, Terminal, command
<1>3. (\A s \in Streams : Flow(s)' /\ Behind(s)') /\ InHand' /\ Over'
  BY <1>2 DEF command, client, LiveInv, Flow, Behind, InHand, Over
<1>4. Accounted' /\ GapsVisible'
  BY <1>2 DEF command, client, LiveInv, Accounted, GapsVisible, Oldest
<1> QED
  BY <1>1, <1>3, <1>4 DEF LiveInv

(* A receiver that lags moves forward, past what has fallen out.            *)
LEMMA LagStep ==
    ASSUME LiveInv, NEW s \in Streams, NEW next \in {"top", "stdout", "stderr", "enable"},
           SkipLag(s, next), UNCHANGED <<command, client>>,
           Attached, pc # "write", armed' \in BOOLEAN, woken' \in BOOLEAN
    PROVE  LiveInv'
<1>1. TypeOK /\ UNCHANGED <<position, prefer, hand>> /\ pc' = next
  BY DEF LiveInv, SkipLag
<1>2. /\ cursor' = [cursor EXCEPT ![s] = Oldest(s)]
      /\ Oldest(s) \in Counts
      /\ cursor[s] < Oldest(s) /\ Oldest(s) <= sent[s]
  <2>1. sent[s] \in Nat /\ cursor[s] \in Nat /\ sent[s] - cursor[s] > QueueLen
    BY <1>1, Cursors DEF SkipLag, Lagged
  <2>2. Oldest(s) \in Nat /\ cursor[s] < Oldest(s) /\ Oldest(s) <= sent[s]
    BY <2>1, LiveAssumption DEF Oldest
  <2>3. Oldest(s) \in Counts
    BY <1>1, <2>2, Cursors, Counting
  <2> QED
    BY <2>2, <2>3 DEF SkipLag
<1>3. TypeOK'
  <2>1. cursor' \in [Streams -> Counts]
    BY <1>1, <1>2 DEF TypeOK
  <2> QED
    BY <1>1, <2>1 DEF TypeOK, command, client, PCs
<1>4. Attached' /\ Over' /\ InHand'
  BY <1>1 DEF Attached, Over, InHand
<1>5. \A t \in Streams : Flow(t)' /\ Behind(t)'
  <2> SUFFICES ASSUME NEW t \in Streams PROVE Flow(t)' /\ Behind(t)'
    OBVIOUS
  <2>1. Flow(t)' /\ Behind(t)
    BY DEF command, LiveInv, Flow
  <2>2. cursor'[t] >= cursor[t] /\ cursor'[t] <= sent[t]
    <3>1. cursor'[t] = IF t = s THEN Oldest(s) ELSE cursor[t]
      BY <1>1, <1>2 DEF TypeOK
    <3>2. Oldest(s) \in Nat
      BY <1>2, Counting
    <3> QED
      BY <1>1, <1>2, <2>1, <3>1, <3>2, Cursors DEF Behind
  <2>3. cursor'[t] \in Nat
    BY <1>3, Counting DEF TypeOK
  <2> QED
    BY <1>1, <2>1, <2>2, <2>3, Cursors DEF Behind, command, client
<1>6. GapsVisible'
  BY <1>4 DEF command, client, LiveInv, GapsVisible
<1>7. Accounted'
  <2> SUFFICES ASSUME NEW t \in Streams, NEW i \in start[t] .. (sent[t] - 1)
               PROVE  i \in got[t] \/ i >= cursor'[t] \/ i < Oldest(t)
    BY DEF Accounted, command, client, Oldest
  <2>1. i \in got[t] \/ i >= cursor[t] \/ i < Oldest(t)
    BY DEF LiveInv, Accounted
  <2>2. i \in Nat /\ cursor'[t] \in {cursor[t], Oldest(t)}
    BY <1>1, <1>2, Cursors DEF TypeOK
  <2>3. CASE t = s
    <3>1. cursor'[t] = Oldest(t) /\ Oldest(t) \in Nat
      BY <1>1, <1>2, <2>3, Counting DEF TypeOK
    <3> QED
      BY <2>2, <3>1
  <2>4. CASE t # s
    BY <1>1, <1>2, <2>1, <2>4 DEF TypeOK
  <2> QED
    BY <2>3, <2>4
<1> QED
  BY <1>3, <1>4, <1>5, <1>6, <1>7 DEF LiveInv

(* Taking a chunk: the hello covers it, or it is in hand.                   *)
LEMMA DeliverStep ==
    ASSUME LiveInv, NEW s \in Streams, NEW next \in {"top"},
           Deliver(s, next), UNCHANGED <<command, client>>, prefer' \in Streams,
           Attached, pc # "write", armed' \in BOOLEAN, woken' \in BOOLEAN
    PROVE  LiveInv'
<1> DEFINE content == cursor[s]
<1>1. TypeOK /\ Behind(s) /\ content \in Counts /\ content \in Nat /\ content < sent[s]
  BY Cursors DEF LiveInv, Deliver, Empty, Behind
<1>2. cursor' = [cursor EXCEPT ![s] = content + 1] /\ content + 1 \in Counts
  <2>1. content + 1 <= sent[s] /\ content + 1 \in Nat
    BY <1>1, Cursors
  <2>2. content + 1 \in Counts
    BY <1>1, <2>1, Counting, Cursors
  <2> QED
    BY <2>2 DEF Deliver
<1>3. \/ /\ content < position[s] /\ pc' = "top"
         /\ UNCHANGED <<position, hand>>
      \/ /\ content >= position[s] /\ pc' = "write"
         /\ position' = [position EXCEPT ![s] = content]
         /\ hand' = [stream |-> s, offset |-> content, content |-> content]
  BY <1>1, Cursors DEF Deliver, Covered, Framed
<1>4. Attached' /\ Over'
  BY <1>3 DEF Attached, Over
<1>5. TypeOK'
  <2>1. cursor' \in [Streams -> Counts] /\ position' \in [Streams -> Counts] /\ hand' \in Chunks
    BY <1>1, <1>2, <1>3 DEF TypeOK, Chunks
  <2> QED
    BY <1>1, <1>3, <2>1 DEF TypeOK, command, client, PCs
<1>6. \A t \in Streams : Flow(t)' /\ Behind(t)'
  <2> SUFFICES ASSUME NEW t \in Streams PROVE Flow(t)' /\ Behind(t)'
    OBVIOUS
  <2>1. Flow(t)'
    BY DEF LiveInv, Flow, command
  <2>2. Behind(t)
    BY DEF LiveInv
  <2>3. CASE t = s
    <3>1. cursor'[s] = content + 1 /\ position'[s] \in {position[s], content}
      BY <1>1, <1>2, <1>3 DEF TypeOK
    <3> QED
      BY <1>1, <1>3, <1>4, <2>1, <2>2, <2>3, <3>1, Cursors DEF Behind, command, client, TypeOK
  <2>4. CASE t # s
    <3>1. cursor'[t] = cursor[t] /\ position'[t] = position[t]
      BY <1>1, <1>2, <1>3, <2>4 DEF TypeOK
    <3> QED
      BY <2>1, <2>2, <3>1 DEF Behind, command, client
  <2> QED
    BY <2>3, <2>4
<1>7. InHand'
  BY <1>1, <1>2, <1>3 DEF InHand, TypeOK
<1>8. GapsVisible'
  BY DEF command, client, LiveInv, GapsVisible
<1>9. Accounted'
  <2> SUFFICES ASSUME NEW t \in Streams, NEW i \in start[t] .. (sent[t] - 1)
               PROVE  \/ i \in got[t]
                      \/ hand'.stream = t /\ hand'.content = i /\ pc' = "write"
                      \/ i >= cursor'[t]
                      \/ i < Oldest(t)
    BY DEF Accounted, command, client, Oldest
  <2>1. i \in got[t] \/ i >= cursor[t] \/ i < Oldest(t)
    BY DEF LiveInv, Accounted
  <2>2. CASE t # s
    BY <1>1, <1>2, <2>1, <2>2 DEF TypeOK
  <2>3. CASE t = s /\ i = content
    <3>1. content >= position[s]
      <4>1. i >= start[s]
        BY <1>1, <2>3, Cursors
      <4> QED
        BY <1>1, <2>3, <4>1, Cursors DEF Behind
    <3> QED
      BY <1>1, <1>3, <2>3, <3>1, Cursors
  <2>4. CASE t = s /\ i # content
    <3>1. cursor'[s] = content + 1 /\ i \in Nat
      BY <1>1, <1>2, <2>4, Cursors DEF TypeOK
    <3> QED
      BY <1>1, <2>1, <2>4, <3>1
  <2> QED
    BY <2>2, <2>3, <2>4
<1> QED
  BY <1>4, <1>5, <1>6, <1>7, <1>8, <1>9 DEF LiveInv

LEMMA EmptyStep ==
    ASSUME LiveInv, NEW s \in Streams, NEW next \in {"stdout", "stderr", "enable"},
           FindEmpty(s, next), UNCHANGED <<command, armed, woken, client>>,
           pc \in {"preferred", "stdout", "stderr"}
    PROVE  LiveInv'
<1>1. UNCHANGED <<command, cursor, position, hand, client>> /\ Attached /\ pc # "write"
  BY DEF FindEmpty, Attached
<1>2. pc' \in PCs \ {"detached", "subscribed", "write"} /\ pc' \notin {"exit", "ended"}
  BY DEF FindEmpty, PCs
<1>3. prefer' \in Streams /\ armed' \in BOOLEAN /\ woken' \in BOOLEAN
  BY DEF FindEmpty, LiveInv, TypeOK
<1> QED
  BY <1>1, <1>2, <1>3, Moves

(* Looking into a queue, awake (try_recv) or asleep (recv).                 *)
LEMMA ReceiveStep ==
    ASSUME LiveInv,
           TryPreferred \/ TryStdout \/ TryStderr \/ \E s \in Streams : Recv(s)
    PROVE  LiveInv'
<1>1. TypeOK
  BY DEF LiveInv
<1>2. \A s \in Streams : Other(s) \in Streams
  BY DEF Other, Streams
<1>3. ASSUME NEW at \in {"preferred", "stdout", "stderr"}, NEW s \in Streams,
             NEW next \in {"stdout", "stderr", "enable"}, TryRecv(at, s, next)
      PROVE  LiveInv'
  <2>1. /\ UNCHANGED <<command, client>> /\ Attached /\ pc # "write"
        /\ armed' \in BOOLEAN /\ woken' \in BOOLEAN
    BY <1>1, <1>3 DEF TryRecv, Attached, TypeOK
  <2>2. CASE Deliver(s, "top") /\ prefer' = Other(s)
    BY <1>2, <2>1, <2>2, DeliverStep
  <2>3. CASE SkipLag(s, next)
    BY <2>1, <2>3, LagStep
  <2>4. CASE FindEmpty(s, next)
    BY <1>3, <2>4, EmptyStep DEF TryRecv
  <2> QED
    BY <1>3, <2>2, <2>3, <2>4 DEF TryRecv
<1>4. ASSUME NEW s \in Streams, Recv(s) PROVE LiveInv'
  <2>1. /\ UNCHANGED <<command, client>> /\ Attached /\ pc # "write"
        /\ armed' \in BOOLEAN /\ woken' \in BOOLEAN
    BY <1>4 DEF Recv, Attached
  <2>2. CASE Deliver(s, "top") /\ UNCHANGED prefer
    BY <1>1, <2>1, <2>2, DeliverStep DEF TypeOK
  <2>3. CASE SkipLag(s, "top")
    BY <2>1, <2>3, LagStep
  <2> QED
    BY <1>4, <2>2, <2>3 DEF Recv
<1>5. prefer \in Streams /\ "stdout" \in Streams /\ "stderr" \in Streams
  BY <1>1 DEF TypeOK, Streams
<1> QED
  BY <1>3, <1>4, <1>5 DEF TryPreferred, TryStdout, TryStderr

(* The write completes: what was in hand was received, and an offset that   *)
(* the client did not expect shows.                                         *)
LEMMA WrittenStep == LiveInv /\ Written => LiveInv'
<1> SUFFICES ASSUME LiveInv, Written PROVE LiveInv'
    OBVIOUS
<1> DEFINE s == hand.stream
           n == hand.content
<1>1. /\ TypeOK /\ s \in Streams /\ n \in Counts /\ n \in Nat
      /\ hand.offset = n /\ n < cursor[s] /\ position[s] = n /\ pc = "write"
  BY Counting DEF LiveInv, TypeOK, InHand, Chunks, Written
<1>2. n + 1 \in Counts /\ n + 1 <= cursor[s]
  <2>1. n + 1 <= cursor[s]
    BY <1>1, Cursors
  <2> QED
    BY <1>1, <2>1, Cursors, Counting
<1>3. /\ pc' = "top" /\ UNCHANGED <<command, cursor, prefer, armed, woken, start>>
      /\ position' = [position EXCEPT ![s] = n + 1]
      /\ got' = [got EXCEPT ![s] = @ \cup {n}]
      /\ gap' = (gap \/ n # expected[s])
      /\ expected' = [expected EXCEPT ![s] = n + 1]
      /\ hand' = NoChunk
  BY <1>1 DEF Written, TypeOK
<1>4. TypeOK'
  <2>1. position' \in [Streams -> Counts] /\ expected' \in [Streams -> Counts]
    BY <1>1, <1>2, <1>3 DEF TypeOK
  <2>2. got' \in [Streams -> SUBSET Counts]
    BY <1>1, <1>3 DEF TypeOK
  <2>3. hand' \in Chunks
    BY <1>3, Counting DEF NoChunk, Chunks, Streams
  <2>4. gap' \in BOOLEAN
    BY <1>3
  <2> QED
    BY <1>1, <1>3, <2>1, <2>2, <2>3, <2>4 DEF TypeOK, command, PCs
<1>5. Attached /\ Attached' /\ Over' /\ InHand'
  BY <1>1, <1>3 DEF Attached, Over, InHand
<1>6. ASSUME NEW t \in Streams, t # s
      PROVE  position'[t] = position[t] /\ got'[t] = got[t] /\ expected'[t] = expected[t]
  BY <1>1, <1>3, <1>6 DEF TypeOK
<1>7. position'[s] = n + 1 /\ got'[s] = got[s] \cup {n} /\ expected'[s] = n + 1
  BY <1>1, <1>3 DEF TypeOK
<1>8. ~gap' => ~gap /\ n = expected[s]
  BY <1>3
<1>9. \A t \in Streams : Flow(t)' /\ Behind(t)'
  <2> SUFFICES ASSUME NEW t \in Streams PROVE Flow(t)' /\ Behind(t)'
    OBVIOUS
  <2>1. Flow(t)' /\ Behind(t)
    BY <1>3 DEF LiveInv, Flow, command
  <2>2. CASE t = s
    <3>1. cursor'[s] <= sent'[s] /\ (position'[s] = start'[s] \/ position'[s] <= cursor'[s])
      BY <1>2, <1>3, <1>7, <2>1, <2>2 DEF Behind, command
    <3>2. ~gap' => start'[s] <= expected'[s]
      BY <1>1, <1>3, <1>5, <1>7, <1>8, <2>1, <2>2, Cursors DEF Behind
    <3> QED
      BY <2>1, <2>2, <3>1, <3>2 DEF Behind
  <2>3. CASE t # s
    BY <1>3, <1>5, <1>6, <1>8, <2>1, <2>3 DEF Behind, command
  <2> QED
    BY <2>2, <2>3
<1>10. Accounted'
  <2> SUFFICES ASSUME NEW t \in Streams, NEW i \in start[t] .. (sent[t] - 1)
               PROVE  i \in got'[t] \/ i >= cursor[t] \/ i < Oldest(t)
    BY <1>3 DEF Accounted, command, Oldest
  <2>1. i \in got[t] \/ (s = t /\ n = i) \/ i >= cursor[t] \/ i < Oldest(t)
    BY <1>5 DEF LiveInv, Accounted
  <2> QED
    BY <1>6, <1>7, <2>1
<1>11. GapsVisible'
  <2> SUFFICES ASSUME ~gap', NEW t \in Streams
               PROVE  got'[t] = start[t] .. (expected'[t] - 1)
    BY <1>3 DEF GapsVisible
  <2>1. got[t] = start[t] .. (expected[t] - 1) /\ start[t] <= expected[t]
    BY <1>5, <1>8 DEF LiveInv, GapsVisible, Behind
  <2>2. CASE t = s
    <3>1. got[s] = start[s] .. (n - 1) /\ start[s] <= n /\ start[s] \in Nat
      BY <1>1, <1>8, <2>1, <2>2, Cursors
    <3>2. (start[s] .. (n - 1)) \cup {n} = start[s] .. n /\ (n + 1) - 1 = n
      BY <1>1, <3>1
    <3>3. got'[s] = start[s] .. (expected'[s] - 1)
      BY <1>7, <3>1, <3>2
    <3> QED
      BY <2>2, <3>3
  <2>3. CASE t # s
    BY <1>6, <2>1, <2>3
  <2> QED
    BY <2>2, <2>3
<1> QED
  BY <1>4, <1>5, <1>9, <1>10, <1>11 DEF LiveInv

LEMMA MoveStep ==
    ASSUME LiveInv, Top \/ Enable \/ Check \/ Wake \/ WakeForReceipt \/ SendExit
    PROVE  LiveInv'
<1>1. /\ UNCHANGED <<command, cursor, position, hand, client>> /\ UNCHANGED prefer
      /\ Attached /\ pc # "write"
  BY DEF Top, Enable, Check, Wake, WakeForReceipt, SendExit, Attached
<1>2. armed' \in BOOLEAN /\ woken' \in BOOLEAN
  BY DEF Top, Enable, Check, Wake, WakeForReceipt, SendExit, LiveInv, TypeOK
<1>3. pc' \in PCs \ {"detached", "subscribed", "write"}
  BY DEF Top, Enable, Check, Wake, WakeForReceipt, SendExit, PCs
<1>4. pc' \in {"exit", "ended"} => Terminal
  BY DEF Top, Enable, Check, Wake, WakeForReceipt, SendExit, LiveInv, Over
<1>5. prefer' \in Streams
  BY <1>1 DEF LiveInv, TypeOK
<1> QED
  BY <1>1, <1>2, <1>3, <1>4, <1>5, Moves

(* A client comes, is greeted with what is recorded, or goes.               *)
LEMMA ClientStep ==
    ASSUME LiveInv, Subscribe \/ Hello \/ Detach
    PROVE  LiveInv'
<1>1. TypeOK /\ Zero \in [Streams -> Counts] /\ NoChunk \in Chunks
  BY Counting DEF LiveInv, Zero, NoChunk, Chunks, Streams
<1>2. CASE Subscribe \/ Detach
  <2>1. /\ ~Attached' /\ pc' \in PCs \ {"write", "exit", "ended"} /\ UNCHANGED command
        /\ cursor' \in {sent, Zero}
    BY <1>2 DEF Subscribe, Detach, Attached, PCs
  <2>2. TypeOK'
    <3>1. CASE Subscribe
      BY <1>1, <2>1, <3>1 DEF Subscribe, TypeOK, command, client
    <3>2. CASE Detach
      <4>1. got' \in [Streams -> SUBSET Counts]
        BY <3>2 DEF Detach
      <4> QED
        BY <1>1, <2>1, <3>2, <4>1 DEF Detach, TypeOK, command, Streams
    <3> QED
      BY <1>2, <3>1, <3>2
  <2>3. \A s \in Streams : Flow(s)' /\ Behind(s)'
    <3>1. \A s \in Streams : cursor'[s] <= sent[s]
      BY <1>1, <2>1, Cursors DEF Zero
    <3> QED
      BY <2>1, <3>1 DEF LiveInv, Flow, Behind, command
  <2> QED
    BY <2>1, <2>2, <2>3 DEF LiveInv, InHand, Over, Accounted, GapsVisible
<1>3. CASE Hello
  <2>1. /\ pc' = "top" /\ UNCHANGED <<command, cursor, hand, armed, woken>>
        /\ position' = end /\ start' = end /\ expected' = end /\ prefer' = "stdout"
        /\ got' = [s \in Streams |-> {}] /\ gap' = FALSE
    BY <1>3 DEF Hello
  <2>2. TypeOK'
    <3>1. got' \in [Streams -> SUBSET Counts] /\ gap' \in BOOLEAN
      BY <2>1
    <3> QED
      BY <1>1, <2>1, <3>1 DEF TypeOK, command, PCs, Streams
  <2>3. \A s \in Streams : Flow(s)' /\ Behind(s)' /\ sent[s] <= end[s]
    BY <1>1, <2>1, Cursors DEF LiveInv, Flow, Behind, command
  <2>4. Accounted' /\ GapsVisible'
    BY <1>1, <2>1, <2>3, Cursors DEF Accounted, GapsVisible, command
  <2> QED
    BY <2>1, <2>2, <2>3, <2>4 DEF LiveInv, InHand, Over
<1> QED
  BY <1>2, <1>3

LEMMA LiveStep == LiveInv /\ [Next]_vars => LiveInv'
<1> SUFFICES ASSUME LiveInv, [Next]_vars PROVE LiveInv'
    OBVIOUS
<1>1. CASE Command
  BY <1>1, RecordStep, PublishStep, TellStep DEF Command
<1>2. CASE Send
  BY <1>2, MoveStep, ReceiveStep, WrittenStep DEF Send
<1>3. CASE WakeForReceipt
  BY <1>3, MoveStep
<1>4. CASE Subscribe \/ Hello \/ Detach
  BY <1>4, ClientStep
<1>5. CASE UNCHANGED vars
  BY <1>5 DEF vars, LiveInv, TypeOK, Flow, Behind, InHand, Over, Terminal, Accounted,
              GapsVisible, Attached, Oldest
<1> QED
  BY <1>1, <1>2, <1>3, <1>4, <1>5 DEF Next

-----------------------------------------------------------------------------
(* The theorem.                                                             *)

(* A client of the live output misses only what fell out of its queue, sees *)
(* every gap as an offset, and is told the exit when nothing more comes,    *)
(* for every capacity, every amount of output and every lag.                *)
THEOREM Reliability == Spec => []Reliable
<1>1. Init => LiveInv
  BY InitInv
<1>2. LiveInv /\ [Next]_vars => LiveInv'
  BY LiveStep
<1>3. LiveInv => Reliable
  <2> SUFFICES ASSUME LiveInv PROVE ExitFinal
    BY DEF LiveInv, Reliable
  <2>1. CASE pc \in {"exit", "ended"}
    <3>1. Terminal /\ \A s \in Streams : closed[s] /\ Flow(s)
      BY <2>1 DEF LiveInv, Over, Terminal
    <3>2. \A s \in Streams : drain[s] \in {"closing", "done"} /\ sent[s] = end[s]
      BY <3>1 DEF Flow
    <3> QED
      BY <3>1, <3>2 DEF ExitFinal
  <2> QED
    BY <2>1 DEF ExitFinal
<1> QED
  BY <1>1, <1>2, <1>3, PTL DEF Spec
=============================================================================
