------------------------- MODULE BufferedReplayProofs -------------------------
(***************************************************************************)
(* Proofs that Replayable of BufferedReplay holds, and that the broker     *)
(* implements OutputLog, for every amount of output, size of a chunk and   *)
(* room on the wire.                                                       *)
(***************************************************************************)
EXTENDS BufferedReplay, SequenceTheorems, TLAPS

(* The bytes of a stream are numbered from 1.                              *)
Slice(o, n) == [i \in 1 .. n |-> o + i]
Ramp(n) == [i \in 1 .. n |-> i]

(* The drain: it is ahead of the recorded end between its read and the     *)
(* publication only, and the file holds what is recorded, in any place.    *)
Spool(s) ==
    /\ end[s] <= taken[s] /\ taken[s] <= printed[s]
    /\ Len(file[s]) \in end[s] .. taken[s] /\ file[s] = Ramp(Len(file[s]))
    /\ drain[s] \in {"open", "read", "notify"} => end[s] = taken[s]
    /\ drain[s] \in {"write", "flushed"} => end[s] < taken[s]
    /\ drain[s] = "flushed" => Len(file[s]) = taken[s]
    /\ closed[s] => drain[s] \in {"notify", "done"} /\ end[s] = taken[s]
    /\ closed[s] /\ ~cut => ~held[s] /\ taken[s] = printed[s]

(* What is between the sender and its client: frames in order, from the    *)
(* client's offset to the sender's position, with nothing left out.        *)
Ends(f) == f.offset + Len(f.data)
InFlight(s) ==
    /\ Len(got[s]) <= end[s] /\ got[s] = Ramp(Len(got[s]))
    /\ pc # "none" => Len(got[s]) <= position[s] /\ position[s] <= end[s]
    /\ \A i \in 1 .. Len(wire) : wire[i].kind = s =>
          /\ Len(got[s]) <= wire[i].offset /\ wire[i].offset < Ends(wire[i])
          /\ Ends(wire[i]) <= position[s]
          /\ wire[i].data = Slice(wire[i].offset, Len(wire[i].data))
          /\ \A j \in 1 .. i - 1 :
                wire[j].kind = s => Ends(wire[j]) <= wire[i].offset
    /\ pc # "none" => \A b \in Len(got[s]) + 1 .. position[s] :
          \E i \in 1 .. Len(wire) :
             wire[i].kind = s /\ wire[i].offset < b /\ b <= Ends(wire[i])

(* The snapshot is never ahead of the record, and final when terminal.     *)
Snapshot ==
    pc \in {"decide", "write"} =>
        /\ \A s \in Streams : position[s] <= seen.end[s] /\ seen.end[s] <= end[s]
        /\ seen.terminal => Terminal /\ seen.end = end

InHand ==
    pc = "write" /\ hand.kind # "exit" =>
        /\ hand.offset = position[hand.kind]
        /\ hand.offset < Ends(hand) /\ Ends(hand) <= seen.end[hand.kind]
        /\ hand.data = Slice(hand.offset, Len(hand.data))

(* Exit is the last frame, behind all that was recorded.                   *)
Sent == Terminal /\ position = end
ExitLast ==
    /\ (pc = "write" /\ hand.kind = "exit") \/ pc = "ended" => Sent
    /\ \A i \in 1 .. Len(wire) :
          wire[i].kind = "exit" => i = Len(wire) /\ pc = "ended"
    /\ told => /\ wire = <<>> /\ pc \in {"none", "ended"} /\ Terminal
               /\ \A s \in Streams : Len(got[s]) = end[s]
    /\ pc = "none" => wire = <<>>
    /\ pc # "failed"

ReplayInv ==
    /\ TypeOK /\ wire \in Seq(Frames)
    /\ \A s \in Streams : Spool(s) /\ InFlight(s)
    /\ Snapshot /\ InHand /\ ExitLast

LEMMA RampSeq ==
    ASSUME NEW n \in Nat, NEW o \in Nat
    PROVE  /\ Slice(o, n) \in Seq(Nat) /\ Len(Slice(o, n)) = n
           /\ Ramp(n) \in Seq(Nat) /\ Len(Ramp(n)) = n
           /\ \A i \in 1 .. n : Slice(o, n)[i] = o + i /\ Ramp(n)[i] = i
BY DEF Slice, Ramp

LEMMA RampPart ==
    ASSUME NEW n \in Nat, NEW o \in Nat, NEW m \in Nat, o <= m, m <= n
    PROVE  SubSeq(Ramp(n), o + 1, m) = Slice(o, m - o)
BY DEF Slice, Ramp

LEMMA RampPrefix ==
    ASSUME NEW n \in Nat, NEW m \in Nat, m <= n
    PROVE  SubSeq(Ramp(n), 1, m) = Ramp(m)
BY DEF Ramp

LEMMA RampJoin ==
    ASSUME NEW n \in Nat, NEW o \in Nat
    PROVE  Ramp(o) \o Slice(o, n) = Ramp(o + n)
BY DEF Ramp, Slice

-----------------------------------------------------------------------------
(* Facts about the bounds.                                                  *)

LEMMA Counting ==
    /\ Counts \subseteq Nat /\ 0 \in Counts
    /\ \A n \in Counts, m \in Nat : m <= n => m \in Counts
    /\ \A s \in Streams : MaxBytes[s] \in Counts
<1> DEFINE S == {MaxBytes[s] : s \in Streams}
<1>1. MaxBytes["stdout"] \in Nat /\ MaxBytes["stderr"] \in Nat
  BY ReplayAssumption DEF Streams
<1>2. S = {MaxBytes["stdout"], MaxBytes["stderr"]}
  BY DEF Streams
<1>3. \E x \in S : \A y \in S : x >= y
  <2>1. CASE MaxBytes["stdout"] >= MaxBytes["stderr"]
    BY <1>1, <1>2, <2>1
  <2>2. CASE ~(MaxBytes["stdout"] >= MaxBytes["stderr"])
    BY <1>1, <1>2, <2>2
  <2> QED
    BY <2>1, <2>2
<1>4. Max(S) \in S /\ \A y \in S : Max(S) >= y
  BY <1>3 DEF Max
<1>5. Max(S) \in Nat
  BY <1>1, <1>2, <1>4
<1>6. Counts = 0 .. Max(S)
  BY DEF Counts
<1>7. \A s \in Streams : MaxBytes[s] \in S /\ MaxBytes[s] \in Nat
  BY ReplayAssumption
<1> HIDE DEF S
<1> QED
  BY <1>4, <1>5, <1>6, <1>7

LEMMA Smaller ==
    ASSUME NEW n \in Int, NEW m \in Int
    PROVE  Min({n, m}) = IF n <= m THEN n ELSE m
<1>1. \A x \in {n, m} : (\A y \in {n, m} : x <= y) <=> x = (IF n <= m THEN n ELSE m)
  OBVIOUS
<1>2. (IF n <= m THEN n ELSE m) \in {n, m}
  OBVIOUS
<1> QED
  BY <1>1, <1>2 DEF Min

LEMMA TextSizes ==
    ASSUME NEW t \in Texts
    PROVE  t \in Seq(Nat) /\ Len(t) \in Counts /\ Len(t) \in Nat
<1>1. PICK n \in Counts : t \in [1 .. n -> Counts \ {0}]
  BY DEF Texts
<1>2. n \in Nat /\ t \in [1 .. n -> Nat]
  BY <1>1, Counting
<1> QED
  BY <1>1, <1>2

LEMMA TextsMade ==
    ASSUME NEW n \in Nat, NEW o \in Nat, o + n \in Counts
    PROVE  Slice(o, n) \in Texts /\ Ramp(n) \in Texts /\ <<>> \in Texts
<1>1. n \in Counts /\ \A i \in 1 .. n : i \in Counts /\ o + i \in Counts /\ o + i # 0 /\ i # 0
  BY Counting
<1>2. Slice(o, n) \in [1 .. n -> Counts \ {0}] /\ Ramp(n) \in [1 .. n -> Counts \ {0}]
  BY <1>1 DEF Slice, Ramp
<1>3. <<>> \in [1 .. 0 -> Counts \ {0}]
  OBVIOUS
<1> QED
  BY <1>1, <1>2, <1>3, Counting DEF Texts

LEMMA EmptyText == <<>> \in Texts /\ <<>> = Ramp(0) /\ Len(<<>>) = 0 /\ 0 \in Counts
<1>1. 0 \in Nat /\ 0 + 0 \in Counts
  BY Counting
<1>2. <<>> \in Texts
  BY <1>1, TextsMade
<1> QED
  BY <1>2, Counting DEF Ramp

LEMMA Sizes ==
    ASSUME TypeOK, NEW s \in Streams
    PROVE  /\ printed[s] \in Nat /\ taken[s] \in Nat /\ end[s] \in Nat
           /\ position[s] \in Nat /\ seen.end[s] \in Nat
           /\ Len(file[s]) \in Nat /\ Len(got[s]) \in Nat /\ got[s] \in Seq(Nat)
           /\ printed[s] \in Counts /\ taken[s] \in Counts /\ end[s] \in Counts
           /\ position[s] \in Counts /\ seen.end[s] \in Counts
           /\ closed[s] \in BOOLEAN /\ held[s] \in BOOLEAN
<1>1. file[s] \in Texts /\ got[s] \in Texts
  BY DEF TypeOK
<1>2. /\ printed[s] \in Counts /\ taken[s] \in Counts /\ end[s] \in Counts
      /\ position[s] \in Counts /\ seen.end[s] \in Counts
      /\ closed[s] \in BOOLEAN /\ held[s] \in BOOLEAN
  BY DEF TypeOK
<1> QED
  BY <1>1, <1>2, TextSizes, Counting

LEMMA FrameSizes ==
    ASSUME NEW f \in Frames
    PROVE  /\ f.offset \in Nat /\ Len(f.data) \in Nat /\ Ends(f) \in Nat
           /\ f.kind \in Streams \cup {"exit"}
<1>1. f.offset \in Counts /\ f.data \in Texts /\ f.kind \in Streams \cup {"exit"}
  BY DEF Frames
<1>2. Len(f.data) \in Nat
  BY <1>1, TextSizes
<1>3. f.offset \in Nat
  BY <1>1, Counting
<1> QED
  BY <1>1, <1>2, <1>3 DEF Ends

LEMMA InitInv == Init => ReplayInv
<1> SUFFICES ASSUME Init PROVE ReplayInv
    OBVIOUS
<1>1. Zero \in [Streams -> Counts]
  BY Counting DEF Zero
<1>2. Nothing \in [Streams -> Texts] /\ Exit \in Frames
  BY Counting, TextsMade DEF Nothing, Exit, Frames
<1>3. TypeOK
  <2>1. held \in [Streams -> BOOLEAN] /\ closed \in [Streams -> BOOLEAN]
    BY DEF Init
  <2>2. drain \in [Streams -> {"open", "read", "write", "flushed", "notify", "done"}]
    BY DEF Init
  <2>3. seen \in [end : [Streams -> Counts], terminal : BOOLEAN]
    BY <1>1 DEF Init
  <2>4. Len(wire) <= WireLen /\ \A i \in DOMAIN wire : wire[i] \in Frames
    BY ReplayAssumption DEF Init
  <2> QED
    BY <1>1, <1>2, <2>1, <2>2, <2>3, <2>4 DEF Init, TypeOK, Streams
<1>4. wire \in Seq(Frames) /\ Len(wire) = 0
  BY DEF Init
<1>5. <<>> = Ramp(0) /\ Len(<<>>) = 0
  BY DEF Ramp
<1>6. ASSUME NEW s \in Streams PROVE Spool(s) /\ InFlight(s)
  BY <1>4, <1>5 DEF Init, Spool, InFlight, Zero, Nothing
<1>7. Snapshot /\ InHand /\ ExitLast
  BY <1>4 DEF Init, Snapshot, InHand, ExitLast, Sent
<1> QED
  BY <1>3, <1>4, <1>6, <1>7 DEF ReplayInv

-----------------------------------------------------------------------------
(* The command and the drains.                                              *)

(* The record only grows, so what was read from it stays true.              *)
LEMMA RecordGrows ==
    ASSUME ReplayInv, UNCHANGED <<sender, client>>,
           end' \in [Streams -> Counts],
           \A s \in Streams : end[s] <= end'[s],
           \A s \in Streams : closed[s] => closed'[s] /\ end'[s] = end[s],
           status => status'
    PROVE  (\A s \in Streams : InFlight(s)') /\ Snapshot' /\ InHand' /\ ExitLast'
<1>1. TypeOK /\ Snapshot /\ InHand /\ ExitLast
  BY DEF ReplayInv
<1>2. ASSUME NEW s \in Streams PROVE InFlight(s)'
  <2>1. end'[s] \in Nat /\ end[s] \in Nat /\ Len(got[s]) \in Nat /\ position[s] \in Nat
    BY <1>1, Sizes, Counting
  <2>2. InFlight(s) /\ end[s] <= end'[s]
    BY DEF ReplayInv
  <2> QED
    BY <2>1, <2>2 DEF InFlight, sender, client
<1>3. Terminal => Terminal' /\ end' = end
  BY <1>1 DEF Terminal, TypeOK
<1>4. Snapshot'
  <2>1. \A s \in Streams : end'[s] \in Nat /\ end[s] \in Nat /\ seen.end[s] \in Nat
    BY <1>1, Sizes, Counting
  <2> QED
    BY <1>1, <1>3, <2>1 DEF Snapshot, sender
<1>5. InHand'
  BY <1>1 DEF InHand, sender
<1>6. ExitLast'
  BY <1>1, <1>3 DEF ExitLast, Sent, sender, client
<1> QED
  BY <1>2, <1>4, <1>5, <1>6

LEMMA SourceStep ==
    ASSUME ReplayInv, NEW s \in Streams, Write(s) \/ Release(s)
    PROVE  ReplayInv'
<1>1. /\ UNCHANGED <<record, tasks, sender, armed, woken, client, cut>>
      /\ TypeOK
  BY DEF Write, Release, ReplayInv
<1>2. printed' \in [Streams -> Counts] /\ held' \in [Streams -> BOOLEAN]
  <2>1. CASE Write(s)
    <3>1. printed[s] \in Nat /\ printed[s] < MaxBytes[s] /\ MaxBytes[s] \in Nat
      BY <1>1, <2>1, Sizes, ReplayAssumption DEF Write
    <3>2. printed[s] + 1 \in Counts
      BY <3>1, Counting
    <3> QED
      BY <1>1, <2>1, <3>2 DEF Write, TypeOK
  <2>2. CASE Release(s)
    BY <1>1, <2>2 DEF Release, TypeOK
  <2> QED
    BY <2>1, <2>2
<1>3. TypeOK'
  BY <1>1, <1>2 DEF TypeOK, record, tasks, sender, client
<1>4. ASSUME NEW t \in Streams PROVE Spool(t)'
  <2>1. Spool(t) /\ printed[t] \in Nat /\ taken[t] \in Nat
    BY <1>1, Sizes DEF ReplayInv
  <2>2. closed[t] /\ ~cut => ~held[t] /\ taken[t] = printed[t]
    BY <2>1 DEF Spool
  <2>3. /\ taken[t] <= printed'[t]
        /\ ~held[t] => ~held'[t] /\ printed'[t] = printed[t]
    BY <1>1, <2>1 DEF Write, Release, TypeOK, Spool
  <2> QED
    BY <1>1, <2>1, <2>2, <2>3 DEF Spool, record, tasks
<1>5. (\A t \in Streams : InFlight(t)') /\ Snapshot' /\ InHand' /\ ExitLast'
  <2>1. \A t \in Streams : end[t] <= end[t]
    BY <1>1, Sizes
  <2> QED
    BY <1>1, <2>1, RecordGrows DEF record, TypeOK
<1>6. wire' \in Seq(Frames)
  BY <1>1 DEF ReplayInv, client
<1> QED
  BY <1>3, <1>4, <1>5, <1>6 DEF ReplayInv

LEMMA WaiterStep ==
    ASSUME ReplayInv, RecordStatus \/ NotifyStatus
    PROVE  ReplayInv'
<1>1. /\ UNCHANGED <<source, taken, file, end, closed, drain, sender, armed, client, cut>>
      /\ TypeOK /\ (status => status')
  BY DEF RecordStatus, NotifyStatus, ReplayInv, Still, record
<1>2. status' \in BOOLEAN /\ waiter' \in {"waiting", "notify", "done"} /\ woken' \in BOOLEAN
  <2>1. CASE RecordStatus
    BY <1>1, <2>1 DEF RecordStatus, Still, TypeOK
  <2>2. CASE NotifyStatus
    BY <1>1, <2>2 DEF NotifyStatus, NotifyWaiters, record, TypeOK
  <2> QED
    BY <2>1, <2>2
<1>3. TypeOK'
  BY <1>1, <1>2 DEF TypeOK, source, sender, client
<1>4. \A t \in Streams : Spool(t)'
  BY <1>1 DEF ReplayInv, Spool, source
<1>5. (\A t \in Streams : InFlight(t)') /\ Snapshot' /\ InHand' /\ ExitLast'
  <2>1. \A t \in Streams : end[t] <= end[t]
    BY <1>1, Sizes
  <2> QED
    BY <1>1, <2>1, RecordGrows DEF TypeOK
<1>6. wire' \in Seq(Frames)
  BY <1>1 DEF ReplayInv, client
<1> QED
  BY <1>3, <1>4, <1>5, <1>6 DEF ReplayInv

(* What a step of the drain of s moves, and what it owes: its own part of   *)
(* the invariant, and that the record only grows.                           *)
Places == {"open", "read", "write", "flushed", "notify", "done"}
DrainMove(s, place) ==
    /\ UNCHANGED <<source, waiter, status, sender, armed, client>>
    /\ drain' = [drain EXCEPT ![s] = place]
    /\ taken' \in [Streams -> Counts] /\ file' \in [Streams -> Texts]
    /\ end' \in [Streams -> Counts] /\ closed' \in [Streams -> BOOLEAN]
    /\ woken' \in BOOLEAN /\ cut' \in BOOLEAN /\ (cut => cut')
    /\ \A t \in Streams \ {s} : /\ taken'[t] = taken[t] /\ file'[t] = file[t]
                                /\ end'[t] = end[t] /\ closed'[t] = closed[t]
    /\ end[s] <= end'[s] /\ (closed[s] => closed'[s] /\ end'[s] = end[s])
    /\ Spool(s)'

LEMMA DrainOwes ==
    ASSUME ReplayInv, NEW s \in Streams, NEW place \in Places, DrainMove(s, place)
    PROVE  ReplayInv'
<1> USE DEF DrainMove, Places
<1>1. TypeOK
  BY DEF ReplayInv
<1>2. TypeOK'
  <2>1. drain' \in [Streams -> {"open", "read", "write", "flushed", "notify", "done"}]
    BY <1>1 DEF TypeOK
  <2> QED
    BY <1>1, <2>1 DEF TypeOK, source, sender, client
<1>3. ASSUME NEW t \in Streams PROVE Spool(t)'
  <2>1. CASE t # s
    <3>1. drain'[t] = drain[t] /\ Spool(t)
      BY <1>1, <2>1 DEF TypeOK, ReplayInv
    <3> QED
      BY <2>1, <3>1 DEF Spool, source
  <2> QED
    BY <2>1
<1>4. (\A t \in Streams : InFlight(t)') /\ Snapshot' /\ InHand' /\ ExitLast'
  <2>1. \A t \in Streams : end[t] <= end'[t]
    BY <1>1, Sizes
  <2>2. \A t \in Streams : closed[t] => closed'[t] /\ end'[t] = end[t]
    OBVIOUS
  <2> QED
    BY <2>1, <2>2, RecordGrows
<1>5. wire' \in Seq(Frames)
  BY DEF ReplayInv, client
<1> QED
  BY <1>2, <1>3, <1>4, <1>5 DEF ReplayInv

LEMMA OpenStep ==
    ASSUME ReplayInv, NEW s \in Streams, OpenSpool(s) \/ OpenFails(s)
    PROVE  ReplayInv'
<1>1. PICK place \in {"read", "done"} : drain[s] = "open" /\ DrainTo(s, place)
  BY DEF OpenSpool, OpenFails
<1>2. UNCHANGED <<taken, file, end, closed, woken, cut>>
  BY DEF OpenSpool, OpenFails
<1>3. TypeOK /\ Spool(s) /\ drain'[s] = place
  BY <1>1 DEF ReplayInv, DrainTo, TypeOK
<1>4. end[s] \in Nat
  BY <1>3, Sizes
<1>5. Spool(s)'
  BY <1>1, <1>2, <1>3 DEF Spool, DrainTo, source
<1>6. place \in Places /\ DrainMove(s, place)
  BY <1>1, <1>2, <1>3, <1>4, <1>5 DEF DrainTo, TypeOK, DrainMove, Places
<1> QED
  BY <1>6, DrainOwes

LEMMA TakeStep ==
    ASSUME ReplayInv, NEW s \in Streams, Take(s)
    PROVE  ReplayInv'
<1>1. /\ drain[s] = "read" /\ taken[s] < printed[s] /\ DrainTo(s, "write")
      /\ UNCHANGED <<file, end, closed, woken, cut>>
      /\ TypeOK /\ Spool(s) /\ ~closed[s] /\ end[s] = taken[s] /\ drain'[s] = "write"
  BY DEF Take, ReplayInv, DrainTo, TypeOK, Spool
<1>2. /\ end[s] \in Nat /\ taken[s] \in Nat /\ printed[s] \in Nat /\ printed[s] \in Counts
      /\ Len(file[s]) \in Nat /\ ChunkSize \in Nat \ {0}
  BY <1>1, Sizes, ReplayAssumption
<1> DEFINE n == Min({printed[s], taken[s] + ChunkSize})
<1>3. n \in Nat /\ taken[s] < n /\ n <= printed[s]
  <2>1. n = IF printed[s] <= taken[s] + ChunkSize THEN printed[s] ELSE taken[s] + ChunkSize
    BY <1>2, Smaller
  <2> QED
    BY <1>1, <1>2, <2>1
<1>4. taken' = [taken EXCEPT ![s] = n] /\ n \in Counts
  BY <1>2, <1>3, Counting DEF Take
<1> HIDE DEF n
<1>5. taken' \in [Streams -> Counts] /\ taken'[s] = n
      /\ \A t \in Streams \ {s} : taken'[t] = taken[t]
  BY <1>1, <1>4 DEF TypeOK
<1>6. Spool(s)'
  BY <1>1, <1>2, <1>3, <1>5 DEF Spool, DrainTo, source
<1>7. file' \in [Streams -> Texts] /\ end' \in [Streams -> Counts]
      /\ closed' \in [Streams -> BOOLEAN] /\ woken' \in BOOLEAN /\ cut' \in BOOLEAN
      /\ end[s] <= end'[s]
  BY <1>1, <1>2 DEF TypeOK
<1>8. "write" \in Places /\ DrainMove(s, "write")
  BY <1>1, <1>5, <1>6, <1>7 DEF DrainTo, DrainMove, Places
<1> QED
  BY <1>8, DrainOwes

LEMMA SpooledMakes ==
    ASSUME TypeOK, NEW s \in Streams, NEW n \in Counts, file' = Spooled(s, n)
    PROVE  /\ file' \in [Streams -> Texts] /\ file'[s] = Ramp(n) /\ Len(file'[s]) = n
           /\ \A t \in Streams \ {s} : file'[t] = file[t]
<1>1. n \in Nat /\ Ramp(n) \in Texts /\ Len(Ramp(n)) = n
  BY Counting, TextsMade, RampSeq
<1>2. file' = [file EXCEPT ![s] = Ramp(n)]
  BY DEF Spooled, Ramp
<1> QED
  BY <1>1, <1>2 DEF TypeOK

LEMMA SpoolStep ==
    ASSUME ReplayInv, NEW s \in Streams, WriteSpool(s) \/ WriteFails(s)
    PROVE  ReplayInv'
<1>1. /\ drain[s] = "write" /\ UNCHANGED <<taken, end, closed, woken, cut>>
      /\ TypeOK /\ Spool(s) /\ ~closed[s] /\ end[s] < taken[s]
  BY DEF WriteSpool, WriteFails, ReplayInv, Spool
<1>2. end[s] \in Nat /\ taken[s] \in Nat /\ printed[s] \in Nat /\ taken[s] \in Counts
  BY <1>1, Sizes
<1>3. PICK place \in {"flushed", "done"}, n \in end[s] .. taken[s] :
          /\ DrainTo(s, place) /\ file' = Spooled(s, n)
          /\ place = "flushed" => n = taken[s]
  <2>1. CASE WriteSpool(s)
    <3>1. taken[s] \in end[s] .. taken[s]
      BY <1>1, <1>2
    <3> QED
      BY <2>1, <3>1 DEF WriteSpool
  <2>2. CASE WriteFails(s)
    BY <2>2 DEF WriteFails
  <2> QED
    BY <2>1, <2>2
<1>4. n \in Counts /\ n \in Nat
  BY <1>2, Counting
<1>5. /\ file' \in [Streams -> Texts] /\ file'[s] = Ramp(n) /\ Len(file'[s]) = n
      /\ \A t \in Streams \ {s} : file'[t] = file[t]
  BY <1>1, <1>3, <1>4, SpooledMakes
<1>6. drain'[s] = place
  BY <1>1, <1>3 DEF DrainTo, TypeOK
<1>7. Spool(s)'
  BY <1>1, <1>2, <1>3, <1>4, <1>5, <1>6 DEF Spool, DrainTo, source
<1>8. taken' \in [Streams -> Counts] /\ end' \in [Streams -> Counts]
      /\ closed' \in [Streams -> BOOLEAN] /\ woken' \in BOOLEAN /\ cut' \in BOOLEAN
      /\ end[s] <= end'[s]
  BY <1>1, <1>2 DEF TypeOK
<1>9. place \in Places /\ DrainMove(s, place)
  BY <1>1, <1>3, <1>5, <1>7, <1>8 DEF DrainTo, DrainMove, Places
<1> QED
  BY <1>9, DrainOwes

LEMMA PublishStep ==
    ASSUME ReplayInv, NEW s \in Streams, Publish(s)
    PROVE  ReplayInv'
<1>1. /\ drain[s] = "flushed" /\ end' = [end EXCEPT ![s] = taken[s]] /\ DrainTo(s, "notify")
      /\ UNCHANGED <<taken, file, closed, woken, cut>>
      /\ TypeOK /\ Spool(s) /\ ~closed[s] /\ end[s] < taken[s] /\ Len(file[s]) = taken[s]
  BY DEF Publish, ReplayInv, Spool
<1>2. /\ end[s] \in Nat /\ taken[s] \in Nat /\ printed[s] \in Nat /\ taken[s] \in Counts
      /\ Len(file[s]) \in Nat
  BY <1>1, Sizes
<1>3. /\ end' \in [Streams -> Counts] /\ end'[s] = taken[s] /\ drain'[s] = "notify"
      /\ \A t \in Streams \ {s} : end'[t] = end[t]
  BY <1>1, <1>2 DEF DrainTo, TypeOK
<1>4. Spool(s)'
  BY <1>1, <1>2, <1>3 DEF Spool, DrainTo, source
<1>5. "notify" \in Places /\ DrainMove(s, "notify")
  BY <1>1, <1>2, <1>3, <1>4 DEF DrainTo, TypeOK, DrainMove, Places
<1> QED
  BY <1>5, DrainOwes

LEMMA CloseStep ==
    ASSUME ReplayInv, NEW s \in Streams, CloseStream(s)
    PROVE  ReplayInv'
<1>1. /\ drain[s] = "read" /\ closed' = [closed EXCEPT ![s] = TRUE]
      /\ cut' = (cut \/ ~EndOfFile(s)) /\ DrainTo(s, "notify")
      /\ UNCHANGED <<taken, file, end, woken>>
      /\ TypeOK /\ Spool(s) /\ end[s] = taken[s]
  BY DEF CloseStream, ReplayInv, Spool
<1>2. end[s] \in Nat /\ taken[s] \in Nat
  BY <1>1, Sizes
<1>3. /\ closed' \in [Streams -> BOOLEAN] /\ closed'[s] /\ drain'[s] = "notify"
      /\ \A t \in Streams \ {s} : closed'[t] = closed[t]
  BY <1>1 DEF DrainTo, TypeOK
<1>4. cut' \in BOOLEAN /\ (cut => cut') /\ (~cut' => EndOfFile(s))
  BY <1>1
<1>5. Spool(s)'
  BY <1>1, <1>2, <1>3, <1>4 DEF Spool, DrainTo, source, EndOfFile
<1>6. taken' \in [Streams -> Counts] /\ file' \in [Streams -> Texts]
      /\ end' \in [Streams -> Counts] /\ woken' \in BOOLEAN
  BY <1>1 DEF TypeOK
<1>7. "notify" \in Places /\ DrainMove(s, "notify")
  BY <1>1, <1>2, <1>3, <1>4, <1>5, <1>6 DEF DrainTo, DrainMove, Places
<1> QED
  BY <1>7, DrainOwes

(* The drain that goes back to reading, or stops for good.                  *)
LEMMA NotifyStep ==
    ASSUME ReplayInv, NEW s \in Streams, ReadFails(s) \/ NotifyDrain(s)
    PROVE  ReplayInv'
<1>1. /\ UNCHANGED <<source, waiter, status, sender, armed, client>>
      /\ UNCHANGED <<taken, file, end, closed>>
      /\ NotifyWaiters /\ TypeOK /\ Spool(s) /\ drain[s] \in {"read", "notify"}
  BY DEF ReadFails, NotifyDrain, ReplayInv
<1>2. PICK place \in {"read", "done"} :
          drain' = [drain EXCEPT ![s] = place] /\ (closed[s] => place = "done")
  <2>1. CASE ReadFails(s)
    BY <2>1 DEF ReadFails
  <2>2. CASE NotifyDrain(s) /\ closed[s]
    BY <2>2 DEF NotifyDrain
  <2>3. CASE NotifyDrain(s) /\ ~closed[s]
    BY <2>3 DEF NotifyDrain
  <2> QED
    BY <2>1, <2>2, <2>3
<1>3. drain'[s] = place
  BY <1>1, <1>2 DEF TypeOK
<1>4. cut' \in BOOLEAN /\ (cut => cut') /\ woken' \in BOOLEAN
  <2>1. cut' \in BOOLEAN /\ (cut => cut')
    BY <1>1 DEF ReadFails, NotifyDrain, TypeOK
  <2>2. woken' \in BOOLEAN
    BY <1>1 DEF NotifyWaiters, TypeOK
  <2> QED
    BY <2>1, <2>2
<1>5. end[s] \in Nat /\ end[s] = taken[s]
  BY <1>1, Sizes DEF Spool
<1>6. Spool(s)'
  BY <1>1, <1>2, <1>3, <1>4, <1>5 DEF Spool, source
<1>7. taken' \in [Streams -> Counts] /\ file' \in [Streams -> Texts]
      /\ end' \in [Streams -> Counts] /\ closed' \in [Streams -> BOOLEAN]
  BY <1>1 DEF TypeOK
<1>8. place \in Places /\ DrainMove(s, place)
  BY <1>1, <1>2, <1>4, <1>5, <1>6, <1>7 DEF DrainMove, Places
<1> QED
  BY <1>8, DrainOwes

LEMMA DrainStep ==
    ASSUME ReplayInv, NEW s \in Streams, Drain(s)
    PROVE  ReplayInv'
BY OpenStep, TakeStep, SpoolStep, PublishStep, CloseStep, NotifyStep DEF Drain

-----------------------------------------------------------------------------
(* The sender's turns: nothing is on the move.                              *)

LEMMA SpoolKept ==
    ASSUME ReplayInv, UNCHANGED <<broker, cut>>
    PROVE  /\ \A s \in Streams : Spool(s)'
           /\ (Terminal' <=> Terminal) /\ end' = end
BY DEF ReplayInv, Spool, Terminal, broker, source, record, tasks

(* The sender itself looks, decides and sleeps: what is between it and its  *)
(* client does not move.                                                    *)
LEMMA TurnKeeps ==
    ASSUME ReplayInv, UNCHANGED <<broker, cut, wire, position, got, told>>,
           pc \notin {"none", "ended", "failed"},
           pc' \in {"top", "look", "decide", "write", "select"},
           prefer' = prefer, armed' \in BOOLEAN, woken' \in BOOLEAN,
           hand' \in Frames, seen' \in [end : [Streams -> Counts], terminal : BOOLEAN],
           Snapshot', InHand', pc' = "write" /\ hand'.kind = "exit" => Sent
    PROVE  ReplayInv'
<1>1. TypeOK /\ wire \in Seq(Frames) /\ ExitLast
  BY DEF ReplayInv
<1>2. TypeOK' /\ wire' \in Seq(Frames)
  BY <1>1 DEF TypeOK, broker, source, record, tasks
<1>3. (\A s \in Streams : Spool(s)') /\ (Terminal' <=> Terminal) /\ end' = end
  BY SpoolKept
<1>4. \A s \in Streams : InFlight(s)'
  BY <1>3 DEF ReplayInv, InFlight
<1>5. ~told /\ \A i \in 1 .. Len(wire) : wire[i].kind # "exit"
  BY <1>1 DEF ExitLast
<1>6. ExitLast'
  BY <1>1, <1>3, <1>5 DEF ExitLast, Sent, TypeOK
<1> QED
  BY <1>2, <1>3, <1>4, <1>6 DEF ReplayInv

LEMMA IdleStep ==
    ASSUME ReplayInv, Enable \/ Sleep \/ Wake \/ ReceiptWakes
    PROVE  ReplayInv'
<1>1. /\ UNCHANGED <<broker, cut, wire, position, got, told, prefer, seen, hand>>
      /\ pc \notin {"none", "ended", "failed"} /\ pc' \in {"top", "look", "select"}
      /\ TypeOK
  BY DEF Enable, Sleep, Wake, ReceiptWakes, Turn, ReplayInv
<1>2. armed' \in BOOLEAN /\ woken' \in BOOLEAN
  BY <1>1 DEF Enable, Sleep, Wake, ReceiptWakes, TypeOK
<1>3. Snapshot' /\ InHand'
  BY <1>1 DEF Snapshot, InHand
<1>4. hand' \in Frames /\ seen' \in [end : [Streams -> Counts], terminal : BOOLEAN]
  BY <1>1 DEF TypeOK
<1> QED
  BY <1>1, <1>2, <1>3, <1>4, TurnKeeps

LEMMA LookStep ==
    ASSUME ReplayInv, Look
    PROVE  ReplayInv'
<1>1. /\ UNCHANGED <<broker, cut, wire, position, got, told, prefer, hand, armed, woken>>
      /\ pc = "look" /\ pc' = "decide" /\ TypeOK
      /\ seen' = [end |-> end, terminal |-> Terminal]
  BY DEF Look, Turn, ReplayInv
<1>2. Terminal \in BOOLEAN
  BY DEF Terminal
<1>3. seen' \in [end : [Streams -> Counts], terminal : BOOLEAN]
  BY <1>1, <1>2 DEF TypeOK
<1>4. Terminal' = Terminal /\ end' = end
  BY <1>1 DEF Terminal, broker, record
<1>5. Snapshot'
  <2>1. ASSUME NEW s \in Streams PROVE position[s] <= end[s] /\ end[s] \in Nat
    BY <1>1, Sizes DEF ReplayInv, InFlight
  <2> QED
    BY <1>1, <1>4, <2>1 DEF Snapshot
<1>6. InHand' /\ hand' \in Frames /\ armed' \in BOOLEAN /\ woken' \in BOOLEAN
  BY <1>1 DEF InHand, TypeOK
<1> QED
  BY <1>1, <1>3, <1>5, <1>6, TurnKeeps

LEMMA FinishStep ==
    ASSUME ReplayInv, Finish
    PROVE  ReplayInv'
<1>1. /\ UNCHANGED <<broker, cut, wire, position, got, told, prefer, seen, armed, woken>>
      /\ pc = "decide" /\ pc' = "write" /\ TypeOK /\ hand' = Exit
      /\ CaughtUp /\ seen.terminal /\ Snapshot
  BY DEF Finish, Turn, ReplayInv, ExitDue
<1>2. Terminal /\ seen.end = end
  BY <1>1 DEF Snapshot
<1>3. position = end
  <2>1. ASSUME NEW s \in Streams PROVE position[s] = end[s]
    BY <1>1, <1>2, Sizes DEF CaughtUp, Ready, Snapshot
  <2> QED
    BY <1>1, <2>1 DEF TypeOK
<1>4. Snapshot'
  BY <1>1, SpoolKept DEF Snapshot
<1>5. Exit \in Frames /\ Exit.kind = "exit"
  BY Counting, TextsMade DEF Exit, Frames
<1>6. InHand' /\ seen' \in [end : [Streams -> Counts], terminal : BOOLEAN]
      /\ armed' \in BOOLEAN /\ woken' \in BOOLEAN
  BY <1>1, <1>5 DEF InHand, TypeOK
<1> QED
  BY <1>1, <1>2, <1>3, <1>4, <1>5, <1>6, TurnKeeps DEF Sent

(* What is recorded is in the file: a read finds something, and what it     *)
(* finds is the next part of the stream.                                    *)
LEMMA ReadFinds ==
    ASSUME ReplayInv, NEW s \in Streams, pc = "decide", Ready(s)
    PROVE  \E n \in Nat \ {0} : /\ ReadAt(s) = Slice(position[s], n)
                                /\ position[s] + n <= seen.end[s]
<1>1. /\ position[s] \in Nat /\ seen.end[s] \in Nat /\ end[s] \in Nat /\ Len(file[s]) \in Nat
      /\ position[s] < seen.end[s] /\ seen.end[s] <= end[s] /\ end[s] <= Len(file[s])
      /\ file[s] = Ramp(Len(file[s])) /\ ChunkSize \in Nat \ {0}
  BY Sizes, ReplayAssumption DEF ReplayInv, Snapshot, Spool, Ready
<1> DEFINE m == Min({seen.end[s], position[s] + ChunkSize})
<1>2. m \in Nat /\ position[s] < m /\ m <= seen.end[s]
  <2>1. m = IF seen.end[s] <= position[s] + ChunkSize THEN seen.end[s]
                                                       ELSE position[s] + ChunkSize
    BY <1>1, Smaller
  <2> QED
    BY <1>1, <2>1
<1>3. ReadAt(s) = SubSeq(file[s], position[s] + 1, m)
  BY DEF ReadAt
<1> HIDE DEF m
<1>4. position[s] <= m /\ m <= Len(file[s])
  BY <1>1, <1>2
<1>5. SubSeq(Ramp(Len(file[s])), position[s] + 1, m) = Slice(position[s], m - position[s])
  BY <1>1, <1>2, <1>4, RampPart
<1>6. m - position[s] \in Nat \ {0} /\ position[s] + (m - position[s]) <= seen.end[s]
  BY <1>1, <1>2
<1> QED
  BY <1>1, <1>3, <1>5, <1>6

LEMMA ReadStep ==
    ASSUME ReplayInv, NEW s \in Streams, Read(s)
    PROVE  ReplayInv'
<1>1. /\ UNCHANGED <<broker, cut, wire, position, got, told, prefer, seen, armed, woken>>
      /\ pc = "decide" /\ Ready(s) /\ TypeOK /\ Snapshot
      /\ hand' = Data(s, position[s], ReadAt(s))
      /\ pc' = IF ReadAt(s) = <<>> THEN "failed" ELSE "write"
  BY DEF Read, Turn, Served, ReplayInv
<1>2. PICK n \in Nat \ {0} : ReadAt(s) = Slice(position[s], n) /\ position[s] + n <= seen.end[s]
  BY <1>1, ReadFinds
<1>3. /\ position[s] \in Nat /\ position[s] \in Counts /\ seen.end[s] \in Counts
      /\ seen.end[s] \in Nat
  BY <1>1, Sizes
<1>4. position[s] + n \in Counts
  BY <1>2, <1>3, Counting
<1>5. Slice(position[s], n) \in Texts /\ Len(Slice(position[s], n)) = n
  BY <1>2, <1>3, <1>4, TextsMade, RampSeq
<1>6. pc' = "write"
  BY <1>1, <1>2, <1>5
<1>7. hand' = [kind |-> s, offset |-> position[s], data |-> Slice(position[s], n)]
  BY <1>1, <1>2 DEF Data
<1>8. hand' \in Frames
  BY <1>3, <1>5, <1>7 DEF Frames
<1>9. InHand'
  BY <1>1, <1>2, <1>3, <1>5, <1>7 DEF InHand, Ends
<1>10. Snapshot'
  BY <1>1, <1>6, SpoolKept DEF Snapshot
<1>11. hand'.kind # "exit"
  BY <1>7 DEF Streams
<1>12. seen' \in [end : [Streams -> Counts], terminal : BOOLEAN]
       /\ armed' \in BOOLEAN /\ woken' \in BOOLEAN
  BY <1>1 DEF TypeOK
<1> QED
  BY <1>1, <1>6, <1>8, <1>9, <1>10, <1>11, <1>12, TurnKeeps

-----------------------------------------------------------------------------
(* The wire: frames are put on it behind the last and taken from its head.  *)

LEMMA AttachStep ==
    ASSUME ReplayInv, Resume \/ Fresh
    PROVE  ReplayInv'
<1>1. PICK have \in {got, Nothing} : Attach(have)
  BY DEF Resume, Fresh
<1>2. /\ UNCHANGED <<broker, seen, hand, armed, woken, wire, cut>>
      /\ pc = "none" /\ pc' = "top" /\ got' = have /\ told' = FALSE
      /\ position' = [s \in Streams |-> Len(have[s])] /\ prefer' = "stdout"
      /\ \A s \in Streams : Len(have[s]) <= end[s]
      /\ TypeOK /\ wire = <<>>
  BY <1>1 DEF Attach, ReplayInv, ExitLast
<1>3. /\ have \in [Streams -> Texts]
      /\ \A s \in Streams : have[s] = Ramp(Len(have[s])) /\ Len(have[s]) \in Counts
  <2>1. CASE have = got
    <3>1. ASSUME NEW s \in Streams PROVE got[s] = Ramp(Len(got[s])) /\ Len(got[s]) \in Counts
      BY <1>2, TextSizes DEF ReplayInv, InFlight, TypeOK
    <3> QED
      BY <1>2, <2>1, <3>1 DEF TypeOK
  <2>2. CASE have = Nothing
    BY <2>2, EmptyText DEF Nothing
  <2> QED
    BY <2>1, <2>2
<1>4. position' \in [Streams -> Counts] /\ \A s \in Streams : position'[s] = Len(have[s])
  BY <1>2, <1>3
<1>5. TypeOK'
  BY <1>2, <1>3, <1>4 DEF TypeOK, broker, source, record, tasks, Streams
<1>6. (\A s \in Streams : Spool(s)') /\ end' = end
  BY <1>2, SpoolKept
<1>7. ASSUME NEW s \in Streams PROVE InFlight(s)'
  <2>1. Len(have[s]) \in Nat /\ end[s] \in Nat
    BY <1>2, <1>3, Counting, Sizes
  <2> QED
    BY <1>2, <1>3, <1>4, <1>6, <2>1 DEF InFlight
<1>8. Snapshot' /\ InHand' /\ ExitLast' /\ wire' \in Seq(Frames)
  BY <1>2 DEF Snapshot, InHand, ExitLast, ReplayInv
<1> QED
  BY <1>5, <1>6, <1>7, <1>8 DEF ReplayInv

LEMMA DetachStep ==
    ASSUME ReplayInv, Detach
    PROVE  ReplayInv'
<1>1. /\ UNCHANGED <<broker, position, prefer, got, told, cut>>
      /\ pc' = "none" /\ wire' = <<>> /\ hand' = Exit
      /\ seen' = [end |-> Zero, terminal |-> FALSE] /\ ~armed' /\ ~woken'
      /\ TypeOK /\ ExitLast
  BY DEF Detach, ReplayInv
<1>2. Zero \in [Streams -> Counts] /\ Exit \in Frames
  BY Counting, TextsMade DEF Zero, Exit, Frames
<1>3. TypeOK'
  <2>1. seen' \in [end : [Streams -> Counts], terminal : BOOLEAN]
    BY <1>1, <1>2
  <2>2. Len(wire') <= WireLen /\ \A i \in DOMAIN wire' : wire'[i] \in Frames
    BY <1>1, ReplayAssumption
  <2>3. armed' \in BOOLEAN /\ woken' \in BOOLEAN
    BY DEF Detach
  <2> QED
    BY <1>1, <1>2, <2>1, <2>2, <2>3 DEF TypeOK, broker, source, record, tasks
<1>4. (\A s \in Streams : Spool(s)') /\ (Terminal' <=> Terminal) /\ end' = end
  BY <1>1, SpoolKept
<1>5. ASSUME NEW s \in Streams PROVE InFlight(s)'
  BY <1>1, <1>4 DEF ReplayInv, InFlight
<1>6. Snapshot' /\ InHand' /\ wire' \in Seq(Frames)
  BY <1>1 DEF Snapshot, InHand
<1>7. ExitLast'
  BY <1>1, <1>4 DEF ExitLast
<1> QED
  BY <1>3, <1>4, <1>5, <1>6, <1>7 DEF ReplayInv

LEMMA WriteFrameStep ==
    ASSUME ReplayInv, WriteFrame
    PROVE  ReplayInv'
<1> DEFINE k == hand.kind
<1>1. /\ UNCHANGED <<broker, cut, got, told, seen, hand, armed, woken>>
      /\ pc = "write" /\ pc' \in {"top", "ended"} /\ wire' = Append(wire, hand)
      /\ TypeOK /\ ExitLast /\ wire \in Seq(Frames) /\ hand \in Frames
      /\ Len(wire) < WireLen
  BY DEF WriteFrame, Turn, ReplayInv, TypeOK
<1>2. /\ wire' \in Seq(Frames) /\ Len(wire') = Len(wire) + 1 /\ Len(wire) \in Nat
      /\ wire'[Len(wire) + 1] = hand
      /\ \A i \in 1 .. Len(wire) : wire'[i] = wire[i] /\ wire[i].kind # "exit"
      /\ ~told
  BY <1>1, AppendProperties DEF ExitLast
<1>3. (\A s \in Streams : Spool(s)') /\ (Terminal' <=> Terminal) /\ end' = end
  BY <1>1, SpoolKept
<1>4. /\ pc' = "ended" <=> k = "exit"
      /\ k = "exit" => UNCHANGED <<position, prefer>>
      /\ k # "exit" => /\ position' = [position EXCEPT ![k] = @ + Len(hand.data)]
                       /\ prefer' = Other(k)
                       /\ k \in Streams
  BY <1>1 DEF WriteFrame, Turn, Frames
<1>5. k # "exit" => /\ hand.offset = position[k] /\ hand.offset < Ends(hand)
                    /\ Ends(hand) <= seen.end[k] /\ seen.end[k] <= end[k]
                    /\ hand.data = Slice(hand.offset, Len(hand.data))
  BY <1>1, <1>4 DEF ReplayInv, InHand, Snapshot
<1>6. \A s \in Streams : position[s] \in Nat /\ end[s] \in Nat /\ end[s] \in Counts
                         /\ seen.end[s] \in Nat /\ Len(got[s]) \in Nat
  BY <1>1, Sizes
<1>7. hand.offset \in Nat /\ Len(hand.data) \in Nat /\ Ends(hand) \in Nat
  BY <1>1, FrameSizes
<1>8. ASSUME NEW s \in Streams
      PROVE  /\ position'[s] = IF s = k THEN Ends(hand) ELSE position[s]
             /\ position'[s] <= end[s] /\ position[s] <= position'[s]
  <2>1. position[s] <= end[s]
    BY <1>1 DEF ReplayInv, InFlight
  <2>2. CASE s = k
    <3>1. position'[s] = position[s] + Len(hand.data) /\ k # "exit"
      BY <1>1, <1>4, <2>2 DEF TypeOK, Streams
    <3> QED
      BY <1>5, <1>6, <1>7, <2>2, <3>1 DEF Ends
  <2>3. CASE s # k
    BY <1>1, <1>4, <1>6, <2>1, <2>3 DEF TypeOK
  <2> QED
    BY <2>2, <2>3
<1>9. position' \in [Streams -> Counts]
  <2>1. CASE k = "exit"
    BY <1>1, <1>4, <2>1 DEF TypeOK
  <2>2. CASE k # "exit"
    <3>1. position[k] + Len(hand.data) = Ends(hand)
      BY <1>5, <2>2 DEF Ends
    <3>2. Ends(hand) \in Counts
      BY <1>4, <1>5, <1>6, <1>7, <2>2, Counting
    <3> QED
      BY <1>1, <1>4, <2>2, <3>1, <3>2 DEF TypeOK
  <2> QED
    BY <2>1, <2>2
<1>10. TypeOK'
  <2>1. prefer' \in Streams
    BY <1>1, <1>4 DEF TypeOK, Other, Streams
  <2>2. Len(wire') <= WireLen /\ \A i \in DOMAIN wire' : wire'[i] \in Frames
    BY <1>1, <1>2, ReplayAssumption
  <2> QED
    BY <1>1, <1>9, <2>1, <2>2 DEF TypeOK, broker, source, record, tasks
<1>11. ASSUME NEW s \in Streams PROVE InFlight(s)'
  <2>1. InFlight(s) /\ pc # "none" /\ pc' # "none"
    BY <1>1 DEF ReplayInv
  <2>2. Len(got[s]) <= position[s] /\ got'[s] = got[s]
    BY <1>1, <2>1 DEF InFlight
  <2>3. position'[s] \in Nat
    BY <1>9, Counting
  <2>4. /\ Len(got'[s]) <= end'[s] /\ got'[s] = Ramp(Len(got'[s]))
        /\ Len(got'[s]) <= position'[s] /\ position'[s] <= end'[s]
    BY <1>3, <1>6, <1>8, <2>3, <2>1, <2>2 DEF InFlight
  <2>5. ASSUME NEW i \in 1 .. Len(wire'), wire'[i].kind = s
        PROVE  /\ Len(got'[s]) <= wire'[i].offset /\ wire'[i].offset < Ends(wire'[i])
               /\ Ends(wire'[i]) <= position'[s]
               /\ wire'[i].data = Slice(wire'[i].offset, Len(wire'[i].data))
               /\ \A j \in 1 .. i - 1 : wire'[j].kind = s => Ends(wire'[j]) <= wire'[i].offset
    <3>1. CASE i \in 1 .. Len(wire)
      <4>1. wire[i] \in Frames /\ Ends(wire[i]) \in Nat
        BY <1>1, <3>1, FrameSizes
      <4>2. wire'[i] = wire[i] /\ \A j \in 1 .. i - 1 : wire'[j] = wire[j]
        BY <1>2, <3>1
      <4>3. /\ Len(got[s]) <= wire[i].offset /\ wire[i].offset < Ends(wire[i])
            /\ Ends(wire[i]) <= position[s]
            /\ wire[i].data = Slice(wire[i].offset, Len(wire[i].data))
            /\ \A j \in 1 .. i - 1 : wire[j].kind = s => Ends(wire[j]) <= wire[i].offset
        BY <2>1, <2>5, <3>1, <4>2 DEF InFlight
      <4>4. Ends(wire[i]) <= position'[s]
        BY <1>6, <1>8, <2>3, <4>1, <4>3
      <4> QED
        BY <2>2, <4>2, <4>3, <4>4
    <3>2. CASE i = Len(wire) + 1
      <4>1. wire'[i] = hand /\ s = k /\ k # "exit"
        BY <1>2, <2>5, <3>2 DEF Streams
      <4>2. \A j \in 1 .. i - 1 : wire'[j] = wire[j] /\ (wire[j].kind = s => Ends(wire[j]) <= position[s])
        BY <1>2, <2>1, <3>2 DEF InFlight
      <4>3. Ends(hand) <= position'[s]
        BY <1>7, <1>8, <4>1
      <4> QED
        BY <1>5, <2>2, <4>1, <4>2, <4>3
    <3> QED
      BY <1>2, <3>1, <3>2
  <2>6. ASSUME NEW b \in Len(got'[s]) + 1 .. position'[s]
        PROVE  \E i \in 1 .. Len(wire') :
                  wire'[i].kind = s /\ wire'[i].offset < b /\ b <= Ends(wire'[i])
    <3>1. CASE b <= position[s]
      <4>1. b \in Len(got[s]) + 1 .. position[s]
        BY <1>6, <2>2, <3>1
      <4>2. PICK i \in 1 .. Len(wire) : wire[i].kind = s /\ wire[i].offset < b /\ b <= Ends(wire[i])
        BY <2>1, <4>1 DEF InFlight
      <4> QED
        BY <1>2, <4>2
    <3>2. CASE ~(b <= position[s])
      <4>1. position'[s] \in Nat /\ position[s] \in Nat /\ b \in Int
        BY <1>6, <2>3
      <4>2. s = k /\ k # "exit" /\ position'[s] = Ends(hand)
        BY <1>8, <3>2, <4>1 DEF Streams
      <4>3. hand.offset < b /\ b <= Ends(hand)
        BY <1>5, <3>2, <4>1, <4>2
      <4>4. Len(wire) + 1 \in 1 .. Len(wire')
        BY <1>2
      <4> QED
        BY <1>2, <4>2, <4>3, <4>4
    <3> QED
      BY <3>1, <3>2
  <2> QED
    BY <2>4, <2>5, <2>6 DEF InFlight
<1>12. Snapshot' /\ InHand'
  BY <1>1 DEF Snapshot, InHand
<1>13. ExitLast'
  <2>1. k = "exit" => Sent
    BY <1>1 DEF ExitLast
  <2>2. ASSUME NEW i \in 1 .. Len(wire'), wire'[i].kind = "exit"
        PROVE  i = Len(wire') /\ pc' = "ended"
    BY <1>2, <1>4, <2>2
  <2> QED
    BY <1>1, <1>2, <1>3, <1>4, <2>1, <2>2 DEF ExitLast, Sent
<1> QED
  BY <1>2, <1>3, <1>10, <1>11, <1>12, <1>13 DEF ReplayInv

(* The frame at the head of the wire continues what the client has; the     *)
(* exit has nothing before it, because it is the last.                      *)
LEMMA HeadContinues ==
    ASSUME ReplayInv, wire # <<>>
    PROVE  /\ Head(wire) = wire[1] /\ Head(wire) \in Frames /\ pc # "none"
           /\ Len(wire) \in Nat \ {0} /\ Tail(wire) \in Seq(Frames)
           /\ Len(Tail(wire)) = Len(wire) - 1
           /\ \A i \in 1 .. Len(Tail(wire)) : Tail(wire)[i] = wire[i + 1]
           /\ Head(wire).kind \in Streams =>
                 /\ Head(wire).offset = Len(got[Head(wire).kind])
                 /\ Head(wire).offset < Ends(Head(wire))
                 /\ Ends(Head(wire)) <= end[Head(wire).kind]
                 /\ Head(wire).data = Slice(Head(wire).offset, Len(Head(wire).data))
           /\ Head(wire).kind = "exit" =>
                 /\ Len(wire) = 1 /\ pc = "ended" /\ Terminal
                 /\ \A s \in Streams : Len(got[s]) = end[s]
<1>1. /\ wire \in Seq(Frames) /\ TypeOK /\ ExitLast
      /\ Head(wire) = wire[1] /\ Len(wire) \in Nat \ {0} /\ 1 \in 1 .. Len(wire)
  BY DEF ReplayInv
<1>2. /\ Head(wire) \in Frames /\ Tail(wire) \in Seq(Frames)
      /\ Len(Tail(wire)) = Len(wire) - 1
      /\ \A i \in 1 .. Len(Tail(wire)) : Tail(wire)[i] = wire[i + 1]
  BY <1>1, HeadTailProperties
<1>3. pc # "none"
  BY <1>1 DEF ExitLast
<1>4. ASSUME NEW s \in Streams, wire[1].kind = s
      PROVE  /\ wire[1].offset = Len(got[s]) /\ wire[1].offset < Ends(wire[1])
             /\ Ends(wire[1]) <= end[s]
             /\ wire[1].data = Slice(wire[1].offset, Len(wire[1].data))
  <2>1. /\ position[s] \in Nat /\ end[s] \in Nat /\ Len(got[s]) \in Nat
        /\ wire[1].offset \in Nat /\ Ends(wire[1]) \in Nat
    BY <1>1, <1>2, Sizes, FrameSizes
  <2>2. /\ Len(got[s]) <= wire[1].offset /\ wire[1].offset < Ends(wire[1])
        /\ Ends(wire[1]) <= position[s] /\ position[s] <= end[s]
        /\ wire[1].data = Slice(wire[1].offset, Len(wire[1].data))
    BY <1>1, <1>3, <1>4 DEF ReplayInv, InFlight
  <2>3. Len(got[s]) + 1 \in Len(got[s]) + 1 .. position[s]
    BY <2>1, <2>2
  <2>4. PICK i \in 1 .. Len(wire) : /\ wire[i].kind = s /\ wire[i].offset < Len(got[s]) + 1
                                    /\ Len(got[s]) + 1 <= Ends(wire[i])
    BY <1>3, <2>3 DEF ReplayInv, InFlight
  <2>5. wire[i].offset \in Nat /\ i \in Nat
    BY <1>1, <2>4, FrameSizes
  <2>6. CASE i = 1
    BY <2>1, <2>2, <2>4, <2>6
  <2>7. CASE i # 1
    <3>1. 1 \in 1 .. i - 1
      BY <2>4, <2>5, <2>7
    <3>2. Ends(wire[1]) <= wire[i].offset
      BY <1>4, <2>4, <3>1 DEF ReplayInv, InFlight
    <3> QED
      BY <2>1, <2>2, <2>4, <2>5, <3>2
  <2> QED
    BY <2>6, <2>7
<1>5. ASSUME wire[1].kind = "exit"
      PROVE  /\ Len(wire) = 1 /\ pc = "ended" /\ Terminal
             /\ \A s \in Streams : Len(got[s]) = end[s]
  <2>1. Len(wire) = 1 /\ pc = "ended" /\ Sent
    BY <1>1, <1>5 DEF ExitLast
  <2>2. ASSUME NEW s \in Streams PROVE Len(got[s]) = end[s]
    <3>1. position[s] = end[s] /\ Len(got[s]) \in Nat /\ position[s] \in Nat
      BY <1>1, <2>1, Sizes DEF Sent
    <3>2. Len(got[s]) <= position[s]
      BY <1>3 DEF ReplayInv, InFlight
    <3>3. wire[1].kind # s
      BY <1>5 DEF Streams
    <3>4. ~(Len(got[s]) + 1 \in Len(got[s]) + 1 .. position[s])
      BY <1>3, <2>1, <3>3 DEF ReplayInv, InFlight
    <3> QED
      BY <3>1, <3>2, <3>4
  <2> QED
    BY <2>1, <2>2 DEF Sent
<1> QED
  BY <1>1, <1>2, <1>3, <1>4, <1>5

LEMMA ReceiveExit ==
    ASSUME ReplayInv, Receive, Head(wire).kind = "exit"
    PROVE  ReplayInv' /\ got' = got
<1>1. /\ UNCHANGED <<broker, sender, armed, woken, cut>> /\ got' = got /\ told'
      /\ wire # <<>> /\ wire' = Tail(wire) /\ TypeOK /\ ExitLast
  BY DEF Receive, ReplayInv
<1>2. /\ Len(wire) = 1 /\ pc = "ended" /\ Terminal /\ wire' \in Seq(Frames)
      /\ Len(wire') = 0 /\ wire' = <<>> /\ \A s \in Streams : Len(got[s]) = end[s]
  BY <1>1, HeadContinues
<1>3. TypeOK'
  <2>1. Len(wire') <= WireLen /\ \A i \in DOMAIN wire' : wire'[i] \in Frames
    BY <1>2, ReplayAssumption
  <2>2. told' \in BOOLEAN
    BY DEF Receive
  <2> QED
    BY <1>1, <2>1, <2>2 DEF TypeOK, broker, source, record, tasks, sender
<1>4. (\A s \in Streams : Spool(s)') /\ (Terminal' <=> Terminal) /\ end' = end
  BY <1>1, SpoolKept
<1>5. ASSUME NEW s \in Streams PROVE InFlight(s)'
  <2>1. /\ position[s] = end[s] /\ Len(got[s]) = end[s] /\ end[s] \in Nat
        /\ got[s] = Ramp(Len(got[s]))
    BY <1>1, <1>2, Sizes DEF ExitLast, Sent, ReplayInv, InFlight
  <2> QED
    BY <1>1, <1>2, <1>4, <2>1 DEF InFlight, sender
<1>6. Snapshot' /\ InHand' /\ ExitLast'
  BY <1>1, <1>2, <1>4 DEF Snapshot, InHand, ExitLast, Sent, sender
<1> QED
  BY <1>1, <1>2, <1>3, <1>4, <1>5, <1>6 DEF ReplayInv

LEMMA ReceiveData ==
    ASSUME ReplayInv, Receive, Head(wire).kind # "exit"
    PROVE  /\ ReplayInv' /\ UNCHANGED <<broker, told>>
           /\ \E s \in Streams : \E n \in Len(got[s]) + 1 .. end[s] :
                 got' = [got EXCEPT ![s] = Ramp(n)]
<1>1. /\ UNCHANGED <<broker, sender, armed, woken, cut>> /\ ~told'
      /\ wire # <<>> /\ wire' = Tail(wire) /\ TypeOK /\ ExitLast /\ ~told /\ wire \in Seq(Frames)
  BY DEF Receive, ReplayInv, ExitLast
<1>2. /\ Head(wire) = wire[1] /\ wire[1] \in Frames /\ pc # "none"
      /\ Len(wire) \in Nat \ {0} /\ wire' \in Seq(Frames) /\ Len(wire') = Len(wire) - 1
      /\ \A i \in 1 .. Len(wire') : wire'[i] = wire[i + 1]
  BY <1>1, HeadContinues
<1>3. PICK k \in Streams, n \in Nat :
         /\ wire[1].kind = k /\ wire[1].offset = Len(got[k]) /\ Ends(wire[1]) = n
         /\ Len(got[k]) < n /\ n <= end[k]
         /\ got' = [got EXCEPT ![k] = Ramp(n)]
  <2> DEFINE f == wire[1]
             k == f.kind
             o == f.offset
             m == Len(f.data)
  <2>1. k \in Streams /\ o \in Nat /\ m \in Nat /\ o + m \in Nat
    BY <1>2, FrameSizes
  <2>2. /\ o = Len(got[k]) /\ o < o + m /\ o + m <= end[k] /\ f.data = Slice(o, m)
        /\ Ends(f) = o + m
    BY <1>1, <1>2, <2>1, HeadContinues DEF Ends
  <2>3. got[k] = Ramp(o)
    BY <2>1, <2>2 DEF ReplayInv, InFlight
  <2>4. SubSeq(Ramp(o), 1, o) = Ramp(o)
    BY <2>1, RampPrefix
  <2>5. Ramp(o) \o Slice(o, m) = Ramp(o + m)
    BY <2>1, RampJoin
  <2>6. SubSeq(got[k], 1, o) \o f.data = Ramp(o + m)
    BY <2>2, <2>3, <2>4, <2>5
  <2>7. got' = [got EXCEPT ![k] = SubSeq(got[k], 1, o) \o f.data]
    BY <1>2 DEF Receive
  <2>8. got' = [got EXCEPT ![k] = Ramp(o + m)]
    BY <2>6, <2>7
  <2> QED
    BY <2>1, <2>2, <2>8
<1>4. \A s \in Streams : /\ end[s] \in Nat /\ end[s] \in Counts /\ position[s] \in Nat
                         /\ Len(got[s]) \in Nat
  BY <1>1, Sizes
<1>5. n \in Counts /\ Ramp(n) \in Texts /\ Len(Ramp(n)) = n
  <2>1. n \in Counts /\ n + 0 = n /\ 0 + n \in Counts
    BY <1>2, <1>3, <1>4, Counting
  <2> QED
    BY <1>3, <2>1, TextsMade, RampSeq
<1>6. /\ got' \in [Streams -> Texts] /\ got'[k] = Ramp(n)
      /\ \A s \in Streams : s # k => got'[s] = got[s]
  BY <1>1, <1>3, <1>5 DEF TypeOK
<1>7. TypeOK'
  <2>1. Len(wire') <= WireLen /\ \A i \in DOMAIN wire' : wire'[i] \in Frames
    BY <1>1, <1>2, ReplayAssumption DEF TypeOK
  <2>2. told' \in BOOLEAN
    BY DEF Receive
  <2> QED
    BY <1>1, <1>6, <2>1, <2>2 DEF TypeOK, broker, source, record, tasks, sender
<1>8. (\A s \in Streams : Spool(s)') /\ (Terminal' <=> Terminal) /\ end' = end
  BY <1>1, SpoolKept
<1>9. ASSUME NEW s \in Streams PROVE InFlight(s)'
  <2>1. InFlight(s)
    BY DEF ReplayInv
  <2>2. Len(got[s]) <= position[s] /\ position[s] <= end[s] /\ got[s] = Ramp(Len(got[s]))
    BY <1>2, <2>1 DEF InFlight
  <2>3. s = k => n <= position[s]
    BY <1>2, <1>3, <2>1 DEF InFlight
  <2>4. /\ got'[s] = Ramp(Len(got'[s])) /\ Len(got'[s]) = (IF s = k THEN n ELSE Len(got[s]))
        /\ Len(got'[s]) <= position[s] /\ Len(got'[s]) <= end[s] /\ Len(got'[s]) \in Nat
        /\ Len(got[s]) <= Len(got'[s])
    BY <1>2, <1>3, <1>4, <1>5, <1>6, <2>2, <2>3
  <2>5. ASSUME NEW i \in 1 .. Len(wire'), wire'[i].kind = s
        PROVE  /\ Len(got'[s]) <= wire'[i].offset /\ wire'[i].offset < Ends(wire'[i])
               /\ Ends(wire'[i]) <= position[s]
               /\ wire'[i].data = Slice(wire'[i].offset, Len(wire'[i].data))
               /\ \A j \in 1 .. i - 1 : wire'[j].kind = s => Ends(wire'[j]) <= wire'[i].offset
    <3>1. i + 1 \in 1 .. Len(wire) /\ wire'[i] = wire[i + 1] /\ 1 \in 1 .. (i + 1) - 1
      BY <1>2
    <3>2. /\ Len(got[s]) <= wire[i + 1].offset /\ wire[i + 1].offset < Ends(wire[i + 1])
          /\ Ends(wire[i + 1]) <= position[s]
          /\ wire[i + 1].data = Slice(wire[i + 1].offset, Len(wire[i + 1].data))
          /\ \A j \in 1 .. (i + 1) - 1 :
                wire[j].kind = s => Ends(wire[j]) <= wire[i + 1].offset
      BY <2>1, <2>5, <3>1 DEF InFlight
    <3>3. s = k => n <= wire[i + 1].offset
      BY <1>3, <3>1, <3>2
    <3>4. ASSUME NEW j \in 1 .. i - 1, wire'[j].kind = s
          PROVE  Ends(wire'[j]) <= wire'[i].offset
      <4>1. j + 1 \in 1 .. (i + 1) - 1 /\ wire'[j] = wire[j + 1]
        BY <1>2
      <4> QED
        BY <3>1, <3>2, <3>4, <4>1
    <3> QED
      BY <2>4, <3>1, <3>2, <3>3, <3>4
  <2>6. ASSUME NEW b \in Len(got'[s]) + 1 .. position[s]
        PROVE  \E i \in 1 .. Len(wire') :
                  wire'[i].kind = s /\ wire'[i].offset < b /\ b <= Ends(wire'[i])
    <3>1. b \in Len(got[s]) + 1 .. position[s]
      BY <1>4, <2>4
    <3>2. PICK i \in 1 .. Len(wire) : wire[i].kind = s /\ wire[i].offset < b /\ b <= Ends(wire[i])
      BY <1>2, <2>1, <3>1 DEF InFlight
    <3>3. i # 1
      BY <1>2, <1>3, <2>4, <3>2
    <3>4. i - 1 \in 1 .. Len(wire') /\ wire'[i - 1] = wire[i]
      BY <1>2, <3>3
    <3> QED
      BY <3>2, <3>4
  <2> QED
    BY <1>1, <1>4, <1>8, <2>2, <2>4, <2>5, <2>6 DEF InFlight, sender
<1>10. Snapshot' /\ InHand'
  BY <1>1, <1>8 DEF Snapshot, InHand, sender, ReplayInv
<1>11. ExitLast'
  <2>1. \A i \in 1 .. Len(wire') : wire'[i].kind = "exit" => i = Len(wire') /\ pc = "ended"
    <3> SUFFICES ASSUME NEW i \in 1 .. Len(wire'), wire'[i].kind = "exit"
                 PROVE  i = Len(wire') /\ pc = "ended"
      OBVIOUS
    <3>1. i + 1 \in 1 .. Len(wire) /\ wire'[i] = wire[i + 1]
      BY <1>2
    <3>2. i + 1 = Len(wire) /\ pc = "ended"
      BY <1>1, <3>1 DEF ExitLast
    <3> QED
      BY <1>2, <3>2
  <2> QED
    BY <1>1, <1>2, <1>8, <2>1 DEF ExitLast, Sent, sender
<1>12. UNCHANGED <<broker, told>>
  BY <1>1 DEF Receive, TypeOK
<1>13. n \in Len(got[k]) + 1 .. end[k]
  BY <1>2, <1>3, <1>4
<1> QED
  BY <1>2, <1>3, <1>7, <1>8, <1>9, <1>10, <1>11, <1>12, <1>13 DEF ReplayInv

LEMMA Inductive == ReplayInv /\ [Next]_vars => ReplayInv'
<1> SUFFICES ASSUME ReplayInv, [Next]_vars PROVE ReplayInv'
    OBVIOUS
<1>1. CASE \E s \in Streams : Write(s) \/ Release(s) \/ Drain(s)
  BY <1>1, SourceStep, DrainStep
<1>2. CASE RecordStatus \/ NotifyStatus
  BY <1>2, WaiterStep
<1>3. CASE Resume \/ Fresh
  BY <1>3, AttachStep
<1>4. CASE Detach
  BY <1>4, DetachStep
<1>5. CASE Receive
  BY <1>5, ReceiveExit, ReceiveData
<1>6. CASE Sender \/ ReceiptWakes
  BY <1>6, IdleStep, LookStep, FinishStep, WriteFrameStep, ReadStep DEF Sender
<1>7. CASE UNCHANGED vars
  <2>1. UNCHANGED <<broker, sender, client, armed, woken, cut>>
    BY <1>7 DEF vars, broker, source, record, tasks, sender, client
  <2>2. TypeOK' /\ wire' \in Seq(Frames)
    BY <2>1 DEF ReplayInv, TypeOK, broker, source, record, tasks, sender, client
  <2>3. (\A s \in Streams : Spool(s)') /\ (Terminal' <=> Terminal) /\ end' = end
    BY <2>1, SpoolKept
  <2>4. (\A s \in Streams : InFlight(s)') /\ Snapshot' /\ InHand' /\ ExitLast'
    BY <2>1, <2>3 DEF ReplayInv, InFlight, Snapshot, InHand, ExitLast, Sent, sender, client
  <2> QED
    BY <2>2, <2>3, <2>4 DEF ReplayInv
<1> QED
  BY <1>1, <1>2, <1>3, <1>4, <1>5, <1>6, <1>7 DEF Next

LEMMA Enough == ReplayInv => Replayable
<1> SUFFICES ASSUME ReplayInv PROVE Replayable
    OBVIOUS
<1>1. TypeOK /\ pc # "failed"
  BY DEF ReplayInv, ExitLast
<1>2. ASSUME NEW s \in Streams PROVE Len(file[s]) >= end[s] /\ Len(got[s]) <= end[s]
  BY <1>1, Sizes DEF ReplayInv, Spool, InFlight
<1>3. ASSUME told, ~cut, NEW s \in Streams PROVE Len(got[s]) = printed[s]
  <2>1. Len(got[s]) = end[s] /\ closed[s]
    BY <1>3 DEF ReplayInv, ExitLast, Terminal
  <2> QED
    BY <1>3, <2>1 DEF ReplayInv, Spool
<1> QED
  BY <1>1, <1>2, <1>3 DEF Replayable

(* What the broker has recorded, a sender can replay: its reads never fail, *)
(* a client's offset is never ahead of the record, and a client that was    *)
(* told the exit has all that was printed (drain_output, send_buffered_     *)
(* output).                                                                 *)
THEOREM ReplayedInFull == Spec => []Replayable
<1>1. Init => ReplayInv
  BY InitInv
<1>2. ReplayInv /\ [Next]_vars => ReplayInv'
  BY Inductive
<1>3. ReplayInv => Replayable
  BY Enough
<1> QED
  BY <1>1, <1>2, <1>3, PTL DEF Spec

-----------------------------------------------------------------------------
(* The broker implements the log.                                           *)

(* The log of OutputLog, Recorded, is what the ends cut from the files.      *)
Ramps(e) == [s \in Streams |-> Ramp(e[s])]

LEMMA FilesCut ==
    ASSUME NEW f \in [Streams -> Texts], NEW e \in [Streams -> Counts],
           \A s \in Streams : f[s] = Ramp(Len(f[s])) /\ Len(f[s]) >= e[s]
    PROVE  [s \in Streams |-> SubSeq(f[s], 1, e[s])] = Ramps(e)
<1>1. ASSUME NEW s \in Streams PROVE SubSeq(f[s], 1, e[s]) = Ramp(e[s])
  <2>1. e[s] \in Nat /\ Len(f[s]) \in Nat
    BY TextSizes, Counting
  <2> QED
    BY <2>1, RampPrefix
<1> QED
  BY <1>1 DEF Ramps

LEMMA RecordedIs == ASSUME ReplayInv PROVE Recorded = Ramps(end)
<1>1. ASSUME NEW s \in Streams PROVE file[s] = Ramp(Len(file[s])) /\ Len(file[s]) >= end[s]
  BY Sizes DEF ReplayInv, Spool
<1>2. file \in [Streams -> Texts] /\ end \in [Streams -> Counts]
  BY DEF ReplayInv, TypeOK
<1> QED
  BY <1>1, <1>2, FilesCut DEF Recorded

LEMMA RecordedNext == ASSUME ReplayInv' PROVE Recorded' = Ramps(end')
<1>1. file' \in [Streams -> Texts] /\ end' \in [Streams -> Counts]
  BY DEF ReplayInv, TypeOK
<1>2. ASSUME NEW s \in Streams
      PROVE  file'[s] = Ramp(Len(file'[s])) /\ Len(file'[s]) >= end'[s]
  <2>1. file'[s] = Ramp(Len(file'[s])) /\ Len(file'[s]) \in end'[s] .. taken'[s]
    BY DEF ReplayInv, Spool
  <2>2. end'[s] \in Nat /\ taken'[s] \in Nat
    BY <1>1, Counting DEF ReplayInv, TypeOK
  <2> QED
    BY <2>1, <2>2
<1> QED
  BY <1>1, <1>2, FilesCut DEF Recorded

LEMMA LogInit == Init => Log!Init
<1> SUFFICES ASSUME Init PROVE Log!Init
    OBVIOUS
<1>1. Recorded = Ramps(end)
  BY InitInv, RecordedIs
<1>2. Ramps(end) = Nothing
  BY EmptyText DEF Init, Zero, Nothing, Ramps
<1> QED
  BY <1>1, <1>2 DEF Init, Log!Init, Log!Nothing, Nothing

(* The steps that the log sees are Publish, CloseStream, RecordStatus,      *)
(* Fresh and Receive: every other leaves the five mapped values alone.      *)
LEMMA Unseen ==
    ASSUME ReplayInv, ReplayInv', UNCHANGED <<end, closed, status, got, told>>
    PROVE  UNCHANGED Log!vars
<1>1. Recorded' = Recorded
  BY RecordedIs, RecordedNext
<1> QED
  BY <1>1 DEF Log!vars

LEMMA LogGrows ==
    ASSUME ReplayInv, ReplayInv', NEW s \in Streams, Publish(s)
    PROVE  Log!Grow(s)
<1>1. /\ TypeOK /\ ~closed[s] /\ end[s] < taken[s]
      /\ end' = [end EXCEPT ![s] = taken[s]]
      /\ UNCHANGED <<closed, status, got, told>>
  BY DEF ReplayInv, Spool, Publish, DrainTo, client
<1>2. end[s] \in Nat /\ taken[s] \in Nat
  BY <1>1, Sizes
<1>3. end'[s] = taken[s] /\ \A t \in Streams \ {s} : end'[t] = end[t]
  BY <1>1 DEF TypeOK
<1>4. /\ Recorded[s] = Ramp(end[s]) /\ Recorded'[s] = Ramp(taken[s])
      /\ \A t \in Streams \ {s} : Recorded'[t] = Recorded[t]
  BY <1>3, RecordedIs, RecordedNext DEF Ramps
<1>5. Len(Ramp(end[s])) = end[s] /\ Len(Ramp(taken[s])) = taken[s]
  BY <1>2, RampSeq
<1>6. end[s] <= end[s] /\ end[s] <= taken[s]
  BY <1>1, <1>2
<1>7. /\ SubSeq(Ramp(end[s]), 1, end[s]) = Ramp(end[s])
      /\ SubSeq(Ramp(taken[s]), 1, end[s]) = Ramp(end[s])
  BY <1>2, <1>6, RampPrefix
<1>8. Ramp(end[s]) # Ramp(taken[s])
  BY <1>1, <1>2, <1>5
<1>9. Log!IsStrictPrefix(Recorded[s], Recorded'[s])
  BY <1>4, <1>5, <1>6, <1>7, <1>8 DEF Log!IsStrictPrefix, Log!IsPrefix
<1> QED
  BY <1>1, <1>4, <1>9 DEF Log!Grow

LEMMA LogReceives ==
    ASSUME ReplayInv, ReplayInv', Receive
    PROVE  Log!Next
<1>1. wire # <<>> /\ TypeOK /\ UNCHANGED broker
  BY DEF Receive, ReplayInv
<1>2. Recorded' = Recorded /\ UNCHANGED <<closed, status>>
  BY <1>1, RecordedIs, RecordedNext DEF broker, record
<1>3. CASE Head(wire).kind = "exit"
  <2>1. got' = got /\ told' = TRUE
    BY <1>3, ReceiveExit DEF Receive
  <2>2. Terminal /\ \A s \in Streams : Len(got[s]) = end[s]
    BY <1>1, <1>3, HeadContinues
  <2>3. ASSUME NEW s \in Streams PROVE got[s] = Recorded[s]
    BY <2>2, RecordedIs DEF ReplayInv, InFlight, Ramps
  <2>4. got = Recorded
    BY <1>1, <2>3 DEF TypeOK, Recorded
  <2> QED
    BY <1>2, <2>1, <2>2, <2>4 DEF Log!Next, Log!Tell, Terminal
<1>4. CASE Head(wire).kind # "exit"
  <2>1. PICK s \in Streams : \E n \in Len(got[s]) + 1 .. end[s] :
                                got' = [got EXCEPT ![s] = Ramp(n)]
    BY <1>4, ReceiveData
  <2>2. PICK n \in Len(got[s]) + 1 .. end[s] : got' = [got EXCEPT ![s] = Ramp(n)]
    BY <2>1
  <2>3. told' = told
    BY <1>4, ReceiveData
  <2>4. end[s] \in Nat /\ Len(got[s]) \in Nat /\ Recorded[s] = Ramp(end[s])
    BY <1>1, Sizes, RecordedIs DEF Ramps
  <2>5. Len(Recorded[s]) = end[s] /\ SubSeq(Recorded[s], 1, n) = Ramp(n)
    <3>1. n \in Nat /\ n <= end[s]
      BY <2>2, <2>4
    <3>2. SubSeq(Ramp(end[s]), 1, n) = Ramp(n)
      BY <2>4, <3>1, RampPrefix
    <3>3. 0 \in Nat /\ Len(Ramp(end[s])) = end[s]
      BY <2>4, RampSeq
    <3> QED
      BY <2>4, <3>2, <3>3
  <2>6. \E m \in Len(got[s]) + 1 .. Len(Recorded[s]) :
           got' = [got EXCEPT ![s] = SubSeq(Recorded[s], 1, m)]
    BY <2>2, <2>5
  <2>7. Log!Deliver(s)
    BY <1>2, <2>3, <2>6 DEF Log!Deliver
  <2> QED
    BY <2>7 DEF Log!Next
<1> QED
  BY <1>3, <1>4

LEMMA LogStep == ReplayInv /\ ReplayInv' /\ [Next]_vars => [Log!Next]_(Log!vars)
<1> SUFFICES ASSUME ReplayInv, ReplayInv', [Next]_vars PROVE [Log!Next]_(Log!vars)
    OBVIOUS
<1>1. CASE \E s \in Streams : Write(s) \/ Release(s)
  <2>1. UNCHANGED <<end, closed, status, got, told>>
    BY <1>1 DEF Write, Release, record, client
  <2> QED
    BY <2>1, Unseen
<1>2. ASSUME NEW s \in Streams, Drain(s) PROVE [Log!Next]_(Log!vars)
  <2>1. CASE Publish(s)
    BY <2>1, LogGrows DEF Log!Next
  <2>2. CASE CloseStream(s)
    <3>1. end' = end /\ UNCHANGED <<status, got, told>>
      BY <2>2 DEF CloseStream, DrainTo, client
    <3>2. Recorded' = Recorded
      BY <3>1, RecordedIs, RecordedNext
    <3>3. Log!Close(s)
      BY <2>2, <3>1, <3>2 DEF CloseStream, Log!Close
    <3> QED
      BY <3>3 DEF Log!Next
  <2>3. CASE OpenSpool(s) \/ OpenFails(s) \/ Take(s) \/ WriteSpool(s) \/ WriteFails(s)
    <3>1. UNCHANGED <<end, closed, status, got, told>>
      BY <2>3 DEF OpenSpool, OpenFails, Take, WriteSpool, WriteFails, DrainTo, client
    <3> QED
      BY <3>1, Unseen
  <2>4. CASE ReadFails(s) \/ NotifyDrain(s)
    <3>1. UNCHANGED <<end, closed, status, got, told>>
      BY <2>4 DEF ReadFails, NotifyDrain, client
    <3> QED
      BY <3>1, Unseen
  <2> QED
    BY <1>2, <2>1, <2>2, <2>3, <2>4 DEF Drain
<1>3. CASE RecordStatus
  <2>1. end' = end /\ UNCHANGED <<closed, got, told>> /\ status' = TRUE
    BY <1>3 DEF RecordStatus, client
  <2>2. Recorded' = Recorded
    BY <2>1, RecordedIs, RecordedNext
  <2>3. Log!Exit
    BY <2>1, <2>2 DEF Log!Exit
  <2> QED
    BY <2>3 DEF Log!Next
<1>4. CASE NotifyStatus
  <2>1. UNCHANGED <<end, closed, status, got, told>>
    BY <1>4 DEF NotifyStatus, record, client
  <2> QED
    BY <2>1, Unseen
<1>5. CASE Resume
  <2>1. UNCHANGED <<end, closed, status, got, told>>
    BY <1>5 DEF Resume, Attach, broker, record, ReplayInv, TypeOK
  <2> QED
    BY <2>1, Unseen
<1>6. CASE Fresh
  <2>1. UNCHANGED <<end, closed, status>> /\ got' = Nothing /\ told' = FALSE
    BY <1>6 DEF Fresh, Attach, broker, record
  <2>2. Recorded' = Recorded
    BY <2>1, RecordedIs, RecordedNext
  <2>3. Log!Restart
    BY <2>1, <2>2 DEF Log!Restart, Log!Nothing, Nothing
  <2> QED
    BY <2>3 DEF Log!Next
<1>7. CASE Detach
  <2>1. UNCHANGED <<end, closed, status, got, told>>
    BY <1>7 DEF Detach, broker, record
  <2> QED
    BY <2>1, Unseen
<1>8. CASE Receive
  BY <1>8, LogReceives
<1>9. CASE Sender \/ ReceiptWakes
  <2>1. UNCHANGED <<broker, got, told>>
    BY <1>9 DEF Sender, ReceiptWakes, Enable, Look, Finish, Sleep, WriteFrame, Wake, Read, Turn
  <2> QED
    BY <2>1, Unseen DEF broker, record
<1>10. CASE UNCHANGED vars
  BY <1>10, Unseen DEF vars
<1> QED
  BY <1>1, <1>2, <1>3, <1>4, <1>5, <1>6, <1>7, <1>8, <1>9, <1>10 DEF Next

(* A client of the broker sees the log of OutputLog: what the streams held  *)
(* so far only grows, it is given it in order from where it stopped or from *)
(* the beginning, and the exit comes behind all of it (broker.rs            *)
(* drain_output, attach and send_buffered_output).                          *)
THEOREM LogImplemented == Spec => ImplementsLog
<1>1. Init => ReplayInv /\ Log!Init
  BY InitInv, LogInit
<1>2. ReplayInv /\ [Next]_vars => ReplayInv'
  BY Inductive
<1>3. ReplayInv /\ ReplayInv' /\ [Next]_vars => [Log!Next]_(Log!vars)
  BY LogStep
<1> QED
  BY <1>1, <1>2, <1>3, PTL DEF Spec, ImplementsLog, Log!Spec
=============================================================================
