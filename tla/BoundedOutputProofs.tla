-------------------------- MODULE BoundedOutputProofs --------------------------
(***************************************************************************)
(* Proofs that Budget, Prefix and Final of BoundedOutput hold for every    *)
(* budget, size of a read and of the tail, and whatever the streams print, *)
(* with and without a client.                                              *)
(***************************************************************************)
EXTENDS BoundedOutput, TLAPS

Bit(b) == IF b THEN 1 ELSE 0

(* A read on its way to a writer: taken but not reserved, then reserved.    *)
Taken(s) == IF cpc = "reserve" /\ hand.stream = s THEN hand.len ELSE 0
Pending(s) == IF cpc \in {"stop", "admit"} /\ hand.stream = s THEN hand.len ELSE 0
HasPending == cpc \in {"stop", "admit"} /\ hand.len > 0
Pinned_By(s) == wpc[s] \in {"write", "fault", "start", "unpin"}

(* The bytes of a stream.  What is reserved is what its writer has left, or *)
(* what the collector is about to give it.                                  *)
StreamInv(s) ==
    /\ read[s] <= MaxOut[s]
    /\ read[s] = retained[s] + reserved[s] + discarded[s] + Taken(s)
    /\ reserved[s] = left[s] + Pending(s)
    /\ wpc[s] # "write" => left[s] = 0
    /\ wpc[s] = "write" /\ left[s] > 0 => src[s] = retained[s]
    /\ prefix[s] => discarded[s] = 0 /\ ~fault[s]
    /\ ~stopped => discarded[s] = 0
    /\ pos[s] <= retained[s] /\ snap.retained[s] <= retained[s]

(* Who pins the storage: the writers, a reservation that has no writer yet, *)
(* and the reader of the replay.                                            *)
Pins ==
    inflight = Bit(Pinned_By("stdout")) + Bit(Pinned_By("stderr"))
               + Bit(HasPending) + Bit(rpc # "none")

(* A read that finds the writer busy finds no budget either, so only a read *)
(* whose writer is idle becomes a reservation.                              *)
HandInv ==
    /\ cpc \notin {"reserve", "stop", "admit"} => hand.len = 0
    /\ cpc = "admit" => hand.len > 0
    /\ cpc = "reserve" =>
          /\ hand.len > 0 /\ hand.len <= view.available + 1 /\ ~view.stopped
          /\ hand.at + hand.len = read[hand.stream]
          /\ collection[hand.stream] = "Reading"
          /\ wpc[hand.stream] = "idle" \/ view.available = 0
    /\ HasPending => wpc[hand.stream] = "idle" /\ hand.at = retained[hand.stream]

(* What the collector saw at the head of its loop is the budget still, or   *)
(* the policy has stopped; when it stopped behind the collector's back, a   *)
(* file failed.                                                             *)
Faulty == \E s \in Streams : fault[s] \/ wpc[s] = "fault"
ViewInv ==
    cpc \in {"decide", "select", "reserve"} =>
        /\ view.stopped => stopped
        /\ ~stopped => view.available = Available
        /\ stopped /\ ~view.stopped => Faulty

Excess == ~Faulty => discarded["stdout"] + discarded["stderr"] <= tailRead + Bit(stopped)

(* The tail starts after the group and the writers, and nothing is given to *)
(* a writer from then on.                                                   *)
TailInv ==
    /\ absent => exit
    /\ tailRead > 0 => tail # "none"
    /\ tail # "none" => stopped /\ view.stopped /\ absent /\ WritersBack /\ hand.len = 0

(* A sender that has seen the end with everything idle has seen the end:    *)
(* nothing is read, reserved or pinned any more.                            *)
EndInv ==
    /\ spc = "ended" => snap.collected /\ snap.idle
    /\ spc \in {"check", "ended"} /\ snap.collected /\ snap.idle =>
          /\ Collected /\ inflight = 0 /\ pos = retained
          /\ snap.complete => pos = read

FactType == [retained : [Streams -> Counts], stopped : BOOLEAN, collected : BOOLEAN,
             idle : BOOLEAN, exit : BOOLEAN, absent : BOOLEAN, complete : BOOLEAN]

BoundsInv ==
    /\ TypeOK /\ snap \in FactType
    /\ \A s \in Streams : StreamInv(s)
    /\ Charged <= Limit
    /\ Pins /\ HandInv /\ ViewInv /\ Excess /\ TailInv /\ EndInv

-----------------------------------------------------------------------------
(* Facts about the bounds.                                                  *)

LEMMA Counting ==
    /\ Counts \subseteq Nat /\ 0 \in Counts
    /\ \A s \in Streams : MaxOut[s] \in Nat /\ \A n \in Nat : n <= MaxOut[s] => n \in Counts
    /\ \A n \in Counts, m \in Nat : m <= n => m \in Counts
    /\ Limit \in Nat /\ ReadSize \in Nat \ {0} /\ TailBytes \in Nat \ {0}
<1>1. MaxOut["stdout"] \in Nat /\ MaxOut["stderr"] \in Nat
  BY BoundsAssumption DEF Streams
<1> QED
  BY <1>1, BoundsAssumption DEF Counts, Streams

LEMMA Amounts ==
    ASSUME TypeOK, NEW s \in Streams
    PROVE  /\ retained[s] \in Nat /\ reserved[s] \in Nat /\ discarded[s] \in Nat
           /\ left[s] \in Nat /\ src[s] \in Nat /\ pos[s] \in Nat /\ read[s] \in Nat
           /\ hand.len \in Nat /\ hand.at \in Nat /\ hand.stream \in Streams
           /\ tailRead \in Nat /\ inflight \in Nat /\ view.available \in Nat
           /\ Taken(s) \in Nat /\ Pending(s) \in Nat
<1>1. /\ retained[s] \in Counts /\ reserved[s] \in Counts /\ discarded[s] \in Counts
      /\ left[s] \in Counts /\ src[s] \in Counts /\ pos[s] \in Counts /\ read[s] \in Counts
      /\ hand.len \in Counts /\ hand.at \in Counts /\ hand.stream \in Streams
      /\ tailRead \in Nat /\ inflight \in Nat /\ view.available \in Nat
  BY Counting DEF TypeOK
<1> QED
  BY <1>1, Counting DEF Taken, Pending

LEMMA Charges ==
    ASSUME TypeOK
    PROVE  Charged \in Nat /\ Available \in Int
<1>1. /\ retained["stdout"] \in Nat /\ retained["stderr"] \in Nat
      /\ reserved["stdout"] \in Nat /\ reserved["stderr"] \in Nat
  BY Amounts DEF Streams
<1> QED
  BY <1>1, Counting DEF Charged, Available

LEMMA SnapAmounts ==
    ASSUME snap \in FactType, NEW s \in Streams
    PROVE  snap.retained[s] \in Nat
BY Counting DEF FactType

(* With nothing in hand the collector has nothing on its way.               *)
LEMMA EmptyHanded ==
    ASSUME hand.len = 0
    PROVE  ~HasPending /\ \A s \in Streams : Taken(s) = 0 /\ Pending(s) = 0
BY DEF HasPending, Taken, Pending

LEMMA BitValues == Bit(TRUE) = 1 /\ Bit(FALSE) = 0 /\ \A b : Bit(b) \in {0, 1}
BY DEF Bit

(* When nothing is pinned nobody writes, and nothing is reserved.           *)
LEMMA Quiet ==
    ASSUME BoundsInv, inflight = 0
    PROVE  /\ ~HasPending /\ rpc = "none"
           /\ \A s \in Streams : /\ wpc[s] \in {"idle", "back"} /\ left[s] = 0
                                 /\ reserved[s] = 0
           /\ Collected => cpc # "reserve" /\ hand.len = 0
<1>1. TypeOK /\ Pins /\ HandInv /\ \A s \in Streams : StreamInv(s)
  BY DEF BoundsInv
<1>2. /\ Bit(Pinned_By("stdout")) = 0 /\ Bit(Pinned_By("stderr")) = 0
      /\ Bit(HasPending) = 0 /\ Bit(rpc # "none") = 0
  <2>1. /\ Bit(Pinned_By("stdout")) \in {0, 1} /\ Bit(Pinned_By("stderr")) \in {0, 1}
        /\ Bit(HasPending) \in {0, 1} /\ Bit(rpc # "none") \in {0, 1}
    BY BitValues
  <2> QED
    BY <1>1, <2>1 DEF Pins
<1>3. ~HasPending /\ rpc = "none" /\ \A s \in Streams : ~Pinned_By(s)
  BY <1>2 DEF Bit, Streams
<1>4. ASSUME NEW s \in Streams
      PROVE  wpc[s] \in {"idle", "back"} /\ left[s] = 0 /\ reserved[s] = 0
  <2>1. wpc[s] \in {"idle", "back"}
    BY <1>1, <1>3 DEF Pinned_By, TypeOK
  <2>2. left[s] = 0 /\ reserved[s] = left[s] + Pending(s)
    BY <1>1, <2>1 DEF StreamInv
  <2>3. Pending(s) = 0
    BY <1>1, <1>3, Amounts DEF HasPending, Pending
  <2> QED
    BY <2>1, <2>2, <2>3
<1>5. ASSUME Collected PROVE cpc # "reserve" /\ hand.len = 0
  <2>1. hand.stream \in Streams /\ hand.len \in Nat
    BY <1>1, Counting DEF TypeOK
  <2>2. cpc # "reserve"
    BY <1>1, <1>5, <2>1 DEF HandInv, Collected
  <2> QED
    BY <1>1, <1>3, <2>1, <2>2 DEF HandInv, HasPending
<1> QED
  BY <1>3, <1>4, <1>5

LEMMA InitInv == Init => BoundsInv
<1> SUFFICES ASSUME Init PROVE BoundsInv
    OBVIOUS
<1>1. Zero \in [Streams -> Counts] /\ \A s \in Streams : Zero[s] = 0
  BY Counting DEF Zero
<1>2. TypeOK
  <2>1. prefix \in [Streams -> BOOLEAN] /\ fault \in [Streams -> BOOLEAN]
    BY DEF Init
  <2>2. collection \in [Streams -> {"Reading", "Eof", "Unconfirmed"}] /\ stopped \in BOOLEAN
    BY DEF Init
  <2>3. cancel \in {"ready", "active", "settled", "failed"} /\ finish \in {"none", "set", "due"}
    BY DEF Init
  <2>4. hand \in [stream : Streams, len : Counts, at : Counts]
    BY Counting DEF Init, NoHand, Streams
  <2>5. wpc \in [Streams -> {"idle", "write", "fault", "start", "unpin", "back"}]
    BY DEF Init
  <2>6. view \in [stopped : BOOLEAN, available : 0 .. Limit, timed : BOOLEAN]
    BY Counting DEF Init, NoView
  <2>7. tailRead \in 0 .. TailBytes /\ inflight \in 0 .. 3
    BY Counting DEF Init
  <2> QED
    BY <1>1, <2>1, <2>2, <2>3, <2>4, <2>5, <2>6, <2>7 DEF Init, TypeOK
<1>3. snap \in FactType /\ \A s \in Streams : snap.retained[s] = 0
  BY Counting DEF Init, NoFact, FactType
<1>4. hand.len = 0 /\ ~HasPending /\ \A s \in Streams : Taken(s) = 0 /\ Pending(s) = 0
  BY EmptyHanded DEF Init, NoHand
<1>5. ASSUME NEW s \in Streams PROVE StreamInv(s)
  BY <1>1, <1>3, <1>4, Counting DEF Init, StreamInv
<1>6. Charged <= Limit
  BY <1>1, Counting DEF Init, Charged, Streams
<1>7. Pins
  BY <1>4 DEF Init, Pins, Pinned_By, Bit, Streams
<1>8. HandInv /\ ViewInv /\ TailInv /\ EndInv
  BY <1>4 DEF Init, HandInv, ViewInv, TailInv, EndInv
<1>9. Excess
  BY <1>1 DEF Init, Excess, Bit, Streams
<1> QED
  BY <1>2, <1>3, <1>5, <1>6, <1>7, <1>8, <1>9 DEF BoundsInv

-----------------------------------------------------------------------------
(* The control.                                                             *)

(* What a step of the cancellation and the clock may do.                    *)
ControlMove ==
    /\ UNCHANGED outside
    /\ exit' \in BOOLEAN /\ verified' \in BOOLEAN /\ absent' \in BOOLEAN
    /\ cancel' \in {"ready", "active", "settled", "failed"}
    /\ finish' \in {"none", "set", "due"}
    /\ cwoken' \in BOOLEAN /\ swoken' \in BOOLEAN
    /\ (absent => absent') /\ (absent' => exit')

LEMMA ControlKeeps == ASSUME BoundsInv, ControlMove PROVE BoundsInv'
<1>1. /\ UNCHANGED <<facts, streamFacts, collector, writers, sender, read>>
      /\ TypeOK /\ snap \in FactType
  BY DEF BoundsInv, ControlMove, outside, facts
<1>2. TypeOK' /\ snap' \in FactType
  <2>1. snap' \in FactType
    BY <1>1 DEF sender
  <2> QED
    BY <1>1, <2>1 DEF ControlMove, TypeOK, facts, streamFacts, collector, writers, sender
<1>3. \A s \in Streams : StreamInv(s)'
  BY <1>1 DEF BoundsInv, StreamInv, Taken, Pending, facts, streamFacts, collector, writers, sender
<1>4. (Charged <= Limit)' /\ Pins' /\ HandInv' /\ ViewInv' /\ Excess'
  BY <1>1 DEF BoundsInv, Charged, Pins, Pinned_By, HasPending, HandInv, ViewInv, Available, Faulty,
              Excess, facts, streamFacts, collector, writers, sender
<1>5. TailInv'
  BY <1>1 DEF BoundsInv, ControlMove, TailInv, WritersBack, facts, collector, writers
<1>6. EndInv'
  BY <1>1 DEF BoundsInv, EndInv, Collected, facts, streamFacts, sender
<1> QED
  BY <1>2, <1>3, <1>4, <1>5, <1>6 DEF BoundsInv

LEMMA HardenedStarts ==
    ASSUME TypeOK, StartHardened
    PROVE  /\ UNCHANGED <<exit, verified, absent>>
           /\ cancel' \in {"ready", "active", "settled", "failed"}
           /\ finish' \in {"none", "set", "due"}
BY DEF TypeOK, StartHardened, control

LEMMA ControlStep ==
    ASSUME BoundsInv,
           LeaderExits \/ CancelRequest \/ OwnerStep \/ OwnerFails \/ DeadlinePasses
    PROVE  BoundsInv'
<1>1. TypeOK /\ (absent => exit)
  BY DEF BoundsInv, TailInv
<1>2. cwoken' \in BOOLEAN /\ swoken' \in BOOLEAN
  BY <1>1 DEF LeaderExits, CancelRequest, OwnerStep, OwnerFails, DeadlinePasses, NotifyWaiters,
              woken, TypeOK
<1>3. CASE LeaderExits
  BY <1>1, <1>2, <1>3, ControlKeeps DEF LeaderExits, ControlMove, TypeOK
<1>4. CASE CancelRequest
  <2>1. /\ UNCHANGED <<exit, verified, absent>> /\ UNCHANGED outside
        /\ cancel' \in {"ready", "active", "settled", "failed"}
        /\ finish' \in {"none", "set", "due"}
    BY <1>1, <1>4, HardenedStarts DEF CancelRequest
  <2>2. ControlMove
    BY <1>1, <1>2, <2>1 DEF ControlMove, TypeOK
  <2> QED
    BY <2>2, ControlKeeps
<1>5. CASE OwnerStep
  <2>1. UNCHANGED <<exit, verified, finish>> /\ UNCHANGED outside
    BY <1>5 DEF OwnerStep
  <2>2. \/ UNCHANGED <<cancel, absent>>
        \/ exit /\ absent' = TRUE /\ UNCHANGED cancel
        \/ cancel' = "settled" /\ UNCHANGED absent
    BY <1>5 DEF OwnerStep
  <2>3. cancel' \in {"ready", "active", "settled", "failed"} /\ absent' \in BOOLEAN
    BY <1>1, <2>2 DEF TypeOK
  <2>4. (absent => absent') /\ (absent' => exit')
    BY <1>1, <2>1, <2>2
  <2>5. ControlMove
    BY <1>1, <1>2, <2>1, <2>3, <2>4 DEF ControlMove, TypeOK
  <2> QED
    BY <2>5, ControlKeeps
<1>6. CASE OwnerFails
  BY <1>1, <1>2, <1>6, ControlKeeps DEF OwnerFails, ControlMove, TypeOK
<1>7. CASE DeadlinePasses
  BY <1>1, <1>2, <1>7, ControlKeeps DEF DeadlinePasses, ControlMove, TypeOK
<1> QED
  BY <1>3, <1>4, <1>5, <1>6, <1>7

LEMMA TailPassesStep == ASSUME BoundsInv, TailPasses PROVE BoundsInv'
<1>1. /\ UNCHANGED <<facts, streamFacts, control, cpc, view, hand, writers, sender, woken, read>>
      /\ tail = "set" /\ tail' = "due" /\ TypeOK /\ snap \in FactType
  BY DEF BoundsInv, TailPasses, facts
<1>2. snap' \in FactType
  BY <1>1 DEF sender
<1>3. TypeOK'
  BY <1>1 DEF TypeOK, facts, streamFacts, control, writers, sender, woken
<1>4. \A s \in Streams : StreamInv(s)'
  BY <1>1 DEF BoundsInv, StreamInv, Taken, Pending, facts, streamFacts, writers, sender
<1>5. (Charged <= Limit)' /\ Pins' /\ HandInv' /\ ViewInv' /\ Excess' /\ EndInv'
  BY <1>1 DEF BoundsInv, Charged, Pins, Pinned_By, HasPending, HandInv, ViewInv, Available, Faulty,
              Excess, EndInv, Collected, facts, streamFacts, writers, sender
<1>6. TailInv'
  BY <1>1 DEF BoundsInv, TailInv, WritersBack, facts, control, writers
<1> QED
  BY <1>2, <1>3, <1>4, <1>5, <1>6 DEF BoundsInv

-----------------------------------------------------------------------------
(* The blocking writers.                                                    *)

(* A writer moves reserved bytes to the retained ones, in their order.      *)
LEMMA WriteSomeStep ==
    ASSUME BoundsInv, NEW s \in Streams, WriteSome(s)
    PROVE  BoundsInv'
<1>1. PICK n \in 1 .. left[s] :
          /\ reserved' = [reserved EXCEPT ![s] = @ - n]
          /\ retained' = [retained EXCEPT ![s] = @ + n]
          /\ left' = [left EXCEPT ![s] = @ - n]
          /\ src' = [src EXCEPT ![s] = @ + n]
  BY DEF WriteSome
<1>2. /\ UNCHANGED <<discarded, prefix, collection, fault, stopped, inflight, tailRead>>
      /\ UNCHANGED <<control, collector, sender, read, wpc>>
      /\ wpc[s] = "write" /\ TypeOK /\ snap \in FactType /\ NotifyWaiters
  BY DEF BoundsInv, WriteSome, beyond
<1>3. /\ retained[s] \in Nat /\ reserved[s] \in Nat /\ left[s] \in Nat /\ src[s] \in Nat
      /\ read[s] \in Nat /\ discarded[s] \in Nat /\ Taken(s) \in Nat /\ Pending(s) \in Nat
  BY <1>2, Amounts
<1>4. /\ read[s] = retained[s] + reserved[s] + discarded[s] + Taken(s)
      /\ reserved[s] = left[s] + Pending(s) /\ src[s] = retained[s] /\ read[s] <= MaxOut[s]
  BY <1>1, <1>2, <1>3 DEF BoundsInv, StreamInv
<1>5. n \in Nat /\ n > 0 /\ n <= left[s] /\ n <= reserved[s] /\ MaxOut[s] \in Nat
  BY <1>1, <1>3, <1>4, Counting
<1>6. /\ reserved[s] - n \in Counts /\ retained[s] + n \in Counts /\ left[s] - n \in Counts
      /\ src[s] + n \in Counts
  <2>1. /\ reserved[s] - n \in Nat /\ retained[s] + n \in Nat /\ left[s] - n \in Nat
        /\ reserved[s] - n <= MaxOut[s] /\ retained[s] + n <= MaxOut[s]
        /\ left[s] - n <= MaxOut[s]
    BY <1>3, <1>4, <1>5
  <2> QED
    BY <1>4, <2>1, Counting
<1>7. /\ reserved'[s] = reserved[s] - n /\ retained'[s] = retained[s] + n
      /\ left'[s] = left[s] - n /\ src'[s] = src[s] + n
      /\ \A t \in Streams \ {s} : /\ reserved'[t] = reserved[t] /\ retained'[t] = retained[t]
                                  /\ left'[t] = left[t] /\ src'[t] = src[t]
  BY <1>1, <1>2 DEF TypeOK
<1>8. TypeOK' /\ snap' \in FactType
  <2>1. /\ reserved' \in [Streams -> Counts] /\ retained' \in [Streams -> Counts]
        /\ left' \in [Streams -> Counts] /\ src' \in [Streams -> Counts]
    BY <1>1, <1>2, <1>6 DEF TypeOK
  <2>2. cwoken' \in BOOLEAN /\ swoken' \in BOOLEAN
    BY <1>2 DEF NotifyWaiters
  <2>3. snap' \in FactType
    BY <1>2 DEF sender
  <2> QED
    BY <1>2, <2>1, <2>2, <2>3 DEF TypeOK, control, collector, sender
<1>9. ASSUME NEW t \in Streams PROVE StreamInv(t)'
  <2>1. /\ StreamInv(t) /\ Taken(t)' = Taken(t) /\ Pending(t)' = Pending(t)
        /\ pos'[t] = pos[t] /\ snap' = snap /\ read'[t] = read[t] /\ discarded'[t] = discarded[t]
        /\ wpc'[t] = wpc[t]
    BY <1>2 DEF BoundsInv, Taken, Pending, collector, sender
  <2>2. CASE t = s
    <3>1. /\ pos[s] \in Nat /\ snap.retained[s] \in Nat
          /\ pos[s] <= retained[s] /\ snap.retained[s] <= retained[s]
      BY <1>2, <2>1, <2>2, Amounts, SnapAmounts DEF StreamInv
    <3>2. pos[s] <= retained[s] + n /\ snap.retained[s] <= retained[s] + n
      BY <1>3, <1>5, <3>1
    <3>3. /\ read[s] = (retained[s] + n) + (reserved[s] - n) + discarded[s] + Taken(s)
          /\ reserved[s] - n = (left[s] - n) + Pending(s) /\ src[s] + n = retained[s] + n
      BY <1>3, <1>4, <1>5
    <3> QED
      BY <1>2, <1>7, <2>1, <2>2, <3>2, <3>3 DEF StreamInv
  <2>3. CASE t # s
    BY <1>2, <1>7, <2>1, <2>3 DEF StreamInv
  <2> QED
    BY <2>2, <2>3
<1>10. Charged' = Charged /\ Available' = Available
  <2>1. /\ retained["stdout"] \in Nat /\ retained["stderr"] \in Nat
        /\ reserved["stdout"] \in Nat /\ reserved["stderr"] \in Nat
    BY <1>2, Amounts DEF Streams
  <2>2. CASE s = "stdout"
    BY <1>5, <1>7, <2>1, <2>2 DEF Charged, Available, Streams
  <2>3. CASE s = "stderr"
    BY <1>5, <1>7, <2>1, <2>3 DEF Charged, Available, Streams
  <2> QED
    BY <2>2, <2>3 DEF Streams
<1>11. (Charged <= Limit)' /\ Pins' /\ ViewInv' /\ Excess' /\ TailInv'
  BY <1>2, <1>10 DEF BoundsInv, Pins, Pinned_By, HasPending, ViewInv, Faulty, Excess, TailInv,
                     WritersBack, control, collector, sender
<1>12. HandInv'
  <2>1. HasPending => hand.stream # s
    BY <1>2 DEF BoundsInv, HandInv
  <2>2. hand.stream \in Streams
    BY <1>2 DEF TypeOK
  <2>3. HasPending => retained'[hand.stream] = retained[hand.stream]
    BY <1>7, <2>1, <2>2
  <2> QED
    BY <1>2, <2>3 DEF BoundsInv, HandInv, HasPending, collector
<1>13. EndInv'
  <2>1. inflight # 0
    BY <1>2, Quiet
  <2> QED
    BY <1>2, <2>1 DEF BoundsInv, EndInv, sender
<1> QED
  BY <1>8, <1>9, <1>11, <1>12, <1>13 DEF BoundsInv

(* A write that fails releases its reservation, and stops the policy.       *)
LEMMA WriteFailsStep ==
    ASSUME BoundsInv, NEW s \in Streams, WriteFails(s)
    PROVE  BoundsInv'
<1>1. /\ reserved' = [reserved EXCEPT ![s] = @ - left[s]]
      /\ discarded' = [discarded EXCEPT ![s] = @ + left[s]]
      /\ prefix' = [prefix EXCEPT ![s] = @ /\ left[s] = 0]
      /\ stopped' = TRUE
      /\ left' = [left EXCEPT ![s] = 0]
      /\ wpc' = [wpc EXCEPT ![s] = "fault"]
  BY DEF WriteFails, LostBy, StopsAtRelease
<1>2. /\ UNCHANGED <<retained, collection, fault, inflight, tailRead, control, src, woken>>
      /\ UNCHANGED <<collector, sender, read>>
      /\ wpc[s] = "write" /\ TypeOK /\ snap \in FactType
  BY DEF BoundsInv, WriteFails, beyond
<1>3. /\ retained[s] \in Nat /\ reserved[s] \in Nat /\ left[s] \in Nat
      /\ read[s] \in Nat /\ discarded[s] \in Nat /\ Taken(s) \in Nat /\ Pending(s) \in Nat
  BY <1>2, Amounts
<1>4. /\ read[s] = retained[s] + reserved[s] + discarded[s] + Taken(s)
      /\ reserved[s] = left[s] + Pending(s) /\ read[s] <= MaxOut[s] /\ MaxOut[s] \in Nat
      /\ prefix[s] => discarded[s] = 0 /\ ~fault[s]
  BY Counting DEF BoundsInv, StreamInv
<1>5. reserved[s] - left[s] \in Counts /\ discarded[s] + left[s] \in Counts
  <2>1. /\ reserved[s] - left[s] \in Nat /\ discarded[s] + left[s] \in Nat
        /\ reserved[s] - left[s] <= MaxOut[s] /\ discarded[s] + left[s] <= MaxOut[s]
    BY <1>3, <1>4
  <2> QED
    BY <2>1, Counting
<1>6. /\ reserved'[s] = reserved[s] - left[s] /\ discarded'[s] = discarded[s] + left[s]
      /\ left'[s] = 0 /\ wpc'[s] = "fault" /\ (prefix'[s] => prefix[s] /\ left[s] = 0)
      /\ \A t \in Streams \ {s} : /\ reserved'[t] = reserved[t] /\ discarded'[t] = discarded[t]
                                  /\ left'[t] = left[t] /\ wpc'[t] = wpc[t]
                                  /\ prefix'[t] = prefix[t]
  BY <1>1, <1>2 DEF TypeOK
<1>7. TypeOK' /\ snap' \in FactType
  <2>1. /\ reserved' \in [Streams -> Counts] /\ discarded' \in [Streams -> Counts]
        /\ left' \in [Streams -> Counts]
    BY <1>1, <1>2, <1>5, Counting DEF TypeOK
  <2>2. wpc' \in [Streams -> {"idle", "write", "fault", "start", "unpin", "back"}]
    BY <1>1, <1>2 DEF TypeOK
  <2>3. prefix' \in [Streams -> BOOLEAN]
    BY <1>1, <1>2 DEF TypeOK
  <2>4. snap' \in FactType
    BY <1>2 DEF sender
  <2> QED
    BY <1>1, <1>2, <2>1, <2>2, <2>3, <2>4 DEF TypeOK, control, collector, sender, woken
<1>8. ASSUME NEW t \in Streams PROVE StreamInv(t)'
  <2>1. /\ StreamInv(t) /\ Taken(t)' = Taken(t) /\ Pending(t)' = Pending(t)
        /\ pos'[t] = pos[t] /\ snap' = snap /\ read'[t] = read[t] /\ retained'[t] = retained[t]
        /\ fault'[t] = fault[t] /\ src'[t] = src[t]
    BY <1>2 DEF BoundsInv, Taken, Pending, collector, sender
  <2>2. CASE t = s
    <3>1. /\ read[s] = retained[s] + (reserved[s] - left[s]) + (discarded[s] + left[s]) + Taken(s)
          /\ reserved[s] - left[s] = 0 + Pending(s)
      BY <1>3, <1>4
    <3>2. prefix'[s] => discarded'[s] = 0 /\ ~fault'[s]
      BY <1>3, <1>4, <1>6, <2>1, <2>2
    <3> QED
      BY <1>1, <1>6, <2>1, <2>2, <3>1, <3>2 DEF StreamInv
  <2>3. CASE t # s
    BY <1>1, <1>6, <2>1, <2>3 DEF StreamInv
  <2> QED
    BY <2>2, <2>3
<1>9. (Charged <= Limit)'
  <2>1. /\ retained["stdout"] \in Nat /\ retained["stderr"] \in Nat
        /\ reserved["stdout"] \in Nat /\ reserved["stderr"] \in Nat
        /\ Limit \in Nat /\ Charged <= Limit
    BY <1>2, Amounts, Counting DEF Streams, BoundsInv
  <2>2. CASE s = "stdout"
    BY <1>2, <1>3, <1>6, <2>1, <2>2 DEF Charged, Streams
  <2>3. CASE s = "stderr"
    BY <1>2, <1>3, <1>6, <2>1, <2>3 DEF Charged, Streams
  <2> QED
    BY <2>2, <2>3 DEF Streams
<1>10. Pins'
  <2>1. \A t \in Streams : Pinned_By(t)' <=> Pinned_By(t)
    BY <1>2, <1>6 DEF Pinned_By
  <2> QED
    BY <1>2, <2>1 DEF BoundsInv, Pins, HasPending, Bit, collector, sender, Streams
<1>11. HandInv'
  <2>1. hand.stream \in Streams /\ wpc[s] # "idle"
    BY <1>2 DEF TypeOK
  <2>2. wpc[hand.stream] = "idle" => wpc'[hand.stream] = "idle"
    BY <1>6, <2>1
  <2> QED
    BY <1>2, <2>2 DEF BoundsInv, HandInv, HasPending, collector
<1>12. Faulty'
  BY <1>6 DEF Faulty
<1>13. ViewInv' /\ Excess'
  BY <1>1, <1>12 DEF ViewInv, Excess
<1>14. TailInv'
  <2>1. ~WritersBack
    BY <1>2 DEF WritersBack
  <2> QED
    BY <1>2, <2>1 DEF BoundsInv, TailInv, control, collector
<1>15. EndInv'
  <2>1. inflight # 0
    BY <1>2, Quiet
  <2> QED
    BY <1>2, <2>1 DEF BoundsInv, EndInv, sender
<1> QED
  BY <1>7, <1>8, <1>9, <1>10, <1>11, <1>13, <1>14, <1>15 DEF BoundsInv

(* The writer is done, or has the operation started: it keeps its pin.      *)
LEMMA WriterUnpinsStep ==
    ASSUME BoundsInv, NEW s \in Streams, WriteDone(s) \/ WriteStart(s)
    PROVE  BoundsInv'
<1>1. /\ UNCHANGED <<facts, streamFacts, collector, sender, read, left, src>>
      /\ wpc' = [wpc EXCEPT ![s] = "unpin"]
      /\ wpc[s] \in {"write", "start"} /\ left[s] = 0
      /\ TypeOK /\ snap \in FactType
  BY DEF BoundsInv, WriteDone, WriteStart, beyond, facts, StreamInv
<1>2. /\ UNCHANGED <<exit, verified, absent>>
      /\ cancel' \in {"ready", "active", "settled", "failed"}
      /\ finish' \in {"none", "set", "due"}
      /\ cwoken' \in BOOLEAN /\ swoken' \in BOOLEAN
  <2>1. CASE WriteDone(s)
    BY <1>1, <2>1 DEF WriteDone, control, woken, TypeOK
  <2>2. CASE WriteStart(s)
    BY <1>1, <2>2, HardenedStarts DEF WriteStart, NotifyWaiters
  <2> QED
    BY <2>1, <2>2
<1>3. wpc'[s] = "unpin" /\ \A t \in Streams \ {s} : wpc'[t] = wpc[t]
  BY <1>1 DEF TypeOK
<1>4. TypeOK' /\ snap' \in FactType
  <2>1. wpc' \in [Streams -> {"idle", "write", "fault", "start", "unpin", "back"}]
    BY <1>1 DEF TypeOK
  <2>2. snap' \in FactType
    BY <1>1 DEF sender
  <2> QED
    BY <1>1, <1>2, <2>1, <2>2 DEF TypeOK, facts, streamFacts, collector, sender
<1>5. ASSUME NEW t \in Streams PROVE StreamInv(t)'
  <2>1. StreamInv(t) /\ Taken(t)' = Taken(t) /\ Pending(t)' = Pending(t)
    BY <1>1 DEF BoundsInv, Taken, Pending, collector
  <2> QED
    BY <1>1, <1>3, <2>1 DEF StreamInv, facts, streamFacts, sender
<1>6. Pins'
  <2>1. \A t \in Streams : Pinned_By(t)' <=> Pinned_By(t)
    BY <1>1, <1>3 DEF Pinned_By
  <2> QED
    BY <1>1, <2>1 DEF BoundsInv, Pins, HasPending, Bit, facts, collector, sender, Streams
<1>7. HandInv'
  <2>1. hand.stream \in Streams /\ wpc[s] # "idle"
    BY <1>1 DEF TypeOK
  <2>2. wpc[hand.stream] = "idle" => wpc'[hand.stream] = "idle"
    BY <1>1, <1>3, <2>1
  <2> QED
    BY <1>1, <2>2 DEF BoundsInv, HandInv, HasPending, facts, streamFacts, collector
<1>8. Faulty' <=> Faulty
  BY <1>1, <1>3 DEF Faulty, streamFacts
<1>9. (Charged <= Limit)' /\ ViewInv' /\ Excess'
  BY <1>1, <1>8 DEF BoundsInv, Charged, ViewInv, Available, Excess, facts, streamFacts, collector
<1>10. TailInv'
  <2>1. ~WritersBack
    BY <1>1 DEF WritersBack
  <2> QED
    BY <1>1, <1>2, <2>1 DEF BoundsInv, TailInv, facts, collector
<1>11. EndInv'
  BY <1>1 DEF BoundsInv, EndInv, Collected, facts, streamFacts, sender
<1> QED
  BY <1>4, <1>5, <1>6, <1>7, <1>9, <1>10, <1>11 DEF BoundsInv

LEMMA FaultedMeans ==
    ASSUME TypeOK, NEW s \in Streams, Faulted(s)
    PROVE  /\ UNCHANGED <<retained, reserved, discarded, collection, inflight, tailRead>>
           /\ fault' \in [Streams -> BOOLEAN] /\ prefix' \in [Streams -> BOOLEAN]
           /\ stopped' = TRUE /\ fault'[s] = TRUE /\ prefix'[s] = FALSE
           /\ \A t \in Streams \ {s} : fault'[t] = fault[t] /\ prefix'[t] = prefix[t]
BY DEF Faulted, TypeOK

(* Whoever meets a storage fault, the prefix is not complete and the policy *)
(* has stopped.                                                             *)
LEMMA FaultKeeps ==
    ASSUME BoundsInv, NEW s \in Streams, Faulted(s),
           UNCHANGED <<control, collector, left, src, read, spc, snap, pos, woken>>,
           wpc' \in [Streams -> {"idle", "write", "fault", "start", "unpin", "back"}],
           \A t \in Streams : wpc'[t] # wpc[t] => wpc[t] = "fault" /\ wpc'[t] = "start",
           rpc' \in {"none", "read", "fault", "start", "unpin", "drop"},
           (rpc' = "none") <=> (rpc = "none")
    PROVE  BoundsInv'
<1>1. TypeOK /\ snap \in FactType
  BY DEF BoundsInv
<1>2. /\ UNCHANGED <<retained, reserved, discarded, collection, inflight, tailRead>>
      /\ fault' \in [Streams -> BOOLEAN] /\ prefix' \in [Streams -> BOOLEAN]
      /\ stopped' = TRUE /\ fault'[s] = TRUE /\ prefix'[s] = FALSE
      /\ \A t \in Streams \ {s} : fault'[t] = fault[t] /\ prefix'[t] = prefix[t]
  BY <1>1, FaultedMeans
<1>3. TypeOK' /\ snap' \in FactType
  BY <1>1, <1>2 DEF TypeOK, control, collector, woken
<1>4. ASSUME NEW t \in Streams PROVE StreamInv(t)'
  <2>1. /\ StreamInv(t) /\ Taken(t)' = Taken(t) /\ Pending(t)' = Pending(t)
        /\ prefix'[t] => prefix[t] /\ fault'[t] = fault[t]
        /\ wpc'[t] = "write" <=> wpc[t] = "write"
    BY <1>1, <1>2 DEF BoundsInv, Taken, Pending, collector
  <2> QED
    BY <1>2, <2>1 DEF StreamInv
<1>5. Pins'
  <2>1. \A t \in Streams : Pinned_By(t)' <=> Pinned_By(t)
    BY DEF Pinned_By
  <2> QED
    BY <1>2, <2>1 DEF BoundsInv, Pins, HasPending, Bit, collector, Streams
<1>6. HandInv'
  <2>1. hand.stream \in Streams
    BY <1>1 DEF TypeOK
  <2>2. wpc[hand.stream] = "idle" => wpc'[hand.stream] = "idle"
    BY <2>1
  <2> QED
    BY <1>2, <2>2 DEF BoundsInv, HandInv, HasPending, collector
<1>7. Faulty'
  BY <1>2 DEF Faulty
<1>8. (Charged <= Limit)' /\ ViewInv' /\ Excess'
  BY <1>2, <1>7 DEF BoundsInv, Charged, ViewInv, Excess
<1>9. TailInv'
  <2>1. WritersBack => WritersBack'
    BY DEF WritersBack
  <2> QED
    BY <1>2, <2>1 DEF BoundsInv, TailInv, control, collector
<1>10. EndInv'
  BY <1>2 DEF BoundsInv, EndInv, Collected
<1> QED
  BY <1>3, <1>4, <1>5, <1>6, <1>8, <1>9, <1>10 DEF BoundsInv

LEMMA WriteFaultStep ==
    ASSUME BoundsInv, NEW s \in Streams, WriteFault(s)
    PROVE  BoundsInv'
<1>1. /\ Faulted(s) /\ wpc[s] = "fault" /\ wpc' = [wpc EXCEPT ![s] = "start"]
      /\ UNCHANGED <<control, collector, left, src, read, rpc, spc, snap, pos, woken>> /\ TypeOK
  BY DEF BoundsInv, WriteFault, beyond, sender
<1>2. /\ wpc' \in [Streams -> {"idle", "write", "fault", "start", "unpin", "back"}]
      /\ \A t \in Streams : wpc'[t] # wpc[t] => wpc[t] = "fault" /\ wpc'[t] = "start"
  BY <1>1 DEF TypeOK
<1>3. rpc' \in {"none", "read", "fault", "start", "unpin", "drop"}
  BY <1>1 DEF TypeOK
<1> QED
  BY <1>1, <1>2, <1>3, FaultKeeps

LEMMA UnpinStep ==
    ASSUME BoundsInv, NEW s \in Streams, Unpin(s)
    PROVE  BoundsInv'
<1>1. /\ UNCHANGED <<streamFacts, stopped, tailRead, control, collector, sender, read, left>>
      /\ wpc[s] = "unpin" /\ wpc' = [wpc EXCEPT ![s] = "back"]
      /\ src' = [src EXCEPT ![s] = 0] /\ inflight' = inflight - 1
      /\ cwoken' \in BOOLEAN /\ swoken' \in BOOLEAN
      /\ TypeOK /\ snap \in FactType
  BY DEF BoundsInv, Unpin, beyond, NotifyUnpinned, NotifyWaiters
<1>2. /\ wpc'[s] = "back" /\ \A t \in Streams \ {s} : wpc'[t] = wpc[t] /\ src'[t] = src[t]
  BY <1>1 DEF TypeOK
<1>3. Pins' /\ inflight' \in 0 .. 3
  <2>1. ~HasPending' <=> ~HasPending
    BY <1>1 DEF HasPending, collector
  <2>2. /\ Pinned_By(s) /\ ~Pinned_By(s)'
        /\ \A t \in Streams \ {s} : Pinned_By(t)' <=> Pinned_By(t)
    BY <1>1, <1>2 DEF Pinned_By
  <2>3. inflight \in 0 .. 3 /\ Pins /\ rpc' = rpc
    BY <1>1 DEF BoundsInv, TypeOK, sender
  <2>4. Pins'
    <3>1. CASE s = "stdout"
      BY <1>1, <2>1, <2>2, <2>3, <3>1 DEF Pins, Bit, Streams
    <3>2. CASE s = "stderr"
      BY <1>1, <2>1, <2>2, <2>3, <3>2 DEF Pins, Bit, Streams
    <3> QED
      BY <3>1, <3>2 DEF Streams
  <2>5. inflight # 0
    BY <1>1, Quiet
  <2> QED
    BY <1>1, <2>3, <2>4, <2>5
<1>4. TypeOK' /\ snap' \in FactType
  <2>1. wpc' \in [Streams -> {"idle", "write", "fault", "start", "unpin", "back"}]
    BY <1>1 DEF TypeOK
  <2>2. src' \in [Streams -> Counts]
    BY <1>1, Counting DEF TypeOK
  <2>3. snap' \in FactType
    BY <1>1 DEF sender
  <2> QED
    BY <1>1, <1>3, <2>1, <2>2, <2>3 DEF TypeOK, streamFacts, control, collector, sender
<1>5. ASSUME NEW t \in Streams PROVE StreamInv(t)'
  <2>1. /\ StreamInv(t) /\ Taken(t)' = Taken(t) /\ Pending(t)' = Pending(t)
        /\ wpc'[t] = "write" => wpc[t] = "write" /\ src'[t] = src[t]
        /\ wpc[t] = "write" => wpc'[t] = "write"
    BY <1>1, <1>2 DEF BoundsInv, Taken, Pending, collector
  <2> QED
    BY <1>1, <2>1 DEF StreamInv, streamFacts, sender
<1>6. HandInv'
  <2>1. hand.stream \in Streams /\ wpc[s] # "idle"
    BY <1>1 DEF TypeOK
  <2>2. wpc[hand.stream] = "idle" => wpc'[hand.stream] = "idle"
    BY <1>2, <2>1
  <2> QED
    BY <1>1, <2>2 DEF BoundsInv, HandInv, HasPending, streamFacts, collector
<1>7. Faulty' <=> Faulty
  BY <1>1, <1>2 DEF Faulty, streamFacts
<1>8. (Charged <= Limit)' /\ ViewInv' /\ Excess'
  BY <1>1, <1>7 DEF BoundsInv, Charged, ViewInv, Available, Excess, streamFacts, collector
<1>9. TailInv'
  <2>1. ~WritersBack
    BY <1>1 DEF WritersBack
  <2> QED
    BY <1>1, <2>1 DEF BoundsInv, TailInv, control, collector
<1>10. EndInv'
  <2>1. inflight # 0
    BY <1>1, Quiet
  <2>2. spc \in {"check", "ended"} /\ snap.collected /\ snap.idle => FALSE
    BY <2>1 DEF BoundsInv, EndInv
  <2> QED
    BY <1>1, <2>2 DEF BoundsInv, EndInv, sender
<1> QED
  BY <1>3, <1>4, <1>5, <1>6, <1>8, <1>9, <1>10 DEF BoundsInv

-----------------------------------------------------------------------------
(* The sender and its replay.                                               *)

(* A step of the sender moves its own state only.                           *)
SenderMove ==
    /\ UNCHANGED <<facts, others, rpc>>
    /\ spc' \in {"detached", "top", "gate", "replay", "frame", "check", "wait", "ended"}
    /\ pos' \in [Streams -> Counts] /\ snap' \in FactType
    /\ cwoken' \in BOOLEAN /\ swoken' \in BOOLEAN
    /\ \A s \in Streams : pos'[s] <= retained[s] /\ snap'.retained[s] <= retained[s]
    /\ EndInv'

LEMMA SenderKeeps == ASSUME BoundsInv, SenderMove PROVE BoundsInv'
<1>1. /\ UNCHANGED <<facts, streamFacts, control, collector, writers, read, rpc>>
      /\ TypeOK
  BY DEF BoundsInv, SenderMove, others, facts
<1>2. TypeOK' /\ snap' \in FactType
  BY <1>1 DEF SenderMove, TypeOK, facts, streamFacts, control, collector, writers
<1>3. ASSUME NEW s \in Streams PROVE StreamInv(s)'
  <2>1. /\ StreamInv(s) /\ Taken(s)' = Taken(s) /\ Pending(s)' = Pending(s)
        /\ pos'[s] <= retained[s] /\ snap'.retained[s] <= retained[s]
    BY <1>1 DEF BoundsInv, SenderMove, Taken, Pending, collector
  <2> QED
    BY <1>1, <2>1 DEF StreamInv, facts, streamFacts, writers
<1>4. (Charged <= Limit)' /\ Pins' /\ HandInv' /\ ViewInv' /\ Excess' /\ TailInv'
  BY <1>1 DEF BoundsInv, Charged, Pins, Pinned_By, HasPending, HandInv, ViewInv, Available, Faulty,
              Excess, TailInv, WritersBack, facts, streamFacts, control, collector, writers
<1>5. EndInv'
  BY DEF SenderMove
<1> QED
  BY <1>2, <1>3, <1>4, <1>5 DEF BoundsInv

LEMMA NoFactIs == NoFact \in FactType /\ \A s \in Streams : NoFact.retained[s] = 0
BY Counting DEF NoFact, FactType

(* What the sender knows of the retained bytes, and its positions.          *)
LEMMA SenderBounds ==
    ASSUME BoundsInv, NEW s \in Streams
    PROVE  /\ retained[s] \in Nat /\ pos[s] \in Nat /\ snap.retained[s] \in Nat
           /\ pos[s] <= retained[s] /\ snap.retained[s] <= retained[s]
           /\ retained[s] \in Counts
<1>1. TypeOK /\ snap \in FactType /\ StreamInv(s)
  BY DEF BoundsInv
<1> QED
  BY <1>1, Amounts, SnapAmounts DEF StreamInv, TypeOK

LEMMA AttachStep == ASSUME BoundsInv, Attach PROVE BoundsInv'
<1>1. /\ UNCHANGED <<facts, others, rpc, snap, woken>> /\ spc' = "top"
      /\ pos' \in [Streams -> Counts] /\ \A s \in Streams : pos'[s] <= retained[s]
  BY DEF Attach
<1>2. \A s \in Streams : snap'.retained[s] <= retained[s]
  BY <1>1, SenderBounds
<1>3. EndInv'
  BY <1>1 DEF EndInv
<1>4. SenderMove
  BY <1>1, <1>2, <1>3 DEF SenderMove, BoundsInv, TypeOK, woken
<1> QED
  BY <1>4, SenderKeeps

LEMMA DetachStep == ASSUME BoundsInv, Detach PROVE BoundsInv'
<1>1. /\ UNCHANGED <<facts, others, rpc, cwoken>> /\ spc' = "detached"
      /\ snap' = NoFact /\ pos' = Zero /\ swoken' = FALSE
  BY DEF Detach
<1>2. pos' \in [Streams -> Counts] /\ \A s \in Streams : pos'[s] = 0
  BY <1>1, Counting DEF Zero
<1>3. \A s \in Streams : pos'[s] <= retained[s] /\ snap'.retained[s] <= retained[s]
  BY <1>1, <1>2, SenderBounds, NoFactIs
<1>4. EndInv'
  BY <1>1 DEF EndInv
<1>5. SenderMove
  BY <1>1, <1>2, <1>3, <1>4, NoFactIs DEF SenderMove, BoundsInv, TypeOK
<1> QED
  BY <1>5, SenderKeeps

(* A prefix told complete is what the command printed.                      *)
LEMMA TruthOfComplete == BoundsInv => CompleteTruth
<1> SUFFICES ASSUME BoundsInv, NEW s \in Streams, PrefixComplete(s)
             PROVE  /\ collection[s] = "Eof" /\ ~fault[s]
                    /\ retained[s] = read[s] /\ discarded[s] = 0
    BY DEF CompleteTruth
<1>1. /\ TypeOK /\ StreamInv(s) /\ HandInv
      /\ prefix[s] /\ collection[s] = "Eof" /\ reserved[s] = 0
  BY DEF BoundsInv, PrefixComplete
<1>2. discarded[s] = 0 /\ ~fault[s]
  BY <1>1 DEF StreamInv
<1>3. Taken(s) = 0
  BY <1>1 DEF HandInv, Taken
<1>4. retained[s] \in Nat /\ read[s] = retained[s] + 0 + 0 + 0
  BY <1>1, <1>2, <1>3, Amounts DEF StreamInv
<1> QED
  BY <1>1, <1>2, <1>4

LEMMA SnapStep == ASSUME BoundsInv, Snap PROVE BoundsInv'
<1>1. /\ UNCHANGED <<facts, others, rpc, pos, cwoken>> /\ UNCHANGED <<retained, read>>
      /\ snap' = Fact /\ swoken' = FALSE /\ TypeOK
      /\ spc' = IF \E s \in Streams : pos[s] < retained[s] THEN "gate" ELSE "check"
  BY DEF BoundsInv, Snap, facts, streamFacts, others
<1>2. snap' \in FactType
  <2>1. /\ Collected \in BOOLEAN /\ (inflight = 0) \in BOOLEAN /\ Complete \in BOOLEAN
        /\ exit \in BOOLEAN /\ absent \in BOOLEAN /\ stopped \in BOOLEAN
        /\ retained \in [Streams -> Counts]
    BY <1>1 DEF Collected, Complete, TypeOK
  <2> QED
    BY <1>1, <2>1 DEF Fact, FactType
<1>3. /\ snap'.retained = retained /\ (snap'.collected <=> Collected)
      /\ (snap'.idle <=> inflight = 0) /\ (snap'.complete <=> Complete)
  BY <1>1 DEF Fact
<1>4. \A s \in Streams : pos'[s] <= retained[s] /\ snap'.retained[s] <= retained[s]
  BY <1>1, <1>3, SenderBounds
<1>5. EndInv'
  <2> SUFFICES ASSUME spc' = "check", snap'.collected, snap'.idle
               PROVE  /\ Collected' /\ inflight' = 0 /\ pos' = retained'
                      /\ snap'.complete => pos' = read'
    BY <1>1 DEF EndInv
  <2>1. Collected' /\ inflight' = 0
    BY <1>1, <1>3 DEF Collected, facts, streamFacts
  <2>2. ASSUME NEW s \in Streams PROVE pos[s] = retained[s]
    BY <1>1, SenderBounds
  <2>3. pos = retained
    BY <1>1, <2>2 DEF TypeOK
  <2>4. ASSUME Complete PROVE retained = read
    <3>1. \A s \in Streams : retained[s] = read[s]
      BY <2>4, TruthOfComplete DEF CompleteTruth, Complete
    <3> QED
      BY <1>1, <3>1 DEF TypeOK
  <2> QED
    BY <1>1, <1>3, <2>1, <2>3, <2>4
<1>6. SenderMove
  BY <1>1, <1>2, <1>4, <1>5 DEF SenderMove, TypeOK
<1> QED
  BY <1>6, SenderKeeps

LEMMA SendFrameStep == ASSUME BoundsInv, SendFrame PROVE BoundsInv'
<1>1. PICK s \in Streams : Behind(s) /\ \E n \in 1 .. snap.retained[s] - pos[s] :
                              pos' = [pos EXCEPT ![s] = @ + n]
  BY DEF SendFrame
<1>2. PICK n \in 1 .. snap.retained[s] - pos[s] : pos' = [pos EXCEPT ![s] = @ + n]
  BY <1>1
<1>3. /\ UNCHANGED <<facts, others, rpc, woken>> /\ spc' = "top" /\ snap' = NoFact /\ TypeOK
  BY DEF BoundsInv, SendFrame
<1>4. pos[s] + n \in Nat /\ pos[s] + n <= retained[s] /\ retained[s] \in Counts
  BY <1>2, SenderBounds
<1>5. pos[s] + n \in Counts
  BY <1>4, Counting
<1>6. pos' \in [Streams -> Counts] /\ \A t \in Streams : pos'[t] <= retained[t]
  BY <1>2, <1>3, <1>4, <1>5, SenderBounds DEF TypeOK
<1>7. \A t \in Streams : snap'.retained[t] <= retained[t]
  BY <1>3, SenderBounds, NoFactIs
<1>8. EndInv'
  BY <1>3 DEF EndInv
<1>9. SenderMove
  BY <1>3, <1>6, <1>7, <1>8, NoFactIs DEF SenderMove, TypeOK, woken
<1> QED
  BY <1>9, SenderKeeps

LEMMA CheckStep == ASSUME BoundsInv, Check \/ Awake PROVE BoundsInv'
<1>1. /\ UNCHANGED <<facts, others, rpc, pos, woken>> /\ TypeOK /\ EndInv /\ snap \in FactType
      /\ UNCHANGED <<retained, read, collection, inflight>>
  BY DEF BoundsInv, Check, Awake, facts, streamFacts, others
<1>2. \/ spc = "check" /\ spc' = "ended" /\ snap' = snap /\ AtEnd
      \/ spc' \in {"wait", "top"} /\ snap' \in {snap, NoFact}
  BY DEF Check, Awake
<1>3. snap' \in FactType /\ \A s \in Streams : pos'[s] <= retained[s] /\ snap'.retained[s] <= retained[s]
  BY <1>1, <1>2, SenderBounds, NoFactIs
<1>4. EndInv'
  <2>1. CASE spc = "check" /\ spc' = "ended" /\ snap' = snap /\ AtEnd
    BY <1>1, <2>1 DEF EndInv, AtEnd, Collected
  <2>2. CASE spc' \in {"wait", "top"}
    BY <2>2 DEF EndInv
  <2> QED
    BY <1>2, <2>1, <2>2
<1>5. SenderMove
  BY <1>1, <1>2, <1>3, <1>4 DEF SenderMove, TypeOK, woken
<1> QED
  BY <1>5, SenderKeeps

(* What a step of the replay moves besides: the pin, and the control when   *)
(* it has the operation started.                                            *)
ReplayMove ==
    /\ UNCHANGED <<streamFacts, stopped, tailRead, collector, writers, read, exit, absent>>
    /\ verified' \in BOOLEAN /\ cwoken' \in BOOLEAN /\ swoken' \in BOOLEAN
    /\ cancel' \in {"ready", "active", "settled", "failed"}
    /\ finish' \in {"none", "set", "due"}
    /\ rpc' \in {"none", "read", "fault", "start", "unpin", "drop"}
    /\ inflight' \in 0 .. 3 /\ Pins'
    /\ spc' \in {"detached", "top", "gate", "replay", "frame", "check", "wait", "ended"}
    /\ pos' \in [Streams -> Counts] /\ snap' \in FactType
    /\ \A s \in Streams : pos'[s] <= retained[s] /\ snap'.retained[s] <= retained[s]
    /\ EndInv'

LEMMA ReplayKeeps == ASSUME BoundsInv, ReplayMove PROVE BoundsInv'
<1>1. /\ UNCHANGED <<streamFacts, stopped, tailRead, collector, writers, read, exit, absent>>
      /\ TypeOK
  BY DEF BoundsInv, ReplayMove
<1>2. TypeOK' /\ snap' \in FactType
  BY <1>1 DEF ReplayMove, TypeOK, streamFacts, collector, writers
<1>3. ASSUME NEW s \in Streams PROVE StreamInv(s)'
  <2>1. /\ StreamInv(s) /\ Taken(s)' = Taken(s) /\ Pending(s)' = Pending(s)
        /\ pos'[s] <= retained[s] /\ snap'.retained[s] <= retained[s]
    BY <1>1 DEF BoundsInv, ReplayMove, Taken, Pending, collector
  <2> QED
    BY <1>1, <2>1 DEF StreamInv, streamFacts, writers
<1>4. (Charged <= Limit)' /\ HandInv' /\ ViewInv' /\ Excess' /\ TailInv'
  BY <1>1 DEF BoundsInv, Charged, HasPending, HandInv, ViewInv, Available, Faulty, Excess, TailInv,
              WritersBack, streamFacts, collector, writers
<1> QED
  BY <1>2, <1>3, <1>4 DEF BoundsInv, ReplayMove

(* Behind the gate the replay takes the last of the pins there can be.      *)
LEMMA GateStep == ASSUME BoundsInv, Gate PROVE BoundsInv'
<1>1. /\ UNCHANGED <<streamFacts, stopped, tailRead, others, snap, pos, woken>>
      /\ spc' = "replay" /\ rpc = "none" /\ rpc' = "read" /\ inflight' = inflight + 1
      /\ TypeOK /\ Pins /\ HandInv /\ snap \in FactType
  BY DEF BoundsInv, Gate, GateFree
<1>2. /\ (Pinned_By("stdout")' <=> Pinned_By("stdout"))
      /\ (Pinned_By("stderr")' <=> Pinned_By("stderr"))
      /\ (HasPending' <=> HasPending)
  BY <1>1 DEF Pinned_By, HasPending, others, collector, writers
<1>3. /\ Bit(Pinned_By("stdout")) \in {0, 1} /\ Bit(Pinned_By("stderr")) \in {0, 1}
      /\ Bit(HasPending) \in {0, 1} /\ Bit(rpc # "none") = 0 /\ Bit(rpc' # "none") = 1
  BY <1>1, BitValues DEF Bit
<1>4. Pins'
  BY <1>1, <1>2, <1>3 DEF Pins, Bit
<1>5. HasPending => ~Pinned_By("stdout") \/ ~Pinned_By("stderr")
  <2>1. hand.stream \in Streams
    BY <1>1 DEF TypeOK
  <2> QED
    BY <1>1, <2>1 DEF HandInv, Pinned_By, Streams
<1>6. Bit(Pinned_By("stdout")) + Bit(Pinned_By("stderr")) + Bit(HasPending) <= 2
  BY <1>3, <1>5 DEF Bit
<1>7. inflight' \in 0 .. 3
  BY <1>1, <1>3, <1>6 DEF Pins
<1>8. EndInv'
  BY <1>1 DEF EndInv
<1>9. \A s \in Streams : pos'[s] <= retained[s] /\ snap'.retained[s] <= retained[s]
  BY <1>1, SenderBounds
<1>10. ReplayMove
  BY <1>1, <1>4, <1>7, <1>8, <1>9 DEF ReplayMove, TypeOK, others, control, woken
<1> QED
  BY <1>10, ReplayKeeps

LEMMA ReplayReadsStep == ASSUME BoundsInv, ReplayReads \/ ReplayStart PROVE BoundsInv'
<1>1. /\ UNCHANGED <<facts, streamFacts, stopped, tailRead, inflight>>
      /\ UNCHANGED <<collector, writers, read, spc, snap, pos>>
      /\ rpc # "none" /\ rpc' # "none"
      /\ rpc' \in {"none", "read", "fault", "start", "unpin", "drop"}
      /\ TypeOK /\ Pins /\ EndInv /\ snap \in FactType
  BY DEF BoundsInv, ReplayReads, ReplayStart, facts, others
<1>2. /\ UNCHANGED <<exit, verified, absent>>
      /\ cancel' \in {"ready", "active", "settled", "failed"}
      /\ finish' \in {"none", "set", "due"}
      /\ cwoken' \in BOOLEAN /\ swoken' \in BOOLEAN
  <2>1. CASE ReplayReads
    BY <1>1, <2>1 DEF ReplayReads, others, control, woken, TypeOK
  <2>2. CASE ReplayStart
    BY <1>1, <2>2, HardenedStarts DEF ReplayStart, NotifyWaiters
  <2> QED
    BY <2>1, <2>2
<1>3. Pins'
  BY <1>1 DEF Pins, Pinned_By, HasPending, Bit, collector, writers
<1>4. EndInv'
  BY <1>1 DEF EndInv, Collected, streamFacts
<1>5. \A s \in Streams : pos'[s] <= retained[s] /\ snap'.retained[s] <= retained[s]
  BY <1>1, SenderBounds
<1>6. ReplayMove
  BY <1>1, <1>2, <1>3, <1>4, <1>5 DEF ReplayMove, TypeOK
<1> QED
  BY <1>6, ReplayKeeps

LEMMA ReplayFaultStep == ASSUME BoundsInv, ReplayFault PROVE BoundsInv'
<1>1. /\ rpc = "fault" /\ rpc' = "start" /\ UNCHANGED <<others, spc, snap, pos, woken>> /\ TypeOK
  BY DEF BoundsInv, ReplayFault
<1>2. PICK s \in Streams : retained[s] > 0 /\ Faulted(s)
  BY DEF ReplayFault
<1>3. UNCHANGED <<control, collector, left, src, read, wpc, spc, snap, pos, woken>>
  BY <1>1 DEF others, writers
<1>4. wpc' \in [Streams -> {"idle", "write", "fault", "start", "unpin", "back"}]
  BY <1>1, <1>3 DEF TypeOK
<1> QED
  BY <1>1, <1>2, <1>3, <1>4, FaultKeeps

(* The replay gives its pin back; the sender may be gone meanwhile.         *)
LEMMA ReplayUnpinStep == ASSUME BoundsInv, ReplayUnpin PROVE BoundsInv'
<1>1. /\ UNCHANGED <<streamFacts, stopped, tailRead, others>>
      /\ rpc # "none" /\ rpc' = "none" /\ inflight' = inflight - 1
      /\ cwoken' \in BOOLEAN /\ swoken' \in BOOLEAN
      /\ TypeOK /\ Pins /\ EndInv /\ snap \in FactType
  BY DEF BoundsInv, ReplayUnpin, NotifyWaiters
<1>2. \/ spc' \in {"frame", "detached"} /\ snap' \in {snap, NoFact} /\ pos' \in {pos, Zero}
      \/ UNCHANGED <<spc, snap, pos>>
  BY DEF ReplayUnpin
<1>3. inflight # 0
  BY <1>1, Quiet
<1>4. inflight' \in 0 .. 3
  BY <1>1, <1>3 DEF TypeOK
<1>5. Pins'
  <2>1. /\ (Pinned_By("stdout")' <=> Pinned_By("stdout"))
        /\ (Pinned_By("stderr")' <=> Pinned_By("stderr"))
        /\ (HasPending' <=> HasPending)
    BY <1>1 DEF Pinned_By, HasPending, others, collector, writers
  <2>2. Bit(rpc # "none") = 1 /\ Bit(rpc' # "none") = 0
    BY <1>1 DEF Bit
  <2>3. /\ Bit(Pinned_By("stdout")) \in {0, 1} /\ Bit(Pinned_By("stderr")) \in {0, 1}
        /\ Bit(HasPending) \in {0, 1}
    BY BitValues
  <2> QED
    BY <1>1, <2>1, <2>2, <2>3 DEF Pins, Bit
<1>6. EndInv'
  <2>1. CASE spc' \in {"frame", "detached"}
    BY <2>1 DEF EndInv
  <2>2. CASE UNCHANGED <<spc, snap, pos>>
    BY <1>1, <1>3, <2>2 DEF EndInv
  <2> QED
    BY <1>2, <2>1, <2>2
<1>7. Zero \in [Streams -> Counts] /\ \A s \in Streams : Zero[s] = 0
  BY Counting DEF Zero
<1>8. snap' \in FactType /\ pos' \in [Streams -> Counts]
  BY <1>1, <1>2, <1>7, NoFactIs DEF TypeOK
<1>9. \A s \in Streams : pos'[s] <= retained[s] /\ snap'.retained[s] <= retained[s]
  <2> TAKE s \in Streams
  <2>1. pos' \in {pos, Zero} /\ snap' \in {snap, NoFact}
    BY <1>2
  <2> QED
    BY <1>7, <2>1, NoFactIs, SenderBounds
<1>10. spc' \in {"detached", "top", "gate", "replay", "frame", "check", "wait", "ended"}
  BY <1>1, <1>2 DEF TypeOK
<1>11. ReplayMove
  BY <1>1, <1>4, <1>5, <1>6, <1>8, <1>9, <1>10 DEF ReplayMove, TypeOK, others, control
<1> QED
  BY <1>11, ReplayKeeps

-----------------------------------------------------------------------------
(* The collector, with nothing in hand.                                     *)

LoopMove ==
    /\ UNCHANGED <<retained, reserved, discarded, prefix, fault, stopped, inflight, tailRead>>
    /\ UNCHANGED <<control, hand, left, src, sender, read>>
    /\ hand.len = 0 /\ cpc' \in {"top", "decide", "select", "done"}
    /\ wpc' \in [Streams -> {"idle", "write", "fault", "start", "unpin", "back"}]
    /\ \A s \in Streams : wpc'[s] # wpc[s] => wpc[s] = "back" /\ wpc'[s] = "idle"
    /\ collection' \in [Streams -> {"Reading", "Eof", "Unconfirmed"}]
    /\ Collected => Collected'
    /\ view' \in [stopped : BOOLEAN, available : 0 .. Limit, timed : BOOLEAN]
    /\ tail' \in {"none", "set", "due"}
    /\ cwoken' \in BOOLEAN /\ swoken' \in BOOLEAN
    /\ ViewInv' /\ TailInv'

LEMMA LoopKeeps == ASSUME BoundsInv, LoopMove, cpc \in {"top", "decide", "select"} PROVE BoundsInv'
<1>1. /\ UNCHANGED <<retained, reserved, discarded, prefix, fault, stopped, inflight, tailRead>>
      /\ UNCHANGED <<control, hand, left, src, sender, read>>
      /\ hand.len = 0 /\ TypeOK /\ snap \in FactType
  BY DEF BoundsInv, LoopMove
<1>2. TypeOK' /\ snap' \in FactType
  <2>1. snap' \in FactType
    BY <1>1 DEF sender
  <2>2. cpc' \in {"top", "decide", "select", "reserve", "stop", "admit", "done"}
    BY DEF LoopMove
  <2> QED
    BY <1>1, <2>1, <2>2 DEF LoopMove, TypeOK, control, sender
<1>3. hand'.len = 0
  BY <1>1
<1>4. /\ ~HasPending /\ ~HasPending'
      /\ \A s \in Streams : Taken(s) = 0 /\ Pending(s) = 0 /\ Taken(s)' = 0 /\ Pending(s)' = 0
  BY <1>1, <1>3 DEF HasPending, Taken, Pending
<1>5. ASSUME NEW s \in Streams PROVE StreamInv(s)'
  <2>1. /\ StreamInv(s) /\ Taken(s)' = Taken(s) /\ Pending(s)' = Pending(s)
        /\ (wpc'[s] = "write" <=> wpc[s] = "write")
    BY <1>4 DEF BoundsInv, LoopMove
  <2> QED
    BY <1>1, <2>1 DEF StreamInv, sender
<1>6. (Charged <= Limit)'
  BY <1>1 DEF BoundsInv, Charged
<1>7. Pins'
  <2>1. \A s \in Streams : Pinned_By(s)' <=> Pinned_By(s)
    BY DEF LoopMove, Pinned_By
  <2> QED
    BY <1>1, <1>4, <2>1 DEF BoundsInv, Pins, Bit, sender, Streams
<1>8. HandInv'
  BY <1>1, <1>4 DEF LoopMove, HandInv
<1>9. Faulty' <=> Faulty
  BY <1>1 DEF LoopMove, Faulty
<1>10. Excess'
  BY <1>1, <1>9 DEF BoundsInv, Excess
<1>11. EndInv'
  BY <1>1 DEF BoundsInv, LoopMove, EndInv, sender
<1> QED
  BY <1>2, <1>5, <1>6, <1>7, <1>8, <1>10, <1>11 DEF BoundsInv, LoopMove

LEMMA TopStep == ASSUME BoundsInv, Top PROVE BoundsInv'
<1>1. /\ UNCHANGED <<facts, streamFacts, control, sender, tail, hand, writers, swoken, read>>
      /\ cpc = "top" /\ cwoken' = FALSE /\ hand.len = 0 /\ TypeOK /\ TailInv
      /\ \/ cpc' = "done" /\ view' = view
         \/ /\ cpc' = "decide"
            /\ view' = [stopped |-> stopped, available |-> Available, timed |-> FALSE]
  BY DEF BoundsInv, Top, outsiders, HandInv, facts
<1>2. Available \in 0 .. Limit
  BY <1>1, Charges, Counting DEF BoundsInv, Available
<1>3. stopped \in BOOLEAN
  BY <1>1 DEF TypeOK
<1>4. view' \in [stopped : BOOLEAN, available : 0 .. Limit, timed : BOOLEAN]
  <2>1. view \in [stopped : BOOLEAN, available : 0 .. Limit, timed : BOOLEAN]
    BY <1>1 DEF TypeOK
  <2>2. [stopped |-> stopped, available |-> Available, timed |-> FALSE]
            \in [stopped : BOOLEAN, available : 0 .. Limit, timed : BOOLEAN]
    BY <1>2, <1>3
  <2> QED
    BY <1>1, <2>1, <2>2
<1>5. ViewInv'
  BY <1>1 DEF ViewInv, Available, Charged, facts, streamFacts
<1>6. TailInv'
  BY <1>1 DEF TailInv, WritersBack, facts, control, writers
<1>7. LoopMove
  BY <1>1, <1>4, <1>5, <1>6 DEF LoopMove, TypeOK, Collected, facts, streamFacts, writers
<1> QED
  BY <1>1, <1>7, LoopKeeps

(* The tail starts, and the collection is given up or goes on.              *)
LEMMA DecideStep == ASSUME BoundsInv, Decide PROVE BoundsInv'
<1> DEFINE over == IF TailMayStart THEN "set" ELSE tail
<1>1. /\ UNCHANGED <<retained, reserved, discarded, prefix, fault, stopped, inflight, tailRead>>
      /\ UNCHANGED <<control, sender, hand, writers, read>>
      /\ cpc = "decide" /\ tail' = over
      /\ hand.len = 0 /\ TypeOK /\ TailInv /\ ViewInv
  BY DEF BoundsInv, Decide, outsiders, HandInv
<1>2. \/ /\ collection' = [s \in Streams |->
                  IF collection[s] = "Reading" THEN "Unconfirmed" ELSE collection[s]]
         /\ NotifyWaiters /\ cpc' = "done" /\ view' = view
      \/ /\ cpc' = "select" /\ view' = [view EXCEPT !.timed = finish # "none"]
         /\ UNCHANGED <<collection, woken>>
  BY DEF Decide
<1>3. /\ collection' \in [Streams -> {"Reading", "Eof", "Unconfirmed"}]
      /\ Collected => Collected'
  BY <1>1, <1>2 DEF Collected, TypeOK
<1>4. cwoken' \in BOOLEAN /\ swoken' \in BOOLEAN
  BY <1>1, <1>2 DEF NotifyWaiters, woken, TypeOK
<1>5. /\ view' \in [stopped : BOOLEAN, available : 0 .. Limit, timed : BOOLEAN]
      /\ view'.stopped = view.stopped /\ view'.available = view.available
  BY <1>1, <1>2 DEF TypeOK
<1>6. tail' \in {"none", "set", "due"}
  BY <1>1 DEF TypeOK
<1>7. ViewInv'
  <2>1. Faulty' <=> Faulty
    BY <1>1 DEF Faulty, writers
  <2> QED
    BY <1>1, <1>5, <2>1 DEF ViewInv, Available, Charged
<1>8. TailInv'
  <2>1. TailMayStart => stopped /\ view.stopped /\ absent /\ WritersBack
    BY <1>1 DEF TailMayStart, ViewInv
  <2>2. WritersBack => WritersBack'
    BY <1>1 DEF WritersBack, writers
  <2> QED
    BY <1>1, <1>5, <2>1, <2>2 DEF TailInv, control
<1>9. LoopMove
  BY <1>1, <1>2, <1>3, <1>4, <1>5, <1>6, <1>7, <1>8 DEF LoopMove, TypeOK, writers
<1> QED
  BY <1>1, <1>9, LoopKeeps

LEMMA WakeStep ==
    ASSUME BoundsInv, NEW s \in Streams, Wake \/ WriteBack(s) \/ ReadEof(s)
    PROVE  BoundsInv'
<1>1. /\ UNCHANGED <<retained, reserved, discarded, prefix, fault, stopped, inflight, tailRead>>
      /\ UNCHANGED <<control, sender, view, tail, hand, left, src, read>>
      /\ cpc = "select" /\ cpc' = "top" /\ hand.len = 0 /\ TypeOK /\ TailInv
  BY DEF BoundsInv, Wake, WriteBack, ReadEof, ReadEnabled, outsiders, HandInv, facts, streamFacts,
         writers
<1>2. \/ UNCHANGED wpc
      \/ wpc[s] = "back" /\ wpc' = [wpc EXCEPT ![s] = "idle"]
  BY DEF Wake, WriteBack, ReadEof, writers
<1>3. \/ UNCHANGED collection
      \/ collection[s] = "Reading" /\ collection' = [collection EXCEPT ![s] = "Eof"]
  BY DEF Wake, WriteBack, ReadEof, ReadEnabled, facts, streamFacts
<1>4. cwoken' \in BOOLEAN /\ swoken' \in BOOLEAN
  BY <1>1 DEF Wake, WriteBack, ReadEof, NotifyWaiters, woken, TypeOK
<1>5. /\ wpc' \in [Streams -> {"idle", "write", "fault", "start", "unpin", "back"}]
      /\ \A t \in Streams : wpc'[t] # wpc[t] => wpc[t] = "back" /\ wpc'[t] = "idle"
  BY <1>1, <1>2 DEF TypeOK
<1>6. /\ collection' \in [Streams -> {"Reading", "Eof", "Unconfirmed"}]
      /\ Collected => Collected'
  BY <1>1, <1>3 DEF Collected, TypeOK
<1>7. ViewInv'
  BY <1>1 DEF ViewInv
<1>8. TailInv'
  <2>1. WritersBack => WritersBack'
    BY <1>5 DEF WritersBack
  <2> QED
    BY <1>1, <2>1 DEF TailInv, control
<1>9. LoopMove
  BY <1>1, <1>4, <1>5, <1>6, <1>7, <1>8 DEF LoopMove, TypeOK
<1> QED
  BY <1>1, <1>9, LoopKeeps

-----------------------------------------------------------------------------
(* The collector reads, reserves and admits.                                *)

LEMMA Smaller == ASSUME NEW a \in Int, NEW b \in Int
                 PROVE  Least(a, b) \in {a, b} /\ Least(a, b) <= a /\ Least(a, b) <= b
BY DEF Least

(* A read of the tail: what it takes is discarded at once.                  *)
LEMMA ReadTailStep ==
    ASSUME BoundsInv, NEW s \in Streams, ReadSome(s), Tailing
    PROVE  BoundsInv'
<1>1. PICK n \in 1 .. Least(ReadCap, MaxOut[s] - read[s]) :
          /\ read' = [read EXCEPT ![s] = @ + n]
          /\ tailRead' = tailRead + n
          /\ discarded' = [discarded EXCEPT ![s] = @ + n]
          /\ prefix' = [prefix EXCEPT ![s] = FALSE]
          /\ cpc' = "top"
          /\ UNCHANGED hand
  BY DEF ReadSome
<1>2. /\ UNCHANGED <<retained, reserved, collection, fault, stopped, inflight>>
      /\ UNCHANGED <<control, sender, view, tail, writers, woken>>
      /\ cpc = "select" /\ collection[s] = "Reading" /\ view.stopped /\ tail # "none"
      /\ TypeOK /\ TailInv /\ HandInv /\ snap \in FactType
  BY DEF BoundsInv, ReadSome, ReadEnabled, outsiders, Tailing
<1>3. hand.len = 0 /\ stopped
  BY <1>2 DEF TailInv
<1>4. /\ read[s] \in Nat /\ tailRead \in Nat /\ discarded[s] \in Nat /\ retained[s] \in Nat
      /\ reserved[s] \in Nat /\ MaxOut[s] \in Nat /\ TailBytes \in Nat /\ ReadSize \in Nat
  BY <1>2, Amounts, Counting
<1>5. n \in Nat /\ n > 0 /\ n <= TailBytes - tailRead /\ n <= MaxOut[s] - read[s]
  <2>1. ReadCap \in Int /\ ReadCap <= TailBytes - tailRead
    BY <1>2, <1>4, Smaller DEF ReadCap, Tailing
  <2>2. /\ Least(ReadCap, MaxOut[s] - read[s]) <= ReadCap
        /\ Least(ReadCap, MaxOut[s] - read[s]) <= MaxOut[s] - read[s]
        /\ Least(ReadCap, MaxOut[s] - read[s]) \in Int
    BY <1>4, <2>1, Smaller
  <2> QED
    BY <1>1, <1>4, <2>1, <2>2
<1>6. Taken(s) = 0 /\ read[s] = retained[s] + reserved[s] + discarded[s]
  BY <1>3, <1>4, EmptyHanded DEF BoundsInv, StreamInv
<1>7. read[s] + n \in Counts /\ discarded[s] + n \in Counts /\ tailRead + n \in 0 .. TailBytes
  <2>1. /\ read[s] + n \in Nat /\ read[s] + n <= MaxOut[s]
        /\ discarded[s] + n \in Nat /\ discarded[s] + n <= MaxOut[s]
    BY <1>4, <1>5, <1>6
  <2> QED
    BY <1>4, <1>5, <2>1, Counting
<1>8. /\ read'[s] = read[s] + n /\ discarded'[s] = discarded[s] + n /\ prefix'[s] = FALSE
      /\ \A t \in Streams \ {s} : /\ read'[t] = read[t] /\ discarded'[t] = discarded[t]
                                  /\ prefix'[t] = prefix[t]
  BY <1>1, <1>2 DEF TypeOK
<1>9. TypeOK' /\ snap' \in FactType
  <2>1. /\ read' \in [Streams -> Counts] /\ discarded' \in [Streams -> Counts]
        /\ tailRead' \in 0 .. TailBytes
    BY <1>1, <1>2, <1>7 DEF TypeOK
  <2>2. prefix' \in [Streams -> BOOLEAN]
    BY <1>1, <1>2 DEF TypeOK
  <2>3. snap' \in FactType
    BY <1>2 DEF sender
  <2> QED
    BY <1>1, <1>2, <2>1, <2>2, <2>3 DEF TypeOK, control, sender, writers, woken
<1>10. /\ ~HasPending /\ ~HasPending'
       /\ \A t \in Streams : Taken(t) = 0 /\ Pending(t) = 0 /\ Taken(t)' = 0 /\ Pending(t)' = 0
  <2>1. hand'.len = 0
    BY <1>1, <1>3
  <2> QED
    BY <1>3, <2>1 DEF HasPending, Taken, Pending
<1>11. ASSUME NEW t \in Streams PROVE StreamInv(t)'
  <2>1. StreamInv(t) /\ Taken(t)' = Taken(t) /\ Pending(t)' = Pending(t)
    BY <1>10 DEF BoundsInv
  <2>2. CASE t = s
    <3>1. /\ read[s] + n = retained[s] + reserved[s] + (discarded[s] + n) + Taken(s)
          /\ read[s] + n <= MaxOut[s]
      BY <1>4, <1>5, <1>6
    <3> QED
      BY <1>2, <1>3, <1>8, <2>1, <2>2, <3>1 DEF StreamInv, sender, writers
  <2>3. CASE t # s
    BY <1>2, <1>8, <2>1, <2>3 DEF StreamInv, sender, writers
  <2> QED
    BY <2>2, <2>3
<1>12. (Charged <= Limit)' /\ Pins' /\ HandInv' /\ ViewInv'
  BY <1>1, <1>2, <1>3, <1>10 DEF BoundsInv, Charged, Pins, Pinned_By, Bit, HandInv, ViewInv, sender,
                                 writers
<1>13. Excess'
  <2>1. Faulty' <=> Faulty
    BY <1>2 DEF Faulty, writers
  <2>2. discarded["stdout"] \in Nat /\ discarded["stderr"] \in Nat
    BY <1>2, Amounts DEF Streams
  <2>3. discarded'["stdout"] + discarded'["stderr"] = discarded["stdout"] + discarded["stderr"] + n
    <3>1. CASE s = "stdout"
      BY <1>5, <1>8, <2>2, <3>1 DEF Streams
    <3>2. CASE s = "stderr"
      BY <1>5, <1>8, <2>2, <3>2 DEF Streams
    <3> QED
      BY <3>1, <3>2 DEF Streams
  <2> QED
    BY <1>1, <1>2, <1>4, <1>5, <2>1, <2>2, <2>3 DEF BoundsInv, Excess, Bit
<1>14. TailInv'
  BY <1>1, <1>2 DEF TailInv, WritersBack, control, writers
<1>15. EndInv'
  BY <1>2 DEF BoundsInv, EndInv, Collected, sender
<1> QED
  BY <1>9, <1>11, <1>12, <1>13, <1>14, <1>15 DEF BoundsInv

(* A read within the budget, and one byte: it is in hand.                   *)
LEMMA ReadHandStep ==
    ASSUME BoundsInv, NEW s \in Streams, ReadSome(s), ~Tailing
    PROVE  BoundsInv'
<1>1. PICK n \in 1 .. Least(ReadCap, MaxOut[s] - read[s]) :
          /\ read' = [read EXCEPT ![s] = @ + n]
          /\ hand' = [stream |-> s, len |-> n, at |-> read[s]]
          /\ cpc' = "reserve"
          /\ UNCHANGED <<tailRead, discarded, prefix>>
  BY DEF ReadSome
<1>2. /\ UNCHANGED <<retained, reserved, discarded, prefix, collection, fault, stopped, inflight>>
      /\ UNCHANGED <<tailRead, control, sender, view, tail, writers, woken>>
      /\ cpc = "select" /\ collection[s] = "Reading" /\ ~view.stopped
      /\ wpc[s] = "idle" \/ view.available = 0
      /\ TypeOK /\ TailInv /\ HandInv /\ snap \in FactType
  BY <1>1 DEF BoundsInv, ReadSome, ReadEnabled, outsiders
<1>3. hand.len = 0
  BY <1>2 DEF HandInv
<1>4. /\ read[s] \in Nat /\ discarded[s] \in Nat /\ retained[s] \in Nat /\ reserved[s] \in Nat
      /\ MaxOut[s] \in Nat /\ view.available \in Nat /\ ReadSize \in Nat /\ read[s] \in Counts
  BY <1>2, Amounts, Counting DEF TypeOK
<1>5. n \in Nat /\ n > 0 /\ n <= view.available + 1 /\ n <= MaxOut[s] - read[s]
  <2>1. ReadCap \in Int /\ ReadCap <= view.available + 1
    BY <1>4, Smaller DEF ReadCap
  <2>2. /\ Least(ReadCap, MaxOut[s] - read[s]) <= ReadCap
        /\ Least(ReadCap, MaxOut[s] - read[s]) <= MaxOut[s] - read[s]
        /\ Least(ReadCap, MaxOut[s] - read[s]) \in Int
    BY <1>4, <2>1, Smaller
  <2> QED
    BY <1>1, <1>4, <2>1, <2>2
<1>6. /\ hand'.stream = s /\ hand'.len = n /\ hand'.at = read[s]
      /\ read'[s] = read[s] + n /\ \A t \in Streams \ {s} : read'[t] = read[t]
  BY <1>1, <1>2 DEF TypeOK
<1>7. read[s] + n \in Nat /\ read[s] + n <= MaxOut[s] /\ read[s] + n \in Counts /\ n \in Counts
  BY <1>4, <1>5, Counting
<1>8. TypeOK' /\ snap' \in FactType
  <2>1. /\ read' \in [Streams -> Counts] /\ hand' \in [stream : Streams, len : Counts, at : Counts]
    BY <1>1, <1>2, <1>4, <1>7 DEF TypeOK
  <2>2. snap' \in FactType
    BY <1>2 DEF sender
  <2> QED
    BY <1>1, <1>2, <2>1, <2>2 DEF TypeOK, control, sender, writers, woken
<1>9. /\ ~HasPending /\ ~HasPending'
      /\ \A t \in Streams : Taken(t) = 0 /\ Pending(t) = 0 /\ Pending(t)' = 0
      /\ Taken(s)' = n /\ \A t \in Streams \ {s} : Taken(t)' = 0
  BY <1>1, <1>3, <1>6 DEF HasPending, Taken, Pending
<1>10. ASSUME NEW t \in Streams PROVE StreamInv(t)'
  <2>1. StreamInv(t)
    BY DEF BoundsInv
  <2>2. CASE t = s
    <3>1. read[s] + n = retained[s] + reserved[s] + discarded[s] + n
      BY <1>4, <1>5, <1>9, <2>1, <2>2 DEF StreamInv
    <3> QED
      BY <1>2, <1>6, <1>7, <1>9, <2>1, <2>2, <3>1 DEF StreamInv, sender, writers
  <2>3. CASE t # s
    BY <1>2, <1>6, <1>9, <2>1, <2>3 DEF StreamInv, sender, writers
  <2> QED
    BY <2>2, <2>3
<1>11. (Charged <= Limit)' /\ Pins'
  BY <1>2, <1>9 DEF BoundsInv, Charged, Pins, Pinned_By, Bit, sender, writers
<1>12. HandInv'
  BY <1>1, <1>2, <1>5, <1>6, <1>9 DEF HandInv, writers
<1>13. (Faulty' <=> Faulty) /\ Available' = Available
  BY <1>2 DEF Faulty, Available, Charged, writers
<1>14. ViewInv' /\ Excess'
  BY <1>1, <1>2, <1>13 DEF BoundsInv, ViewInv, Excess
<1>15. TailInv'
  BY <1>2 DEF TailInv, control
<1>16. EndInv'
  BY <1>2 DEF BoundsInv, EndInv, Collected, sender
<1> QED
  BY <1>8, <1>10, <1>11, <1>12, <1>14, <1>15, <1>16 DEF BoundsInv

LEMMA ReadErrorStep ==
    ASSUME BoundsInv, NEW s \in Streams, ReadError(s)
    PROVE  BoundsInv'
<1>1. /\ UNCHANGED <<retained, reserved, discarded, fault, inflight, tailRead>>
      /\ UNCHANGED <<control, sender, view, tail, hand, writers, woken, read>>
      /\ collection' = [collection EXCEPT ![s] = "Unconfirmed"]
      /\ prefix' = [prefix EXCEPT ![s] = FALSE]
      /\ stopped' = TRUE /\ cpc' = "stop"
      /\ cpc = "select" /\ collection[s] = "Reading" /\ hand.len = 0
      /\ TypeOK /\ TailInv /\ snap \in FactType
  BY DEF BoundsInv, ReadError, ReadEnabled, outsiders, HandInv
<1>2. TypeOK' /\ snap' \in FactType
  <2>1. collection' \in [Streams -> {"Reading", "Eof", "Unconfirmed"}]
    BY <1>1 DEF TypeOK
  <2>2. prefix' \in [Streams -> BOOLEAN]
    BY <1>1 DEF TypeOK
  <2>3. snap' \in FactType
    BY <1>1 DEF sender
  <2> QED
    BY <1>1, <2>1, <2>2, <2>3 DEF TypeOK, control, sender, writers, woken
<1>3. /\ ~HasPending /\ ~HasPending'
      /\ \A t \in Streams : Taken(t) = 0 /\ Pending(t) = 0 /\ Taken(t)' = 0 /\ Pending(t)' = 0
  BY <1>1 DEF HasPending, Taken, Pending
<1>4. ASSUME NEW t \in Streams PROVE StreamInv(t)'
  <2>1. StreamInv(t) /\ (prefix'[t] => prefix[t])
    BY <1>1 DEF BoundsInv, TypeOK
  <2> QED
    BY <1>1, <1>3, <2>1 DEF StreamInv, sender, writers
<1>5. (Charged <= Limit)' /\ Pins' /\ HandInv' /\ ViewInv'
  BY <1>1, <1>3 DEF BoundsInv, Charged, Pins, Pinned_By, Bit, HandInv, ViewInv, sender, writers
<1>6. Excess'
  <2>1. Faulty' <=> Faulty
    BY <1>1 DEF Faulty, writers
  <2>2. /\ discarded["stdout"] \in Nat /\ discarded["stderr"] \in Nat /\ tailRead \in Nat
        /\ Bit(stopped) \in {0, 1} /\ Bit(stopped') = 1
    BY <1>1, Amounts, BitValues DEF Streams, Bit
  <2> QED
    BY <1>1, <2>1, <2>2 DEF BoundsInv, Excess
<1>7. TailInv'
  BY <1>1 DEF TailInv, WritersBack, control, writers
<1>8. EndInv'
  BY <1>1 DEF BoundsInv, EndInv, Collected, sender
<1> QED
  BY <1>2, <1>4, <1>5, <1>6, <1>7, <1>8 DEF BoundsInv

(* What of a read is kept fits in the budget still, and a byte of it goes   *)
(* at most - unless a file failed behind the collector's back - to an idle  *)
(* writer.                                                                  *)
LEMMA KeptOfARead ==
    ASSUME BoundsInv, cpc = "reserve", NEW k, k = Retainable(hand.len)
    PROVE  /\ k \in Nat /\ k <= hand.len /\ Charged + k <= Limit
           /\ k > 0 => ~stopped /\ wpc[hand.stream] = "idle" /\ hand.at = retained[hand.stream]
           /\ ~Faulty => ~stopped /\ hand.len - k <= 1
<1>1. PICK s \in Streams : s = hand.stream
  BY DEF BoundsInv, TypeOK
<1>2. TypeOK /\ HandInv /\ ViewInv /\ Charged <= Limit
  BY DEF BoundsInv
<1>3. /\ hand.len \in Nat /\ hand.len > 0 /\ hand.len <= view.available + 1 /\ ~view.stopped
      /\ hand.at + hand.len = read[s] /\ (wpc[s] = "idle" \/ view.available = 0)
  BY <1>1, <1>2, Amounts DEF HandInv
<1>4. Charged \in Nat /\ Limit \in Nat /\ Available \in Nat /\ Available = Limit - Charged
  BY <1>2, Charges, Counting DEF Available
<1>5. (~stopped => view.available = Available) /\ (stopped => Faulty)
  BY <1>2, <1>3 DEF ViewInv
<1>6. CASE stopped
  <2>1. k = 0
    BY <1>6 DEF Retainable
  <2> QED
    BY <1>3, <1>4, <1>5, <1>6, <2>1
<1>7. CASE ~stopped
  <2>1. k = Least(hand.len, Available)
    BY <1>7 DEF Retainable
  <2>2. k \in {hand.len, Available} /\ k <= hand.len /\ k <= Available
    BY <1>3, <1>4, <2>1, Smaller
  <2>3. k \in Nat /\ Charged + k <= Limit
    BY <1>3, <1>4, <2>2
  <2>4. hand.len - k <= 1
    BY <1>3, <1>4, <1>5, <1>7, <2>2
  <2>5. ASSUME k > 0 PROVE wpc[s] = "idle" /\ hand.at = retained[s]
    <3>1. wpc[s] = "idle"
      BY <1>3, <1>4, <1>5, <1>7, <2>2, <2>5
    <3>2. /\ StreamInv(s) /\ retained[s] \in Nat /\ reserved[s] \in Nat /\ discarded[s] \in Nat
          /\ hand.at \in Nat /\ read[s] \in Nat
      BY <1>2, Amounts DEF BoundsInv
    <3>3. reserved[s] = 0 /\ discarded[s] = 0
      BY <1>7, <3>1, <3>2 DEF StreamInv, Pending
    <3>4. Taken(s) = hand.len
      BY <1>1 DEF Taken
    <3>5. read[s] = retained[s] + reserved[s] + discarded[s] + hand.len
      BY <3>2, <3>4 DEF StreamInv
    <3>6. hand.at + hand.len = retained[s] + hand.len
      BY <1>3, <3>2, <3>3, <3>5
    <3> QED
      BY <1>3, <3>1, <3>2, <3>6
  <2> QED
    BY <1>1, <1>7, <2>2, <2>3, <2>4, <2>5
<1> QED
  BY <1>1, <1>6, <1>7

LEMMA ReserveStep == ASSUME BoundsInv, Reserve PROVE BoundsInv'
<1>1. PICK s \in Streams : s = hand.stream
  BY DEF BoundsInv, TypeOK
<1>2. PICK k : k = Retainable(hand.len)
  OBVIOUS
<1>3. PICK m : m = hand.len
  OBVIOUS
<1>4. /\ reserved' = [reserved EXCEPT ![s] = @ + k]
      /\ discarded' = [discarded EXCEPT ![s] = @ + m - k]
      /\ prefix' = [prefix EXCEPT ![s] = @ /\ k = m]
      /\ stopped' = (stopped \/ k # m)
      /\ inflight' = inflight + (IF k = 0 THEN 0 ELSE 1)
      /\ cpc' = IF k = m THEN "admit" ELSE "stop"
      /\ hand' = IF k = 0 THEN NoHand ELSE [hand EXCEPT !.len = k]
  BY <1>1, <1>2, <1>3 DEF Reserve, Pinned
<1>5. /\ UNCHANGED <<retained, collection, fault, tailRead, control, sender, view, tail, writers>>
      /\ UNCHANGED <<woken, read>> /\ cpc = "reserve"
      /\ TypeOK /\ TailInv /\ HandInv /\ snap \in FactType
  BY DEF BoundsInv, Reserve, outsiders
<1>6. /\ k \in Nat /\ k <= m /\ Charged + k <= Limit /\ m \in Nat /\ m > 0
      /\ k > 0 => ~stopped /\ wpc[s] = "idle" /\ hand.at = retained[s]
      /\ ~Faulty => ~stopped /\ m - k <= 1
  BY <1>1, <1>2, <1>3, <1>5, Amounts, KeptOfARead DEF HandInv
<1>7. collection[s] = "Reading" /\ ~view.stopped
  BY <1>1, <1>5 DEF HandInv
<1>8. tail = "none" /\ tailRead = 0
  <2>1. tailRead \in Nat
    BY <1>5, Amounts
  <2> QED
    BY <1>5, <1>7, <2>1 DEF TailInv
<1>9. /\ retained[s] \in Nat /\ reserved[s] \in Nat /\ discarded[s] \in Nat /\ read[s] \in Nat
      /\ MaxOut[s] \in Nat /\ left[s] \in Nat
  BY <1>5, Amounts, Counting
<1>10. Taken(s) = m /\ Pending(s) = 0 /\ \A t \in Streams \ {s} : Taken(t) = 0 /\ Pending(t) = 0
  BY <1>1, <1>3, <1>5 DEF Taken, Pending
<1>11. read[s] = retained[s] + reserved[s] + discarded[s] + m /\ read[s] <= MaxOut[s]
  BY <1>10 DEF BoundsInv, StreamInv
<1>12. reserved[s] + k \in Counts /\ discarded[s] + m - k \in Counts
  <2>1. /\ reserved[s] + k \in Nat /\ reserved[s] + k <= MaxOut[s]
        /\ discarded[s] + m - k \in Nat /\ discarded[s] + m - k <= MaxOut[s]
    BY <1>6, <1>9, <1>11
  <2> QED
    BY <1>9, <2>1, Counting
<1>13. /\ reserved'[s] = reserved[s] + k /\ discarded'[s] = discarded[s] + m - k
       /\ (prefix'[s] => prefix[s] /\ k = m)
       /\ \A t \in Streams \ {s} : /\ reserved'[t] = reserved[t] /\ discarded'[t] = discarded[t]
                                   /\ prefix'[t] = prefix[t]
  BY <1>4, <1>5 DEF TypeOK
<1>14. /\ hand'.len = k /\ (k > 0 => hand'.stream = s /\ hand'.at = hand.at)
       /\ hand' \in [stream : Streams, len : Counts, at : Counts]
  <2>1. CASE k = 0
    <3>1. hand' = NoHand
      BY <1>4, <2>1
    <3> QED
      BY <1>6, <2>1, <3>1, Counting DEF NoHand, Streams
  <2>2. CASE k # 0
    <3>1. hand' = [hand EXCEPT !.len = k]
      BY <1>4, <2>2
    <3>2. k \in Counts
      BY <1>3, <1>5, <1>6, Counting DEF TypeOK
    <3> QED
      BY <1>1, <1>5, <3>1, <3>2 DEF TypeOK
  <2> QED
    BY <2>1, <2>2
<1>15. cpc' \in {"stop", "admit"} /\ (cpc' = "admit" <=> k = m)
  BY <1>4
<1>16. /\ ~HasPending /\ (HasPending' <=> k > 0)
       /\ \A t \in Streams : Taken(t)' = 0
       /\ Pending(s)' = k /\ \A t \in Streams \ {s} : Pending(t)' = 0
  BY <1>5, <1>6, <1>14, <1>15 DEF HasPending, Taken, Pending
<1>17. inflight' \in 0 .. 3 /\ Pins'
  <2>1. /\ Bit(Pinned_By("stdout")) \in {0, 1} /\ Bit(Pinned_By("stderr")) \in {0, 1}
        /\ Bit(rpc # "none") \in {0, 1}
    BY BitValues
  <2>2. inflight = Bit(Pinned_By("stdout")) + Bit(Pinned_By("stderr")) + Bit(rpc # "none")
    BY <1>16, <2>1 DEF BoundsInv, Pins, Bit
  <2>3. k > 0 => Bit(Pinned_By("stdout")) + Bit(Pinned_By("stderr")) <= 1
    <3>1. k > 0 => ~Pinned_By("stdout") \/ ~Pinned_By("stderr")
      BY <1>6 DEF Pinned_By, Streams
    <3> QED
      BY <2>1, <3>1 DEF Bit
  <2>4. Bit(HasPending') = IF k > 0 THEN 1 ELSE 0
    BY <1>16 DEF Bit
  <2>5. /\ (Pinned_By("stdout")' <=> Pinned_By("stdout"))
        /\ (Pinned_By("stderr")' <=> Pinned_By("stderr")) /\ rpc' = rpc
    BY <1>5 DEF Pinned_By, sender, writers
  <2>6. inflight' = inflight + IF k > 0 THEN 1 ELSE 0
    BY <1>4, <1>6
  <2>7. inflight' = Bit(Pinned_By("stdout")) + Bit(Pinned_By("stderr"))
                    + Bit(HasPending') + Bit(rpc # "none")
    BY <1>6, <2>1, <2>2, <2>4, <2>6
  <2>8. Pins'
    BY <2>5, <2>7 DEF Pins, Bit
  <2>9. inflight' \in 0 .. 3
    BY <1>6, <2>1, <2>2, <2>3, <2>6
  <2> QED
    BY <2>8, <2>9
<1>18. TypeOK' /\ snap' \in FactType
  <2>1. reserved' \in [Streams -> Counts] /\ discarded' \in [Streams -> Counts]
    BY <1>4, <1>5, <1>12 DEF TypeOK
  <2>2. prefix' \in [Streams -> BOOLEAN]
    BY <1>4, <1>5 DEF TypeOK
  <2>3. stopped' \in BOOLEAN
    BY <1>4, <1>5 DEF TypeOK
  <2>4. snap' \in FactType
    BY <1>5 DEF sender
  <2> QED
    BY <1>5, <1>14, <1>15, <1>17, <2>1, <2>2, <2>3, <2>4 DEF TypeOK, control, sender, writers, woken
<1>19. ASSUME NEW t \in Streams PROVE StreamInv(t)'
  <2>1. StreamInv(t)
    BY DEF BoundsInv
  <2>2. CASE t = s
    <3>1. /\ read[s] = retained[s] + (reserved[s] + k) + (discarded[s] + m - k) + 0
          /\ k = m => discarded[s] + m - k = discarded[s]
      BY <1>6, <1>9, <1>11
    <3>2. reserved[s] + k = left[s] + k
      BY <1>6, <1>9, <1>10, <2>1, <2>2 DEF StreamInv
    <3>3. (~stopped' => ~stopped /\ k = m) /\ (prefix'[s] => prefix[s] /\ k = m)
      BY <1>4, <1>13
    <3>4. /\ prefix'[s] => discarded'[s] = 0 /\ ~fault'[s]
          /\ ~stopped' => discarded'[s] = 0
      BY <1>5, <1>13, <2>1, <2>2, <3>1, <3>3 DEF StreamInv
    <3> QED
      BY <1>5, <1>13, <1>16, <2>1, <2>2, <3>1, <3>2, <3>4 DEF StreamInv, sender, writers
  <2>3. CASE t # s
    <3>1. ~stopped' => ~stopped
      BY <1>4
    <3> QED
      BY <1>5, <1>10, <1>13, <1>16, <2>1, <2>3, <3>1 DEF StreamInv, sender, writers
  <2> QED
    BY <2>2, <2>3
<1>20. (Charged <= Limit)'
  <2>1. /\ retained["stdout"] \in Nat /\ retained["stderr"] \in Nat
        /\ reserved["stdout"] \in Nat /\ reserved["stderr"] \in Nat
    BY <1>5, Amounts DEF Streams
  <2>2. Charged' = Charged + k
    <3>1. CASE s = "stdout"
      BY <1>5, <1>6, <1>13, <2>1, <3>1 DEF Charged, Streams
    <3>2. CASE s = "stderr"
      BY <1>5, <1>6, <1>13, <2>1, <3>2 DEF Charged, Streams
    <3> QED
      BY <3>1, <3>2 DEF Streams
  <2> QED
    BY <1>6, <2>2
<1>21. HandInv'
  BY <1>5, <1>6, <1>14, <1>15, <1>16 DEF HandInv, writers
<1>22. ViewInv'
  BY <1>15 DEF ViewInv
<1>23. Excess'
  <2>1. Faulty' <=> Faulty
    BY <1>5 DEF Faulty, writers
  <2> SUFFICES ASSUME ~Faulty
               PROVE  discarded'["stdout"] + discarded'["stderr"] <= 0 + Bit(stopped')
    BY <1>5, <1>8, <2>1 DEF Excess
  <2>2. ~stopped /\ m - k <= 1 /\ \A t \in Streams : discarded[t] = 0
    BY <1>6 DEF BoundsInv, StreamInv
  <2>3. discarded'[s] = m - k /\ \A t \in Streams \ {s} : discarded'[t] = 0
    BY <1>6, <1>13, <2>2
  <2>4. discarded'["stdout"] + discarded'["stderr"] = m - k
    <3>1. CASE s = "stdout"
      BY <1>6, <2>3, <3>1 DEF Streams
    <3>2. CASE s = "stderr"
      BY <1>6, <2>3, <3>2 DEF Streams
    <3> QED
      BY <3>1, <3>2 DEF Streams
  <2>5. CASE k = m
    <3>1. Bit(stopped') \in {0, 1}
      BY BitValues
    <3> QED
      BY <1>6, <2>4, <2>5, <3>1
  <2>6. CASE k # m
    <3>1. Bit(stopped') = 1
      BY <1>4, <2>6 DEF Bit
    <3> QED
      BY <1>6, <2>2, <2>4, <3>1
  <2> QED
    BY <2>5, <2>6
<1>24. TailInv'
  BY <1>5, <1>8 DEF TailInv, control
<1>25. EndInv'
  BY <1>5, <1>7 DEF BoundsInv, EndInv, Collected, sender
<1> QED
  BY <1>17, <1>18, <1>19, <1>20, <1>21, <1>22, <1>23, <1>24, <1>25 DEF BoundsInv

LEMMA StopStep == ASSUME BoundsInv, Stop PROVE BoundsInv'
<1>1. /\ UNCHANGED <<facts, streamFacts, sender, view, tail, hand, writers, read>>
      /\ cpc = "stop" /\ cpc' = (IF hand.len = 0 THEN "top" ELSE "admit")
      /\ cwoken' \in BOOLEAN /\ swoken' \in BOOLEAN
      /\ TypeOK /\ HandInv /\ TailInv /\ snap \in FactType
  BY DEF BoundsInv, Stop, NotifyWaiters, facts
<1>2. /\ UNCHANGED <<exit, verified, absent>>
      /\ cancel' \in {"ready", "active", "settled", "failed"}
      /\ finish' \in {"none", "set", "due"}
  BY <1>1, HardenedStarts DEF Stop
<1>3. hand.len \in Nat /\ cpc' \in {"top", "admit"}
  BY <1>1, Counting DEF TypeOK
<1>4. TypeOK' /\ snap' \in FactType
  <2>1. snap' \in FactType
    BY <1>1 DEF sender
  <2> QED
    BY <1>1, <1>2, <1>3, <2>1 DEF TypeOK, facts, streamFacts, sender, writers
<1>5. /\ (HasPending' <=> HasPending)
      /\ \A s \in Streams : Taken(s)' = Taken(s) /\ Pending(s)' = Pending(s)
  BY <1>1, <1>3 DEF HasPending, Taken, Pending
<1>6. ASSUME NEW s \in Streams PROVE StreamInv(s)'
  <2>1. StreamInv(s) /\ Taken(s)' = Taken(s) /\ Pending(s)' = Pending(s)
    BY <1>5 DEF BoundsInv
  <2> QED
    BY <1>1, <2>1 DEF StreamInv, facts, streamFacts, sender, writers
<1>7. (Charged <= Limit)' /\ Pins' /\ Excess'
  BY <1>1, <1>5 DEF BoundsInv, Charged, Pins, Pinned_By, Bit, Excess, Faulty, facts, streamFacts,
                    sender, writers
<1>8. HandInv'
  <2>1. cpc' = "admit" => hand'.len > 0
    BY <1>1, <1>3
  <2>2. cpc' = "top" => hand'.len = 0
    BY <1>1
  <2>3. HasPending' => wpc'[hand'.stream] = "idle" /\ hand'.at = retained'[hand'.stream]
    BY <1>1, <1>5 DEF HandInv, facts, streamFacts, writers
  <2> QED
    BY <1>3, <2>1, <2>2, <2>3 DEF HandInv
<1>9. ViewInv'
  BY <1>3 DEF ViewInv
<1>10. TailInv'
  BY <1>1, <1>2 DEF TailInv, WritersBack, facts, writers
<1>11. EndInv'
  BY <1>1 DEF BoundsInv, EndInv, Collected, facts, streamFacts, sender
<1> QED
  BY <1>4, <1>6, <1>7, <1>8, <1>9, <1>10, <1>11 DEF BoundsInv

(* The reservation and its pin pass to the writer.                          *)
LEMMA AdmitStep == ASSUME BoundsInv, Admit PROVE BoundsInv'
<1>1. PICK s \in Streams : s = hand.stream
  BY DEF BoundsInv, TypeOK
<1>2. /\ UNCHANGED <<facts, streamFacts, control, sender, view, tail, woken, read>>
      /\ wpc' = [wpc EXCEPT ![s] = "write"]
      /\ left' = [left EXCEPT ![s] = hand.len]
      /\ src' = [src EXCEPT ![s] = hand.at]
      /\ hand' = NoHand /\ cpc = "admit" /\ cpc' = "top"
      /\ TypeOK /\ HandInv /\ TailInv /\ Pins /\ snap \in FactType
  BY <1>1 DEF BoundsInv, Admit, outsiders, facts
<1>3. /\ HasPending /\ hand.len > 0 /\ wpc[s] = "idle" /\ hand.at = retained[s]
      /\ hand.len \in Counts /\ hand.at \in Counts
  BY <1>1, <1>2 DEF HandInv, HasPending, TypeOK
<1>4. hand' \in [stream : Streams, len : Counts, at : Counts] /\ hand'.len = 0
  BY <1>2, Counting DEF NoHand, Streams
<1>5. ~HasPending' /\ \A t \in Streams : Taken(t)' = 0 /\ Pending(t)' = 0
  BY <1>4 DEF HasPending, Taken, Pending
<1>6. /\ Pending(s) = hand.len /\ \A t \in Streams : Taken(t) = 0
      /\ \A t \in Streams \ {s} : Pending(t) = 0
  BY <1>1, <1>2 DEF Taken, Pending
<1>7. /\ wpc'[s] = "write" /\ left'[s] = hand.len /\ src'[s] = hand.at
      /\ \A t \in Streams \ {s} : wpc'[t] = wpc[t] /\ left'[t] = left[t] /\ src'[t] = src[t]
  BY <1>2 DEF TypeOK
<1>8. TypeOK' /\ snap' \in FactType
  <2>1. /\ left' \in [Streams -> Counts] /\ src' \in [Streams -> Counts]
    BY <1>2, <1>3 DEF TypeOK
  <2>2. wpc' \in [Streams -> {"idle", "write", "fault", "start", "unpin", "back"}]
    BY <1>2 DEF TypeOK
  <2>3. snap' \in FactType
    BY <1>2 DEF sender
  <2> QED
    BY <1>2, <1>4, <2>1, <2>2, <2>3 DEF TypeOK, facts, streamFacts, control, sender, woken
<1>9. ASSUME NEW t \in Streams PROVE StreamInv(t)'
  <2>1. StreamInv(t)
    BY DEF BoundsInv
  <2>2. CASE t = s
    <3>1. left[s] = 0 /\ reserved[s] = left[s] + hand.len
      BY <1>3, <1>6, <2>1, <2>2 DEF StreamInv
    <3>2. hand.len \in Nat
      BY <1>2, Amounts
    <3>3. reserved[s] = hand.len + 0
      BY <3>1, <3>2
    <3> QED
      BY <1>2, <1>3, <1>5, <1>6, <1>7, <2>1, <2>2, <3>3 DEF StreamInv, facts, streamFacts, sender
  <2>3. CASE t # s
    BY <1>2, <1>5, <1>6, <1>7, <2>1, <2>3 DEF StreamInv, facts, streamFacts, sender
  <2> QED
    BY <2>2, <2>3
<1>10. Pins'
  <2>1. /\ ~Pinned_By(s) /\ Pinned_By(s)'
        /\ \A t \in Streams \ {s} : Pinned_By(t)' <=> Pinned_By(t)
    BY <1>3, <1>7 DEF Pinned_By
  <2>2. CASE s = "stdout"
    BY <1>2, <1>3, <1>5, <2>1, <2>2 DEF Pins, Bit, Streams, facts, sender
  <2>3. CASE s = "stderr"
    BY <1>2, <1>3, <1>5, <2>1, <2>3 DEF Pins, Bit, Streams, facts, sender
  <2> QED
    BY <2>2, <2>3 DEF Streams
<1>11. HandInv' /\ ViewInv'
  BY <1>2, <1>4, <1>5 DEF HandInv, ViewInv
<1>12. Faulty' <=> Faulty
  BY <1>2, <1>3, <1>7 DEF Faulty, facts, streamFacts
<1>13. (Charged <= Limit)' /\ Excess'
  BY <1>2, <1>12 DEF BoundsInv, Charged, Excess, facts, streamFacts
<1>14. TailInv'
  <2>1. tail = "none"
    BY <1>2, <1>3 DEF TailInv
  <2> QED
    BY <1>2, <2>1 DEF TailInv, facts, control
<1>15. EndInv'
  BY <1>2 DEF BoundsInv, EndInv, Collected, facts, streamFacts, sender
<1> QED
  BY <1>8, <1>9, <1>10, <1>11, <1>13, <1>14, <1>15 DEF BoundsInv

-----------------------------------------------------------------------------
LEMMA Inductive == BoundsInv /\ [Next]_vars => BoundsInv'
<1> SUFFICES ASSUME BoundsInv, [Next]_vars PROVE BoundsInv'
    OBVIOUS
<1>1. CASE Clock
  BY <1>1, ControlStep, TailPassesStep DEF Clock
<1>2. CASE Owner
  BY <1>2, ControlStep DEF Owner
<1>3. CASE Collector
  <2>1. CASE Top
    BY <2>1, TopStep
  <2>2. CASE Decide
    BY <2>2, DecideStep
  <2>3. CASE Wake
    BY <2>3, WakeStep DEF Streams
  <2>4. CASE \E s \in Streams : WriteBack(s)
    BY <2>4, WakeStep
  <2>5. CASE Reserve
    BY <2>5, ReserveStep
  <2>6. CASE Stop
    BY <2>6, StopStep
  <2>7. CASE Admit
    BY <2>7, AdmitStep
  <2> QED
    BY <1>3, <2>1, <2>2, <2>3, <2>4, <2>5, <2>6, <2>7 DEF Collector
<1>4. CASE Pipe
  <2>1. PICK s \in Streams : ReadSome(s) \/ ReadEof(s) \/ ReadError(s)
    BY <1>4 DEF Pipe
  <2>2. CASE ReadSome(s)
    BY <2>2, ReadTailStep, ReadHandStep
  <2>3. CASE ReadEof(s)
    BY <2>3, WakeStep
  <2>4. CASE ReadError(s)
    BY <2>4, ReadErrorStep
  <2> QED
    BY <2>1, <2>2, <2>3, <2>4
<1>5. CASE Storage
  <2>1. PICK s \in Streams : WriteSome(s) \/ WriteDone(s) \/ WriteFails(s)
    BY <1>5 DEF Storage
  <2> QED
    BY <2>1, WriteSomeStep, WriterUnpinsStep, WriteFailsStep
<1>6. CASE Worker
  <2>1. PICK s \in Streams : WriteFault(s) \/ WriteStart(s) \/ Unpin(s)
    BY <1>6 DEF Worker
  <2> QED
    BY <2>1, WriteFaultStep, WriterUnpinsStep, UnpinStep
<1>7. CASE Replay
  BY <1>7, ReplayReadsStep, ReplayFaultStep, ReplayUnpinStep DEF Replay
<1>8. CASE Sender
  BY <1>8, SnapStep, GateStep, SendFrameStep, CheckStep DEF Sender
<1>9. CASE Attach \/ Detach
  BY <1>9, AttachStep, DetachStep
<1>10. CASE UNCHANGED vars
  <2>1. ControlMove
    BY <1>10 DEF ControlMove, outside, vars, control, woken, BoundsInv, TypeOK, TailInv
  <2> QED
    BY <2>1, ControlKeeps
<1> QED
  BY <1>1, <1>2, <1>3, <1>4, <1>5, <1>6, <1>7, <1>8, <1>9, <1>10 DEF Next

LEMMA Invariance == Spec => []BoundsInv
<1> QED
  BY InitInv, Inductive, PTL DEF Spec

-----------------------------------------------------------------------------
(* The budget is kept: what is retained and reserved never exceeds the      *)
(* limit, every byte read is retained, reserved, counted as discarded or in *)
(* hand, one byte too many is read before the tail unless a file fails, and *)
(* the tail waits for the group and the writers (bounds.rs collect,         *)
(* write_prefix).                                                           *)
THEOREM BudgetKept == Spec => []Budget
<1>1. BoundsInv => Budget
  <2> SUFFICES ASSUME BoundsInv PROVE Budget
      OBVIOUS
  <2>1. TypeOK /\ WithinLimit
    BY DEF BoundsInv, WithinLimit
  <2>2. Accounted
    BY DEF BoundsInv, StreamInv, Taken, Accounted
  <2>3. OneExcess
    <3>1. /\ discarded["stdout"] \in Nat /\ discarded["stderr"] \in Nat /\ tailRead \in Nat
          /\ Bit(stopped) \in {0, 1}
      BY <2>1, Amounts, BitValues DEF Streams
    <3> QED
      BY <3>1 DEF BoundsInv, Excess, Faulty, OneExcess
  <2>4. TailAfterGroup
    BY DEF BoundsInv, TailInv, TailAfterGroup
  <2> QED
    BY <2>1, <2>2, <2>3, <2>4 DEF Budget
<1> QED
  BY <1>1, Invariance, PTL

(* The spool is a prefix of what the command printed: a writer appends the  *)
(* next byte, the collector starts one only when its file is back, and a    *)
(* prefix called complete is all there was (bounds.rs collect, fact).       *)
THEOREM PrefixFaithful == Spec => []Prefix
<1>1. BoundsInv => Prefix
  <2> SUFFICES ASSUME BoundsInv PROVE Prefix
      OBVIOUS
  <2>1. Faithful
    BY DEF BoundsInv, StreamInv, Faithful
  <2>2. OneWriter
    BY DEF BoundsInv, HandInv, HasPending, OneWriter
  <2> QED
    BY <2>1, <2>2, TruthOfComplete DEF Prefix
<1> QED
  BY <1>1, Invariance, PTL

(* What is announced as over is over: sealed facts have no worker and no    *)
(* reservation behind them, and a client told the end of replay has every   *)
(* byte retained (bounds.rs fact, send_output).                             *)
THEOREM EndIsFinal == Spec => []Final
<1>1. BoundsInv => Final
  <2> SUFFICES ASSUME BoundsInv PROVE Final
      OBVIOUS
  <2>1. SealedQuiet
    BY Quiet DEF Sealed, SealedQuiet
  <2>2. EndFinal
    <3> SUFFICES ASSUME spc = "ended"
                 PROVE  /\ pos = retained /\ Collected /\ reserved = Zero
                        /\ \A s \in Streams : wpc[s] \in {"idle", "back"}
                        /\ snap.complete => pos = read
        BY DEF EndFinal
    <3>1. /\ Collected /\ inflight = 0 /\ pos = retained
          /\ snap.complete => pos = read
      BY DEF BoundsInv, EndInv
    <3>2. \A s \in Streams : wpc[s] \in {"idle", "back"} /\ reserved[s] = 0
      BY <3>1, Quiet
    <3>3. reserved = Zero
      BY <3>2 DEF BoundsInv, TypeOK, Zero
    <3> QED
      BY <3>1, <3>2, <3>3
  <2> QED
    BY <2>1, <2>2 DEF Final
<1> QED
  BY <1>1, Invariance, PTL
=============================================================================
