-------------------------- MODULE StdinStreamProofs --------------------------
(***************************************************************************)
(* Theorems about StdinStream for every set of connections, every limit    *)
(* and every kind of session.                                              *)
(***************************************************************************)
EXTENDS StdinStream, TLAPS

(* Who may act: generations are issued once, the slot holds none or the     *)
(* newest, it belongs to a live task, and whoever lost it is being told.    *)
AuthorityInv ==
    /\ current \in {NoGen, nextGen - 1}
    /\ \A c \in Conns : gen[c] < nextGen
    /\ \A c \in Conns : pc[c] = "closed" <=> gen[c] = NoGen
    /\ \A c, d \in Conns : c # d /\ gen[c] = gen[d] => gen[c] = NoGen
    /\ current # NoGen => \E c \in Conns : gen[c] = current
    /\ \A c \in Conns :
          pc[c] \notin {"closed", "leaving"} /\ gen[c] # current => cancel[c]

(* child_stdin is held exactly by the task that is working on a frame. *)
LockInv == \A c \in Conns : lock = c <=> pc[c] \in Holding

(* Receipts promise no more than was accepted. *)
ReceiptInv == \A c \in Conns : ack[c] <= position /\ receipt[c] <= position

(* Which bytes were written, and by whom. *)
DeliveryInv ==
    /\ ExactlyOnce
    /\ TakeoverOrder
    /\ \A b \in Bytes : by[b] < nextGen

IInv == TypeOK /\ AuthorityInv /\ LockInv /\ EofExact /\ ReceiptInv /\ DeliveryInv

-----------------------------------------------------------------------------
(* Facts about the operators the steps are built from.                      *)

LEMMA EmptyFrameType == EmptyFrame \in Frames
BY ConstantsAssumption DEF EmptyFrame, Frames, Positions

(* stdin_frame_start_locked: what it answers for a frame it lets through.   *)
LEMMA FrameStart ==
    ASSUME position \in Positions, NEW f \in Frames
    PROVE  /\ Start(f) \in 0 .. f.len
           /\ Logical(f) \in Positions
           /\ Logical(f) >= position
           /\ FrameAllowed(f) => Logical(f) + (f.len - Start(f)) <= MaxPos
           /\ Start(f) < f.len => f.offset + Start(f) = Logical(f)
           /\ f.len = 0 => Start(f) = 0
BY ConstantsAssumption DEF Positions, Frames, Start, Logical, FrameAllowed

-----------------------------------------------------------------------------
(* Types.                                                                   *)

LEMMA TypeInit == Init => TypeOK
<1> SUFFICES ASSUME Init PROVE TypeOK
    OBVIOUS
<1> USE ConstantsAssumption DEF Init, Positions, Undeclared, NoGen, Bytes
<1>1. nextGen \in 1 .. MaxGen /\ current \in 0 .. MaxGen /\ gen \in [Conns -> 0 .. MaxGen]
  OBVIOUS
<1>2. position \in Positions /\ eofAt \in Positions \cup {Undeclared}
  OBVIOUS
<1>3. eofReached \in BOOLEAN /\ stdinOpen \in BOOLEAN /\ nobuffer \in BOOLEAN
      /\ optedIn \in BOOLEAN /\ piped \in BOOLEAN
      /\ recorded \in {"nothing", "exit", "assumed", "failure"}
  OBVIOUS
<1>4. lock \in Conns \cup {NoConn} /\ pc \in [Conns -> PCs]
  BY DEF PCs
<1>5. cancel \in [Conns -> BOOLEAN] /\ frame \in [Conns -> Frames]
  BY EmptyFrameType
<1>6. ack \in [Conns -> Positions] /\ receipt \in [Conns -> Positions]
  OBVIOUS
<1>7. times \in [Bytes -> Nat] /\ by \in [Bytes -> 0 .. MaxGen]
  OBVIOUS
<1> QED
  BY <1>1, <1>2, <1>3, <1>4, <1>5, <1>6, <1>7 DEF TypeOK

(* Every step keeps every variable in its range: the position never passes  *)
(* the largest offset, because checked_end bounds the frame it comes from.  *)
LEMMA TypeStep == TypeOK /\ [Next]_vars => TypeOK'
<1> SUFFICES ASSUME TypeOK, [Next]_vars PROVE TypeOK'
    OBVIOUS
<1> USE ConstantsAssumption DEF TypeOK, authority, stream, ending, session, history, Goto,
                                FrameDone, PCs
<1>1. ASSUME NEW c \in Conns, NEW force \in BOOLEAN, Install(c, force)
      PROVE  TypeOK'
  BY <1>1 DEF Install
<1>2. ASSUME NEW c \in Conns, NEW force \in BOOLEAN, Refuse(c, force)
      PROVE  TypeOK'
  BY <1>2 DEF Refuse, vars
<1>3. ASSUME NEW c \in Conns, OffsetsAhead(c) PROVE TypeOK'
  BY <1>3 DEF OffsetsAhead
<1>4. ASSUME NEW c \in Conns, OffsetsChecked(c) PROVE TypeOK'
  BY <1>4 DEF OffsetsChecked
<1>5. ASSUME NEW c \in Conns, NEW start \in Positions,
             NEW requested \in Positions \cup {Undeclared},
             OpeningStdin(c, start, requested)
      PROVE  TypeOK'
  BY <1>5 DEF OpeningStdin, EffectiveEof, Resumed
<1>6. ASSUME NEW c \in Conns, Snapshot(c) PROVE TypeOK'
  BY <1>6 DEF Snapshot
<1>7. ASSUME NEW c \in Conns, SendHello(c) PROVE TypeOK'
  BY <1>7 DEF SendHello, Positions
<1>8. ASSUME NEW c \in Conns, FailOpening(c) PROVE TypeOK'
  BY <1>8 DEF FailOpening, CompareClear, NoGen
<1>9. ASSUME NEW c \in Conns, Leave(c) PROVE TypeOK'
  BY <1>9 DEF Leave, CompareClear, NoGen, Positions
<1>10. ASSUME NEW c \in Conns, NEW f \in Frames, ReceiveData(c, f)
      PROVE  TypeOK'
  BY <1>10 DEF ReceiveData
<1>11. ASSUME NEW c \in Conns, NEW offset \in Positions, ReceiveEof(c, offset)
      PROVE  TypeOK'
  BY <1>11 DEF ReceiveEof, Frames
<1>12. ASSUME NEW c \in Conns, LockForData(c) PROVE TypeOK'
  BY <1>12 DEF LockForData
<1>13. ASSUME NEW c \in Conns, AcceptEmpty(c) PROVE TypeOK'
  BY <1>13, FrameStart DEF AcceptEmpty
<1>14. ASSUME NEW c \in Conns, AcceptEof(c) PROVE TypeOK'
  BY <1>14 DEF AcceptEof, DeclareEof, Frames
<1>15. ASSUME NEW c \in Conns, IgnoreFrame(c) PROVE TypeOK'
  BY <1>15, EmptyFrameType DEF IgnoreFrame
<1>16. ASSUME NEW c \in Conns, RefuseFrame(c) PROVE TypeOK'
  BY <1>16, EmptyFrameType DEF RefuseFrame
<1>17. ASSUME NEW c \in Conns, AbandonWrite(c) PROVE TypeOK'
  BY <1>17, EmptyFrameType DEF AbandonWrite
<1>18. ASSUME NEW c \in Conns, FindDuplicate(c) PROVE TypeOK'
  BY <1>18 DEF FindDuplicate
<1>19. ASSUME NEW c \in Conns, NEW count \in 1 .. MaxLen, WritePoll(c, count)
      PROVE  TypeOK'
  <2> DEFINE f == frame[c]
             to == Logical(f) + count
  <2>1. f \in Frames /\ count <= f.len - Start(f) /\ FrameAllowed(f)
    BY <1>19 DEF WritePoll
  <2>2. to \in Positions
    BY <2>1, FrameStart DEF Positions, Frames
  <2>3. times' \in [Bytes -> Nat] /\ by' \in [Bytes -> 0 .. MaxGen]
    BY <1>19 DEF WritePoll
  <2> QED
    BY <1>19, <2>2, <2>3 DEF WritePoll
<1>20. ASSUME NEW c \in Conns, Publish(c) PROVE TypeOK'
  BY <1>20, EmptyFrameType DEF Publish, Receipted, Positions
<1>21. ASSUME NEW c \in Conns, Drop(c) PROVE TypeOK'
  BY <1>21, EmptyFrameType DEF Drop
<1>22. ASSUME NEW offset \in Positions, ControlEof(offset) PROVE TypeOK'
  BY <1>22 DEF ControlEof, DeclareEof
<1>23. ASSUME RecordExit \/ WaitFails PROVE TypeOK'
  BY <1>23 DEF RecordExit, WaitFails, Waited
<1>24. ASSUME TakeStdin PROVE TypeOK'
  BY <1>24 DEF TakeStdin
<1>25. ASSUME NEW c \in Conns, Attach(c) PROVE TypeOK'
  BY <1>25, <1>1, <1>2, <1>3, <1>4, <1>5, <1>6, <1>7, <1>8, <1>9 DEF Attach
<1>26. ASSUME NEW c \in Conns, Input(c) PROVE TypeOK'
  BY <1>26, <1>10, <1>11, <1>12, <1>13, <1>14, <1>15, <1>16, <1>17, <1>18,
     <1>19, <1>20, <1>21 DEF Input
<1>27. ASSUME Command PROVE TypeOK'
  BY <1>27, <1>22, <1>23, <1>24 DEF Command
<1>28. CASE UNCHANGED vars
  BY <1>28 DEF vars
<1> QED
  BY <1>25, <1>26, <1>27, <1>28 DEF Next

(* Every variable stays in its range: no offset and no generation of a      *)
(* session ever wraps around.                                               *)
THEOREM TypeCorrect == Spec => []TypeOK
<1>1. Init => TypeOK
  BY TypeInit
<1>2. TypeOK /\ [Next]_vars => TypeOK'
  BY TypeStep
<1> QED
  BY <1>1, <1>2, PTL DEF Spec

-----------------------------------------------------------------------------
(* Who may act.                                                             *)

(* A generation is given to one task, the slot belongs to it until its own  *)
(* guard clears it or a takeover, which cancels it, replaces it.            *)
LEMMA AuthorityStep == TypeOK /\ AuthorityInv /\ [Next]_vars => AuthorityInv'
<1> SUFFICES ASSUME TypeOK, AuthorityInv, [Next]_vars PROVE AuthorityInv'
    OBVIOUS
<1> USE ConstantsAssumption DEF TypeOK, AuthorityInv, authority, stream,
                                ending, session, history, Goto, IsCurrent, PCs, NoGen
<1>1. ASSUME NEW c \in Conns, NEW force \in BOOLEAN, Install(c, force)
      PROVE  AuthorityInv'
  BY <1>1 DEF Install, Displaced
<1>2. ASSUME NEW c \in Conns, NEW force \in BOOLEAN, Refuse(c, force)
      PROVE  AuthorityInv'
  BY <1>2 DEF Refuse, vars
<1>3. ASSUME NEW c \in Conns, OffsetsAhead(c) PROVE AuthorityInv'
  BY <1>3 DEF OffsetsAhead
<1>4. ASSUME NEW c \in Conns, OffsetsChecked(c) PROVE AuthorityInv'
  BY <1>4 DEF OffsetsChecked
<1>5. ASSUME NEW c \in Conns, NEW start \in Positions,
             NEW requested \in Positions \cup {Undeclared},
             OpeningStdin(c, start, requested)
      PROVE  AuthorityInv'
  BY <1>5 DEF OpeningStdin
<1>6. ASSUME NEW c \in Conns, Snapshot(c) PROVE AuthorityInv'
  BY <1>6 DEF Snapshot
<1>7. ASSUME NEW c \in Conns, SendHello(c) PROVE AuthorityInv'
  BY <1>7 DEF SendHello
<1>8. ASSUME NEW c \in Conns, FailOpening(c) PROVE AuthorityInv'
  BY <1>8 DEF FailOpening, CompareClear
<1>9. ASSUME NEW c \in Conns, Leave(c) PROVE AuthorityInv'
  BY <1>9 DEF Leave, CompareClear
<1>10. ASSUME NEW c \in Conns, NEW f \in Frames, ReceiveData(c, f)
      PROVE  AuthorityInv'
  BY <1>10 DEF ReceiveData
<1>11. ASSUME NEW c \in Conns, NEW offset \in Positions, ReceiveEof(c, offset)
      PROVE  AuthorityInv'
  BY <1>11 DEF ReceiveEof
<1>12. ASSUME NEW c \in Conns, LockForData(c) PROVE AuthorityInv'
  BY <1>12 DEF LockForData
<1>13. ASSUME NEW c \in Conns, AcceptEmpty(c) PROVE AuthorityInv'
  BY <1>13 DEF AcceptEmpty
<1>14. ASSUME NEW c \in Conns, AcceptEof(c) PROVE AuthorityInv'
  BY <1>14 DEF AcceptEof
<1>15. ASSUME NEW c \in Conns, IgnoreFrame(c) PROVE AuthorityInv'
  BY <1>15 DEF IgnoreFrame
<1>16. ASSUME NEW c \in Conns, RefuseFrame(c) PROVE AuthorityInv'
  BY <1>16 DEF RefuseFrame
<1>17. ASSUME NEW c \in Conns, AbandonWrite(c) PROVE AuthorityInv'
  BY <1>17 DEF AbandonWrite
<1>18. ASSUME NEW c \in Conns, FindDuplicate(c) PROVE AuthorityInv'
  BY <1>18 DEF FindDuplicate
<1>19. ASSUME NEW c \in Conns, NEW count \in 1 .. MaxLen, WritePoll(c, count)
      PROVE  AuthorityInv'
  BY <1>19 DEF WritePoll
<1>20. ASSUME NEW c \in Conns, Publish(c) PROVE AuthorityInv'
  BY <1>20 DEF Publish
<1>21. ASSUME NEW c \in Conns, Drop(c) PROVE AuthorityInv'
  BY <1>21 DEF Drop, Selecting
<1>22. ASSUME NEW offset \in Positions, ControlEof(offset) PROVE AuthorityInv'
  BY <1>22 DEF ControlEof
<1>23. ASSUME RecordExit \/ WaitFails PROVE AuthorityInv'
  BY <1>23 DEF RecordExit, WaitFails, Waited
<1>24. ASSUME TakeStdin PROVE AuthorityInv'
  BY <1>24 DEF TakeStdin
<1>25. ASSUME NEW c \in Conns, Attach(c) PROVE AuthorityInv'
  BY <1>25, <1>1, <1>2, <1>3, <1>4, <1>5, <1>6, <1>7, <1>8, <1>9 DEF Attach
<1>26. ASSUME NEW c \in Conns, Input(c) PROVE AuthorityInv'
  BY <1>26, <1>10, <1>11, <1>12, <1>13, <1>14, <1>15, <1>16, <1>17, <1>18,
     <1>19, <1>20, <1>21 DEF Input
<1>27. ASSUME Command PROVE AuthorityInv'
  BY <1>27, <1>22, <1>23, <1>24 DEF Command
<1>28. CASE UNCHANGED vars
  BY <1>28 DEF vars
<1> QED
  BY <1>25, <1>26, <1>27, <1>28 DEF Next

(* child_stdin is taken by a task that starts a frame and given back where  *)
(* the frame ends or its future is dropped.                                 *)
LEMMA LockStep == TypeOK /\ LockInv /\ [Next]_vars => LockInv'
<1> SUFFICES ASSUME TypeOK, LockInv, [Next]_vars PROVE LockInv'
    OBVIOUS
<1> USE ConstantsAssumption DEF TypeOK, LockInv, authority, stream, ending, session, history,
                                Goto, PCs, Holding
<1>1. ASSUME NEW c \in Conns, NEW force \in BOOLEAN, Install(c, force)
      PROVE  LockInv'
  BY <1>1 DEF Install
<1>2. ASSUME NEW c \in Conns, NEW force \in BOOLEAN, Refuse(c, force)
      PROVE  LockInv'
  BY <1>2 DEF Refuse, vars
<1>3. ASSUME NEW c \in Conns, OffsetsAhead(c) PROVE LockInv'
  BY <1>3 DEF OffsetsAhead
<1>4. ASSUME NEW c \in Conns, OffsetsChecked(c) PROVE LockInv'
  BY <1>4 DEF OffsetsChecked
<1>5. ASSUME NEW c \in Conns, NEW start \in Positions,
             NEW requested \in Positions \cup {Undeclared},
             OpeningStdin(c, start, requested)
      PROVE  LockInv'
  BY <1>5 DEF OpeningStdin
<1>6. ASSUME NEW c \in Conns, Snapshot(c) PROVE LockInv'
  BY <1>6 DEF Snapshot
<1>7. ASSUME NEW c \in Conns, SendHello(c) PROVE LockInv'
  BY <1>7 DEF SendHello
<1>8. ASSUME NEW c \in Conns, FailOpening(c) PROVE LockInv'
  BY <1>8 DEF FailOpening
<1>9. ASSUME NEW c \in Conns, Leave(c) PROVE LockInv'
  BY <1>9 DEF Leave
<1>10. ASSUME NEW c \in Conns, NEW f \in Frames, ReceiveData(c, f)
      PROVE  LockInv'
  BY <1>10 DEF ReceiveData
<1>11. ASSUME NEW c \in Conns, NEW offset \in Positions, ReceiveEof(c, offset)
      PROVE  LockInv'
  BY <1>11 DEF ReceiveEof
<1>12. ASSUME NEW c \in Conns, LockForData(c) PROVE LockInv'
  BY <1>12 DEF LockForData
<1>13. ASSUME NEW c \in Conns, AcceptEmpty(c) PROVE LockInv'
  BY <1>13 DEF AcceptEmpty
<1>14. ASSUME NEW c \in Conns, AcceptEof(c) PROVE LockInv'
  BY <1>14 DEF AcceptEof
<1>15. ASSUME NEW c \in Conns, IgnoreFrame(c) PROVE LockInv'
  BY <1>15 DEF IgnoreFrame
<1>16. ASSUME NEW c \in Conns, RefuseFrame(c) PROVE LockInv'
  BY <1>16 DEF RefuseFrame
<1>17. ASSUME NEW c \in Conns, AbandonWrite(c) PROVE LockInv'
  BY <1>17 DEF AbandonWrite
<1>18. ASSUME NEW c \in Conns, FindDuplicate(c) PROVE LockInv'
  BY <1>18 DEF FindDuplicate
<1>19. ASSUME NEW c \in Conns, NEW count \in 1 .. MaxLen, WritePoll(c, count)
      PROVE  LockInv'
  BY <1>19 DEF WritePoll
<1>20. ASSUME NEW c \in Conns, Publish(c) PROVE LockInv'
  BY <1>20 DEF Publish
<1>21. ASSUME NEW c \in Conns, Drop(c) PROVE LockInv'
  BY <1>21 DEF Drop, Selecting
<1>22. ASSUME NEW offset \in Positions, ControlEof(offset) PROVE LockInv'
  BY <1>22 DEF ControlEof
<1>23. ASSUME RecordExit \/ WaitFails PROVE LockInv'
  BY <1>23 DEF RecordExit, WaitFails, Waited
<1>24. ASSUME TakeStdin PROVE LockInv'
  BY <1>24 DEF TakeStdin
<1>25. ASSUME NEW c \in Conns, Attach(c) PROVE LockInv'
  BY <1>25, <1>1, <1>2, <1>3, <1>4, <1>5, <1>6, <1>7, <1>8, <1>9 DEF Attach
<1>26. ASSUME NEW c \in Conns, Input(c) PROVE LockInv'
  BY <1>26, <1>10, <1>11, <1>12, <1>13, <1>14, <1>15, <1>16, <1>17, <1>18,
     <1>19, <1>20, <1>21 DEF Input
<1>27. ASSUME Command PROVE LockInv'
  BY <1>27, <1>22, <1>23, <1>24 DEF Command
<1>28. CASE UNCHANGED vars
  BY <1>28 DEF vars
<1> QED
  BY <1>25, <1>26, <1>27, <1>28 DEF Next

-----------------------------------------------------------------------------
(* The stream is touched in six places.                                     *)

Quiet ==
    /\ UNCHANGED <<stream, history, nobuffer, optedIn, piped>>
    /\ nextGen' \in {nextGen, nextGen + 1}
    /\ recorded # "nothing" => recorded' # "nothing"

LEMMA StreamSteps ==
    ASSUME TypeOK, [Next]_vars
    PROVE  \/ Quiet
           \/ \E c \in Conns, start \in Positions, requested \in Positions \cup {Undeclared} :
                 OpeningStdin(c, start, requested)
           \/ \E c \in Conns : AcceptEmpty(c) \/ AcceptEof(c)
           \/ \E c \in Conns, count \in 1 .. MaxLen : WritePoll(c, count)
           \/ \E offset \in Positions : ControlEof(offset)
           \/ TakeStdin
<1> USE DEF Quiet, stream, ending, session, history, TypeOK
<1>1. ASSUME NEW c \in Conns, Attach(c)
      PROVE  \/ Quiet
             \/ \E start \in Positions, requested \in Positions \cup {Undeclared} :
                   OpeningStdin(c, start, requested)
  BY <1>1 DEF Attach, Install, Refuse, vars, OffsetsAhead, OffsetsChecked, Snapshot,
              SendHello, FailOpening, Leave, authority
<1>2. ASSUME NEW c \in Conns, Input(c)
      PROVE  \/ Quiet
             \/ AcceptEmpty(c) \/ AcceptEof(c)
             \/ \E count \in 1 .. MaxLen : WritePoll(c, count)
  BY <1>2 DEF Input, ReceiveData, ReceiveEof, LockForData, IgnoreFrame, RefuseFrame,
              AbandonWrite, FindDuplicate, Publish, Drop, authority
<1>3. CASE Command
  BY <1>3 DEF Command, RecordExit, WaitFails, Waited, authority
<1>4. CASE UNCHANGED vars
  BY <1>4 DEF vars
<1> QED
  BY <1>1, <1>2, <1>3, <1>4 DEF Next

Meets ==
    /\ eofReached <=> eofAt = position
    /\ eofAt # Undeclared => position <= eofAt
    /\ eofReached => ~stdinOpen
Ended == ~stdinOpen => eofReached \/ recorded # "nothing" \/ ~piped

(* Six paths move the position, the declared end or both; each compares     *)
(* them in the critical section in which it moves them.  What a path must   *)
(* do for that is in the assumptions of this lemma.                         *)
LEMMA Compared ==
    ASSUME TypeOK, Meets,
           position' \in Nat, eofAt' \in Nat \cup {Undeclared}, position <= position',
           eofAt # Undeclared => eofAt' = eofAt,
           eofAt' # Undeclared => position' <= eofAt',
           eofReached' = (eofReached \/ eofAt' = position'),
           stdinOpen' = (stdinOpen /\ ~(eofAt' = position'))
    PROVE  Meets'
<1> USE DEF Meets
<1>0. position \in Nat /\ eofAt \in Nat \cup {Undeclared}
  BY ConstantsAssumption DEF TypeOK, Positions
<1>1. eofReached => eofAt' = position'
  <2>1. SUFFICES ASSUME eofReached PROVE eofAt' = position'
    OBVIOUS
  <2>2. eofAt = position
    BY <2>1
  <2> QED
    BY <2>2, <1>0, SMT DEF Undeclared
<1>2. eofReached' <=> eofAt' = position'
  BY <1>1, Zenon
<1>3. eofReached' => ~stdinOpen'
  BY <1>2, Zenon
<1> QED
  BY <1>2, <1>3, Zenon

LEMMA DeclareStep ==
    ASSUME TypeOK, Meets, NEW offset \in Positions, DeclareEof(offset)
    PROVE  Meets'
<1>1. /\ offset \in Nat /\ position \in Nat /\ position' = position
      /\ eofAt' = offset /\ position <= offset /\ eofAt \in {Undeclared, offset}
  BY ConstantsAssumption DEF TypeOK, Positions, DeclareEof, EofAllowed
<1>2. /\ eofReached' = (eofReached \/ offset = position)
      /\ stdinOpen' = (stdinOpen /\ ~(offset = position))
  BY DEF DeclareEof
<1> QED
  BY <1>1, <1>2, Compared

LEMMA MeetStep == TypeOK /\ Meets /\ [Next]_vars => Meets'
<1> SUFFICES ASSUME TypeOK, Meets, [Next]_vars PROVE Meets'
    OBVIOUS
<1>0. /\ position \in Positions /\ position \in Nat /\ eofAt \in Nat \cup {Undeclared}
      /\ eofReached \in BOOLEAN /\ stdinOpen \in BOOLEAN
      /\ frame \in [Conns -> Frames]
  BY ConstantsAssumption DEF TypeOK, Positions
<1>1. ASSUME NEW c \in Conns, NEW start \in Positions,
             NEW requested \in Positions \cup {Undeclared},
             OpeningStdin(c, start, requested)
      PROVE  Meets'
  <2>1. CASE IsCurrent(c) /\ OpeningAllowed(start, requested)
    <3>1. /\ position' = Resumed(start) /\ eofAt' = EffectiveEof(requested)
          /\ eofReached' = (eofReached \/ eofAt' = position')
          /\ stdinOpen' = (stdinOpen /\ ~(eofAt' = position'))
      BY <1>1, <2>1 DEF OpeningStdin
    <3>2. start \in Nat /\ requested \in Nat \cup {Undeclared}
      BY ConstantsAssumption DEF Positions
    <3>3. /\ position' \in Nat /\ position <= position'
          /\ eofAt' \in Nat \cup {Undeclared}
      BY <1>0, <3>1, <3>2 DEF Resumed, EffectiveEof
    <3>4. eofAt # Undeclared => eofAt' = eofAt
      BY <2>1, <3>1 DEF OpeningAllowed, EffectiveEof
    <3>5. eofAt' # Undeclared => position' <= eofAt'
      BY <2>1, <3>1 DEF OpeningAllowed
    <3> QED
      BY <3>1, <3>3, <3>4, <3>5, Compared
  <2>2. CASE ~(IsCurrent(c) /\ OpeningAllowed(start, requested))
    BY <1>1, <2>2 DEF OpeningStdin, stream, Meets
  <2> QED
    BY <2>1, <2>2
<1>2. ASSUME NEW c \in Conns, AcceptEmpty(c) PROVE Meets'
  <2> DEFINE to == Logical(frame[c])
  <2>1. /\ frame[c] \in Frames /\ frame[c].len = 0 /\ FrameAllowed(frame[c])
        /\ position' = to /\ eofAt' = eofAt /\ eofReached' = (eofAt' = to)
        /\ stdinOpen' = (stdinOpen /\ ~(eofAt' = to))
    BY <1>0, <1>2 DEF AcceptEmpty
  <2>2. Start(frame[c]) \in 0 .. frame[c].len /\ to \in Positions
    BY <1>0, <2>1, FrameStart
  <2>3. to \in Nat /\ position <= to /\ (eofAt # Undeclared => to <= eofAt)
    BY <1>0, <2>1, <2>2, ConstantsAssumption DEF FrameAllowed, Logical, Positions, Frames
  <2>4. ~eofReached
    BY <2>1 DEF FrameAllowed
  <2>5. eofReached' = (eofReached \/ eofAt' = to)
    BY <2>1, <2>4
  <2> HIDE DEF to
  <2> QED
    BY <1>0, <2>1, <2>3, <2>5, Compared
<1>3. ASSUME NEW c \in Conns, AcceptEof(c) PROVE Meets'
  <2>1. frame[c].offset \in Positions /\ DeclareEof(frame[c].offset)
    BY <1>0, <1>3 DEF AcceptEof, Frames
  <2> QED
    BY <2>1, DeclareStep
<1>4. ASSUME NEW c \in Conns, NEW count \in 1 .. MaxLen, WritePoll(c, count)
      PROVE  Meets'
  <2> DEFINE to == Logical(frame[c]) + count
  <2>1. /\ frame[c] \in Frames /\ FrameAllowed(frame[c]) /\ stdinOpen
        /\ count <= frame[c].len - Start(frame[c])
        /\ position' = to /\ eofAt' = eofAt /\ eofReached' = (eofAt' = to)
        /\ stdinOpen' = ~(eofAt' = to)
    BY <1>0, <1>4 DEF WritePoll
  <2>2. Start(frame[c]) \in 0 .. frame[c].len /\ Logical(frame[c]) \in Positions
    BY <1>0, <2>1, FrameStart
  <2>3. to \in Nat /\ position <= to /\ (eofAt # Undeclared => to <= eofAt)
    BY <1>0, <2>1, <2>2, ConstantsAssumption DEF FrameAllowed, Logical, Positions, Frames
  <2>4. ~eofReached
    BY <2>1 DEF FrameAllowed
  <2>5. eofReached' = (eofReached \/ eofAt' = to)
    BY <2>1, <2>4
  <2>6. stdinOpen' = (stdinOpen /\ ~(eofAt' = to))
    BY <2>1
  <2> HIDE DEF to
  <2> QED
    BY <1>0, <2>1, <2>3, <2>5, <2>6, Compared
<1>5. ASSUME NEW offset \in Positions, ControlEof(offset) PROVE Meets'
  BY <1>5, DeclareStep DEF ControlEof
<1>6. ASSUME TakeStdin PROVE Meets'
  BY <1>6 DEF TakeStdin, Meets
<1>7. CASE Quiet
  BY <1>7 DEF Quiet, stream, Meets
<1> QED
  BY <1>1, <1>2, <1>3, <1>4, <1>5, <1>6, <1>7, StreamSteps

(* Whoever closes stdin has reached the end, or has recorded a result.      *)
LEMMA EndedStep == TypeOK /\ Ended /\ [Next]_vars => Ended'
<1> SUFFICES ASSUME TypeOK, Ended, [Next]_vars PROVE Ended'
    OBVIOUS
<1> USE ConstantsAssumption DEF TypeOK, Ended, ending, session
<1>1. ASSUME NEW c \in Conns, NEW start \in Positions,
             NEW requested \in Positions \cup {Undeclared},
             OpeningStdin(c, start, requested)
      PROVE  Ended'
  BY <1>1 DEF OpeningStdin, stream
<1>2. ASSUME NEW c \in Conns, AcceptEmpty(c) PROVE Ended'
  BY <1>2 DEF AcceptEmpty, FrameAllowed
<1>3. ASSUME NEW c \in Conns, AcceptEof(c) PROVE Ended'
  BY <1>3 DEF AcceptEof, DeclareEof
<1>4. ASSUME NEW c \in Conns, NEW count \in 1 .. MaxLen, WritePoll(c, count)
      PROVE  Ended'
  BY <1>4 DEF WritePoll
<1>5. ASSUME NEW offset \in Positions, ControlEof(offset) PROVE Ended'
  BY <1>5 DEF ControlEof, DeclareEof
<1>6. ASSUME TakeStdin PROVE Ended'
  BY <1>6 DEF TakeStdin
<1>7. CASE Quiet
  BY <1>7 DEF Quiet, stream
<1> QED
  BY <1>1, <1>2, <1>3, <1>4, <1>5, <1>6, <1>7, StreamSteps

LEMMA EofStep == TypeOK /\ EofExact /\ [Next]_vars => EofExact'
<1>1. EofExact <=> Meets /\ Ended
  BY DEF EofExact, Meets, Ended
<1>2. EofExact' <=> Meets' /\ Ended'
  BY DEF EofExact, Meets, Ended
<1> QED
  BY <1>1, <1>2, MeetStep, EndedStep

(* A receipt is a position read under child_stdin, and positions only grow. *)
LEMMA ReceiptStep == TypeOK /\ ReceiptInv /\ [Next]_vars => ReceiptInv'
<1> SUFFICES ASSUME TypeOK, ReceiptInv, [Next]_vars PROVE ReceiptInv'
    OBVIOUS
<1> USE ConstantsAssumption DEF TypeOK, ReceiptInv, authority, stream,
                                ending, session, history, Positions
<1>1. ASSUME NEW c \in Conns, NEW force \in BOOLEAN, Install(c, force)
      PROVE  ReceiptInv'
  BY <1>1 DEF Install
<1>2. ASSUME NEW c \in Conns, NEW force \in BOOLEAN, Refuse(c, force)
      PROVE  ReceiptInv'
  BY <1>2 DEF Refuse, vars
<1>3. ASSUME NEW c \in Conns, OffsetsAhead(c) PROVE ReceiptInv'
  BY <1>3 DEF OffsetsAhead
<1>4. ASSUME NEW c \in Conns, OffsetsChecked(c) PROVE ReceiptInv'
  BY <1>4 DEF OffsetsChecked
<1>5. ASSUME NEW c \in Conns, NEW start \in Positions,
             NEW requested \in Positions \cup {Undeclared},
             OpeningStdin(c, start, requested)
      PROVE  ReceiptInv'
  BY <1>5 DEF OpeningStdin, OpeningAllowed, EffectiveEof, Resumed
<1>6. ASSUME NEW c \in Conns, Snapshot(c) PROVE ReceiptInv'
  BY <1>6 DEF Snapshot
<1>7. ASSUME NEW c \in Conns, SendHello(c) PROVE ReceiptInv'
  BY <1>7 DEF SendHello
<1>8. ASSUME NEW c \in Conns, FailOpening(c) PROVE ReceiptInv'
  BY <1>8 DEF FailOpening
<1>9. ASSUME NEW c \in Conns, Leave(c) PROVE ReceiptInv'
  BY <1>9 DEF Leave
<1>10. ASSUME NEW c \in Conns, NEW f \in Frames, ReceiveData(c, f)
      PROVE  ReceiptInv'
  BY <1>10 DEF ReceiveData
<1>11. ASSUME NEW c \in Conns, NEW offset \in Positions, ReceiveEof(c, offset)
      PROVE  ReceiptInv'
  BY <1>11 DEF ReceiveEof
<1>12. ASSUME NEW c \in Conns, LockForData(c) PROVE ReceiptInv'
  BY <1>12 DEF LockForData
<1>13. ASSUME NEW c \in Conns, AcceptEmpty(c) PROVE ReceiptInv'
  BY <1>13, FrameStart DEF AcceptEmpty
<1>14. ASSUME NEW c \in Conns, AcceptEof(c) PROVE ReceiptInv'
  BY <1>14 DEF AcceptEof, DeclareEof
<1>15. ASSUME NEW c \in Conns, IgnoreFrame(c) PROVE ReceiptInv'
  BY <1>15 DEF IgnoreFrame
<1>16. ASSUME NEW c \in Conns, RefuseFrame(c) PROVE ReceiptInv'
  BY <1>16 DEF RefuseFrame
<1>17. ASSUME NEW c \in Conns, AbandonWrite(c) PROVE ReceiptInv'
  BY <1>17 DEF AbandonWrite
<1>18. ASSUME NEW c \in Conns, FindDuplicate(c) PROVE ReceiptInv'
  BY <1>18 DEF FindDuplicate
<1>19. ASSUME NEW c \in Conns, NEW count \in 1 .. MaxLen, WritePoll(c, count)
      PROVE  ReceiptInv'
  BY <1>19, FrameStart DEF WritePoll
<1>20. ASSUME NEW c \in Conns, Publish(c) PROVE ReceiptInv'
  BY <1>20 DEF Publish, Receipted
<1>21. ASSUME NEW c \in Conns, Drop(c) PROVE ReceiptInv'
  BY <1>21 DEF Drop
<1>22. ASSUME NEW offset \in Positions, ControlEof(offset) PROVE ReceiptInv'
  BY <1>22 DEF ControlEof, DeclareEof
<1>23. ASSUME RecordExit \/ WaitFails PROVE ReceiptInv'
  BY <1>23 DEF RecordExit, WaitFails, Waited
<1>24. ASSUME TakeStdin PROVE ReceiptInv'
  BY <1>24 DEF TakeStdin
<1>25. ASSUME NEW c \in Conns, Attach(c) PROVE ReceiptInv'
  BY <1>25, <1>1, <1>2, <1>3, <1>4, <1>5, <1>6, <1>7, <1>8, <1>9 DEF Attach
<1>26. ASSUME NEW c \in Conns, Input(c) PROVE ReceiptInv'
  BY <1>26, <1>10, <1>11, <1>12, <1>13, <1>14, <1>15, <1>16, <1>17, <1>18,
     <1>19, <1>20, <1>21 DEF Input
<1>27. ASSUME Command PROVE ReceiptInv'
  BY <1>27, <1>22, <1>23, <1>24 DEF Command
<1>28. CASE UNCHANGED vars
  BY <1>28 DEF vars
<1> QED
  BY <1>25, <1>26, <1>27, <1>28 DEF Next

(* Bytes appended at the position, or beyond it where gaps are allowed, are *)
(* new, and the newest generation is their writer.                          *)
LEMMA AppendDelivers ==
    ASSUME TypeOK, DeliveryInv, NEW from \in Positions, NEW to \in Positions,
           from >= position, ~nobuffer => from = position,
           position' = to, to > from, nextGen' = nextGen, nobuffer' = nobuffer,
           times' = [b \in Bytes |-> IF from <= b /\ b < to THEN times[b] + 1 ELSE times[b]],
           by' = [b \in Bytes |-> IF from <= b /\ b < to THEN nextGen - 1 ELSE by[b]]
    PROVE  DeliveryInv'
<1>1. /\ position \in Nat /\ from \in Nat /\ to \in Nat /\ nextGen \in Nat /\ nextGen >= 1
      /\ times \in [Bytes -> Nat] /\ by \in [Bytes -> Nat] /\ Bytes \subseteq Nat
  BY ConstantsAssumption DEF TypeOK, Positions, Bytes
<1>2. ASSUME NEW b \in Bytes
      PROVE  /\ times[b] \in Nat /\ by[b] \in Nat /\ b \in Nat
             /\ times[b] <= 1
             /\ b >= position => times[b] = 0
             /\ b < position /\ ~nobuffer => times[b] = 1
             /\ by[b] < nextGen
             /\ times'[b] = IF from <= b /\ b < to THEN times[b] + 1 ELSE times[b]
             /\ by'[b] = IF from <= b /\ b < to THEN nextGen - 1 ELSE by[b]
  BY <1>1 DEF DeliveryInv, ExactlyOnce
<1>3. ExactlyOnce'
  BY <1>1, <1>2 DEF ExactlyOnce
<1>4. ASSUME NEW a \in Bytes, NEW b \in Bytes, a < b, times'[a] > 0, times'[b] > 0
      PROVE  by'[a] <= by'[b]
  <2>1. times[a] > 0 /\ times[b] > 0 => by[a] <= by[b]
    BY <1>4 DEF DeliveryInv, TakeoverOrder
  <2>2. CASE from <= b /\ b < to
    BY <1>1, <1>2, <1>4, <2>2
  <2>3. CASE ~(from <= b /\ b < to)
    BY <1>1, <1>2, <1>4, <2>1, <2>3
  <2> QED
    BY <2>2, <2>3
<1>5. TakeoverOrder'
  BY <1>4 DEF TakeoverOrder
<1>6. \A b \in Bytes : by'[b] < nextGen'
  BY <1>1, <1>2
<1> QED
  BY <1>3, <1>5, <1>6 DEF DeliveryInv

(* A poll of the write is such an append: the part of the frame it starts   *)
(* from lies exactly at the position that it moves.                         *)
LEMMA WriteDelivers ==
    ASSUME TypeOK, AuthorityInv, DeliveryInv,
           NEW c \in Conns, NEW count \in 1 .. MaxLen, WritePoll(c, count)
    PROVE  DeliveryInv'
<1> DEFINE f == frame[c]
           to == Logical(f) + count
<1>1. /\ f \in Frames /\ f.len \in Nat /\ f.offset \in Nat
      /\ count \in Nat /\ count >= 1 /\ count <= f.len - Start(f)
      /\ FrameAllowed(f) /\ position \in Positions
  BY ConstantsAssumption DEF TypeOK, WritePoll, Frames, Positions
<1>2. /\ Start(f) \in 0 .. f.len
      /\ Logical(f) \in Positions
      /\ Logical(f) >= position
      /\ Logical(f) + (f.len - Start(f)) <= MaxPos
      /\ Start(f) < f.len => f.offset + Start(f) = Logical(f)
  BY <1>1, FrameStart
<1>3. ~nobuffer => Logical(f) = position
  BY <1>1 DEF FrameAllowed, Logical, Positions
<1>4. /\ position' = to /\ nextGen' = nextGen /\ nobuffer' = nobuffer
      /\ gen[c] = nextGen - 1
      /\ times' = [b \in Bytes |-> IF f.offset + Start(f) <= b /\ b < f.offset + Start(f) + count
                                   THEN times[b] + 1 ELSE times[b]]
      /\ by' = [b \in Bytes |-> IF f.offset + Start(f) <= b /\ b < f.offset + Start(f) + count
                                THEN gen[c] ELSE by[b]]
  BY DEF WritePoll, IsCurrent, AuthorityInv, TypeOK, PCs, NoGen, authority, ending, session
<1> HIDE DEF f
<1>5. /\ Logical(f) = f.offset + Start(f)
      /\ to \in Positions
      /\ to > Logical(f)
  BY <1>1, <1>2, ConstantsAssumption DEF Positions
<1> QED
  BY <1>2, <1>3, <1>4, <1>5, AppendDelivers

(* A write appends at the position, by the newest generation there is.      *)
LEMMA DeliveryStep == TypeOK /\ AuthorityInv /\ DeliveryInv /\ [Next]_vars => DeliveryInv'
<1> SUFFICES ASSUME TypeOK, AuthorityInv, DeliveryInv, [Next]_vars PROVE DeliveryInv'
    OBVIOUS
<1> USE ConstantsAssumption DEF TypeOK, DeliveryInv, ExactlyOnce,
                                TakeoverOrder, authority, stream, ending, session, history,
                                  Positions, Bytes
<1>1. ASSUME NEW c \in Conns, NEW start \in Positions,
             NEW requested \in Positions \cup {Undeclared},
             OpeningStdin(c, start, requested)
      PROVE  DeliveryInv'
  <2>1. /\ position' >= position /\ position' \in Positions
        /\ ~nobuffer => position' = position
        /\ UNCHANGED <<times, by, nextGen, nobuffer>>
    BY <1>1 DEF OpeningStdin, OpeningAllowed, Resumed
  <2> QED
    BY <2>1
<1>2. ASSUME NEW c \in Conns, AcceptEmpty(c) PROVE DeliveryInv'
  BY <1>2, FrameStart DEF AcceptEmpty, FrameAllowed, Logical
<1>3. ASSUME NEW c \in Conns, AcceptEof(c) PROVE DeliveryInv'
  BY <1>3 DEF AcceptEof, DeclareEof
<1>4. ASSUME NEW c \in Conns, NEW count \in 1 .. MaxLen, WritePoll(c, count)
      PROVE  DeliveryInv'
  BY <1>4, WriteDelivers
<1>5. ASSUME NEW offset \in Positions, ControlEof(offset) PROVE DeliveryInv'
  BY <1>5 DEF ControlEof, DeclareEof
<1>6. ASSUME TakeStdin PROVE DeliveryInv'
  BY <1>6 DEF TakeStdin
<1>7. CASE Quiet
  BY <1>7 DEF Quiet
<1> QED
  BY <1>1, <1>2, <1>3, <1>4, <1>5, <1>6, <1>7, StreamSteps

-----------------------------------------------------------------------------
(* The inductive invariant and what follows from it.                        *)

LEMMA InvInit == Init => IInv
<1> SUFFICES ASSUME Init PROVE IInv
    OBVIOUS
<1>1. TypeOK
  BY TypeInit
<1>2. AuthorityInv /\ LockInv /\ ReceiptInv
  BY ConstantsAssumption
     DEF Init, AuthorityInv, LockInv, ReceiptInv, NoGen, Holding
<1>3. EofExact /\ DeliveryInv
  BY DEF Init, EofExact, Undeclared, DeliveryInv, ExactlyOnce, TakeoverOrder, NoGen, Bytes
<1> QED
  BY <1>1, <1>2, <1>3 DEF IInv

(* Each part is preserved on its own, delivery with the help of authority.  *)
LEMMA InvStep == IInv /\ [Next]_vars => IInv'
BY TypeStep, AuthorityStep, LockStep, EofStep, ReceiptStep, DeliveryStep DEF IInv

THEOREM Invariance == Spec => []IInv
<1>1. Init => IInv
  BY InvInit
<1>2. IInv /\ [Next]_vars => IInv'
  BY InvStep
<1> QED
  BY <1>1, <1>2, PTL DEF Spec

(* No byte of the command's stdin is lost, repeated or written out of turn, *)
(* whatever clients attach, displace one another, resend or vanish.         *)
THEOREM Delivery == Spec => []InOrderOnce
<1>1. IInv => InOrderOnce
  BY DEF IInv, DeliveryInv, InOrderOnce
<1> QED
  BY <1>1, Invariance, PTL

(* The command's stdin ends exactly at the declared end.                    *)
THEOREM EndOfInput == Spec => []EofExact
<1>1. IInv => EofExact
  BY DEF IInv
<1> QED
  BY <1>1, Invariance, PTL

(* What a client was told is accepted is accepted.                          *)
THEOREM Receipts == Spec => []ReceiptsCovered
<1>1. IInv => ReceiptsCovered
  <2> SUFFICES ASSUME IInv, NEW c \in Conns
               PROVE  /\ ack[c] <= position
                      /\ receipt[c] <= position
                      /\ \A b \in Bytes : b < ack[c] /\ ~nobuffer => times[b] = 1
      BY DEF ReceiptsCovered
  <2>1. ack[c] <= position /\ receipt[c] <= position
    BY DEF IInv, ReceiptInv
  <2>2. ack[c] \in Nat /\ position \in Nat /\ Bytes \subseteq Nat
    BY ConstantsAssumption DEF IInv, TypeOK, Positions, Bytes
  <2>3. ASSUME NEW b \in Bytes, b < ack[c], ~nobuffer PROVE times[b] = 1
    <3>1. b < position
      BY <2>1, <2>2, <2>3
    <3> QED
      BY <2>3, <3>1 DEF IInv, DeliveryInv, ExactlyOnce
  <2> QED
    BY <2>1, <2>3
<1> QED
  BY <1>1, Invariance, PTL

(* An occupied session has an occupant, and a writer that lost its session  *)
(* has been told to let go of the stdin lock.                               *)
THEOREM Occupancy == Spec => []Occupied
<1>1. IInv => SlotOwned
  BY DEF IInv, AuthorityInv, SlotOwned
<1>2. IInv => HolderCancellable
  BY DEF IInv, AuthorityInv, HolderCancellable, IsCurrent, Selecting, Holding
<1>3. IInv => Occupied
  BY <1>1, <1>2 DEF Occupied
<1> QED
  BY <1>3, Invariance, PTL

-----------------------------------------------------------------------------
(* Takeover fences the stream.                                              *)

NewestActs == stream' # stream /\ pc' # pc
                => \E c \in Conns : pc'[c] # pc[c] /\ gen[c] = nextGen - 1
NewestTold == \A c \in Conns : ack'[c] > ack[c] => gen[c] = nextGen - 1
Newest ==
    /\ stream' # stream /\ pc' # pc
            => \E c \in Conns : pc'[c] # pc[c] /\ gen[c] = nextGen - 1
    /\ \A c \in Conns : ack'[c] > ack[c] => gen[c] = nextGen - 1

(* Whoever changes the stream has found itself current in the same step,    *)
(* and the slot never holds anything but the newest generation.             *)
LEMMA FenceStep == TypeOK /\ AuthorityInv /\ [Next]_vars => NewestActs
<1> SUFFICES ASSUME TypeOK, AuthorityInv, [Next]_vars PROVE NewestActs
    OBVIOUS
<1> USE ConstantsAssumption DEF TypeOK, AuthorityInv, NewestActs, authority,
                                stream, ending, session, history
<1>1. ASSUME NEW c \in Conns, NEW start \in Positions,
             NEW requested \in Positions \cup {Undeclared},
             OpeningStdin(c, start, requested)
      PROVE  NewestActs
  BY <1>1 DEF OpeningStdin, Goto, IsCurrent, NoGen, PCs
<1>2. ASSUME NEW c \in Conns, AcceptEmpty(c) PROVE NewestActs
  BY <1>2 DEF AcceptEmpty, Goto, IsCurrent, NoGen, PCs
<1>3. ASSUME NEW c \in Conns, AcceptEof(c) PROVE NewestActs
  BY <1>3 DEF AcceptEof, Goto, IsCurrent, NoGen, PCs
<1>4. ASSUME NEW c \in Conns, NEW count \in 1 .. MaxLen, WritePoll(c, count)
      PROVE  NewestActs
  BY <1>4 DEF WritePoll, Goto, IsCurrent, NoGen, PCs
<1>5. ASSUME NEW offset \in Positions, ControlEof(offset) PROVE NewestActs
  BY <1>5 DEF ControlEof
<1>6. ASSUME TakeStdin PROVE NewestActs
  BY <1>6 DEF TakeStdin
<1>7. CASE Quiet
  BY <1>7 DEF Quiet
<1> QED
  BY <1>1, <1>2, <1>3, <1>4, <1>5, <1>6, <1>7, StreamSteps

(* A receipt is promised by the hello and by publish_receipt, and each has  *)
(* found the connection current in the step in which it does so.            *)
LEMMA PromiseStep == TypeOK /\ AuthorityInv /\ [Next]_vars => NewestTold
<1> SUFFICES ASSUME TypeOK, AuthorityInv, [Next]_vars PROVE NewestTold
    OBVIOUS
<1>1. \/ UNCHANGED ack
      \/ \E c \in Conns : SendHello(c) \/ Leave(c) \/ Publish(c)
  <2>1. ASSUME NEW c \in Conns, Attach(c)
        PROVE  UNCHANGED ack \/ SendHello(c) \/ Leave(c)
    BY <2>1 DEF Attach, Install, Refuse, vars, OffsetsAhead, OffsetsChecked, OpeningStdin,
                Snapshot, FailOpening
  <2>2. ASSUME NEW c \in Conns, Input(c) PROVE UNCHANGED ack \/ Publish(c)
    BY <2>2 DEF Input, ReceiveData, ReceiveEof, LockForData, AcceptEmpty, AcceptEof,
                IgnoreFrame, RefuseFrame, AbandonWrite, FindDuplicate, WritePoll, Drop
  <2>3. CASE Command
    BY <2>3 DEF Command, ControlEof, RecordExit, WaitFails, Waited, TakeStdin
  <2>4. CASE UNCHANGED vars
    BY <2>4 DEF vars
  <2> QED
    BY <2>1, <2>2, <2>3, <2>4 DEF Next
<1>2. \A c \in Conns : ack[c] \in Nat
  BY ConstantsAssumption DEF TypeOK, Positions
<1>3. ASSUME NEW c \in Conns, NEW d \in Conns, SendHello(c), ack'[d] > ack[d]
      PROVE  gen[d] = nextGen - 1
  BY <1>2, <1>3 DEF SendHello, IsCurrent, AuthorityInv, TypeOK, NoGen
<1>4. ASSUME NEW c \in Conns, NEW d \in Conns, Leave(c) PROVE ~(ack'[d] > ack[d])
  BY <1>2, <1>4 DEF Leave, TypeOK
<1>5. ASSUME NEW c \in Conns, NEW d \in Conns, Publish(c), ack'[d] > ack[d]
      PROVE  gen[d] = nextGen - 1
  BY <1>2, <1>5 DEF Publish, Receipted, IsCurrent, AuthorityInv, TypeOK, NoGen
<1> QED
  BY <1>1, <1>2, <1>3, <1>4, <1>5 DEF NewestTold

(* A connection that changes the stream, or is promised a receipt, is the   *)
(* newest one ever admitted.                                                *)
THEOREM Fencing == Spec => FencedStream
<1>1. IInv /\ [Next]_vars => [Newest]_vars
  BY FenceStep, PromiseStep DEF IInv, Newest, NewestActs, NewestTold
<1>2. FencedStream <=> [][Newest]_vars
  BY DEF FencedStream, Newest
<1> QED
  BY <1>1, <1>2, Invariance, PTL DEF Spec

-----------------------------------------------------------------------------
(* The broker implements the pipe.                                          *)

PipeStep == [Pipe!Next]_(Pipe!pipe)

(* A poll of the write delivers; opening, an empty frame and either EOF      *)
(* announce; taking stdin after the exit ends the pipe; the rest is unseen. *)
LEMMA PipeSteps == TypeOK /\ [Next]_vars => PipeStep
<1> SUFFICES ASSUME TypeOK, [Next]_vars PROVE PipeStep
    OBVIOUS
<1> USE ConstantsAssumption DEF TypeOK, PipeStep, Pipe!pipe, stream, ending, session, history,
                                Positions
<1>1. ASSUME NEW c \in Conns, NEW start \in Positions,
             NEW requested \in Positions \cup {Undeclared},
             OpeningStdin(c, start, requested)
      PROVE  PipeStep
  <2>1. CASE IsCurrent(c) /\ OpeningAllowed(start, requested)
    <3>1. Pipe!Announce(Resumed(start), EffectiveEof(requested))
      BY <1>1, <2>1 DEF OpeningStdin, OpeningAllowed, Resumed, EffectiveEof, Undeclared,
                        Pipe!Announce, Pipe!Within
    <3> QED
      BY <3>1 DEF Pipe!Next, Pipe!Offsets, Resumed, EffectiveEof, Undeclared
  <2>2. CASE ~(IsCurrent(c) /\ OpeningAllowed(start, requested))
    BY <1>1, <2>2 DEF OpeningStdin
  <2> QED
    BY <2>1, <2>2
<1>2. ASSUME NEW c \in Conns, AcceptEmpty(c) PROVE PipeStep
  <2> DEFINE to == Logical(frame[c])
  <2>1. to \in Positions /\ to + (frame[c].len - Start(frame[c])) <= MaxPos
        /\ Start(frame[c]) = 0 /\ frame[c].len = 0 /\ frame[c].offset \in Nat
    BY <1>2, FrameStart DEF AcceptEmpty, Frames
  <2>2. /\ to = position \/ (nobuffer /\ to > position)
        /\ eofAt # Undeclared => to <= eofAt
    BY <1>2, <2>1 DEF AcceptEmpty, FrameAllowed, Logical
  <2>3. Pipe!Announce(to, eofAt)
    BY <1>2, <2>2 DEF AcceptEmpty, Pipe!Announce, Pipe!Within, Undeclared
  <2> QED
    BY <2>1, <2>3 DEF Pipe!Next, Pipe!Offsets, Undeclared
<1>3. ASSUME NEW c \in Conns, AcceptEof(c) PROVE PipeStep
  <2>1. Pipe!Announce(position, frame[c].offset)
    BY <1>3 DEF AcceptEof, DeclareEof, EofAllowed, Undeclared, Pipe!Announce, Pipe!Within
  <2> QED
    BY <2>1 DEF Pipe!Next, Pipe!Offsets, Frames
<1>4. ASSUME NEW c \in Conns, NEW count \in 1 .. MaxLen, WritePoll(c, count)
      PROVE  PipeStep
  <2> DEFINE f == frame[c]
             from == f.offset + Start(f)
             to == Logical(f) + count
  <2>1. /\ f \in Frames /\ f.len \in Nat /\ f.offset \in Nat
        /\ count \in Nat /\ count >= 1 /\ count <= f.len - Start(f)
        /\ FrameAllowed(f)
    BY <1>4 DEF WritePoll, Frames
  <2>2. /\ Start(f) \in 0 .. f.len
        /\ Logical(f) \in Positions
        /\ Logical(f) >= position
        /\ Logical(f) + (f.len - Start(f)) <= MaxPos
        /\ Start(f) < f.len => f.offset + Start(f) = Logical(f)
    BY <2>1, FrameStart
  <2>3. /\ from = Logical(f) /\ from \in Positions
        /\ to \in Positions /\ from < to
        /\ eofAt # Undeclared => to <= eofAt
    BY <2>1, <2>2 DEF FrameAllowed
  <2>4. from = position \/ (nobuffer /\ from > position)
    BY <2>1, <2>2, <2>3 DEF FrameAllowed, Logical
  <2>5. Pipe!Deliver(from, to)
    BY <1>4, <2>1, <2>2, <2>3, <2>4 DEF WritePoll, Pipe!Deliver, Pipe!Within, Undeclared, Bytes
  <2> QED
    BY <2>3, <2>5 DEF Pipe!Next, Pipe!Offsets
<1>5. ASSUME NEW offset \in Positions, ControlEof(offset) PROVE PipeStep
  <2>1. Pipe!Announce(position, offset)
    BY <1>5 DEF ControlEof, DeclareEof, EofAllowed, Undeclared, Pipe!Announce, Pipe!Within
  <2> QED
    BY <2>1 DEF Pipe!Next, Pipe!Offsets
<1>6. ASSUME TakeStdin PROVE PipeStep
  BY <1>6 DEF TakeStdin, Pipe!Next, Pipe!Exit
<1>7. CASE Quiet
  BY <1>7 DEF Quiet
<1> QED
  BY <1>1, <1>2, <1>3, <1>4, <1>5, <1>6, <1>7, StreamSteps

(* Seen from the command, a broker is a pipe with one end.                  *)
THEOREM Refinement == Spec => ImplementsPipe
<1>1. Init => Pipe!Init
  BY DEF Init, Pipe!Init, Undeclared, Bytes
<1>2. TypeOK /\ [Next]_vars => [Pipe!Next]_(Pipe!pipe)
  BY PipeSteps DEF PipeStep
<1> QED
  BY <1>1, <1>2, TypeCorrect, PTL DEF Spec, ImplementsPipe, Pipe!Spec

=============================================================================
