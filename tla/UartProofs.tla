----------------------------- MODULE UartProofs -----------------------------
(* Proofs about Uart for every set of byte values and every bound: the     *)
(* types, that no wake-up is lost, and that the class implements ByteFifo. *)
EXTENDS Uart, SequenceTheorems, TLAPS

(* A read takes a prefix of the driver's buffer and leaves the rest: put   *)
(* together again, the two are the buffer (UART.py:151).                   *)
LEMMA ReadSplits ==
  ASSUME NEW s \in Seq(Byte), NEW n \in 1..Len(s)
  PROVE  /\ SubSeq(s, 1, n) \in Seq(Byte)
         /\ SubSeq(s, n + 1, Len(s)) \in Seq(Byte)
         /\ SubSeq(s, 1, n) \o SubSeq(s, n + 1, Len(s)) = s
<1>1. /\ SubSeq(s, 1, n) \in Seq(Byte)
      /\ SubSeq(s, n + 1, Len(s)) \in Seq(Byte)
  BY SubSeqProperties
<1>2. SubSeq(s, 1, n) \o SubSeq(s, n + 1, Len(s)) = SubSeq(s, 1, Len(s))
  BY ConcatAdjacentSubSeq
<1>3. SubSeq(s, 1, Len(s)) = s
  BY SubSeqFull
<1>4. QED
  BY <1>1, <1>2, <1>3

(* Every variable keeps its type: data_read, the deque and the result are  *)
(* made of bytes of the port, whatever the order the threads run in.       *)
THEOREM UartTypeOK == Spec => []TypeOK
<1>1. Init => TypeOK
  BY EmptySeq DEF Init, TypeOK, WorkerPC, ReaderPC, CloserPC
<1>2. ASSUME TypeOK, [Next]_vars
      PROVE  TypeOK'
  <2> USE DEF TypeOK, WorkerPC, ReaderPC, CloserPC, port, queue, workerVars, readerVars
  <2>1. CASE \E b \in Byte : Arrive(b)
    BY <1>2, <2>1 DEF Arrive
  <2>2. CASE Unplug \/ WriteFails
    BY ZenonT(60), <1>2, <2>2 DEF Unplug, WriteFails
  <2>3. CASE WorkerReset \/ WorkerLoop \/ WorkerReadCancelled \/ WorkerSet
    BY ZenonT(60), <1>2, <2>3, EmptySeq DEF WorkerReset, WorkerLoop, WorkerReadCancelled, WorkerSet
  <2>4. CASE WorkerRead
    BY <1>2, <2>4, ReadSplits DEF WorkerRead
  <2>5. CASE WorkerFails
    BY ZenonT(60), <1>2, <2>5 DEF WorkerFails
  <2>6. CASE WorkerExtend
    BY <1>2, <2>6 DEF WorkerExtend
  <2>7. CASE ReadByte \/ ReaderWoken \/ ReaderTimeout \/ ReaderClear
    BY ZenonT(60), <1>2, <2>7 DEF ReadByte, ReaderWoken, ReaderTimeout, ReaderClear
  <2>8. CASE ReaderPop
    BY <1>2, <2>8 DEF ReaderPop
  <2>9. CASE ReaderPopEmpty \/ ReaderCheck \/ ReaderSet
    BY ZenonT(60), <1>2, <2>9 DEF ReaderPopEmpty, ReaderCheck, ReaderSet
  <2>10. CASE Close \/ CloserStep
    BY ZenonT(60), <1>2, <2>10 DEF Close, CloserStep, CloseWake, CloseCancelRead, CloseJoin
  <2>11. CASE UNCHANGED vars
    BY <1>2, <2>11 DEF vars
  <2>12. QED
    BY <1>2, <2>1, <2>2, <2>3, <2>4, <2>5, <2>6, <2>7, <2>8, <2>9, <2>10, <2>11
       DEF Next, Worker, ReaderStep
<1>3. QED
  BY <1>1, <1>2, PTL DEF Spec

(* The strengthening of NoLostWakeup: none is needed beyond the types. The *)
(* steps that can disturb it are the two that grow or shrink the deque,    *)
(* and those that clear the Event or end the reader's look at the deque.   *)
LEMMA NoLostWakeupStep ==
  ASSUME TypeOK, NoLostWakeup, [Next]_vars
  PROVE  NoLostWakeup'
<1> USE DEF TypeOK, NoLostWakeup, port, queue, workerVars, readerVars
<1>1. CASE (\E b \in Byte : Arrive(b)) \/ Unplug \/ WriteFails
  BY <1>1 DEF Arrive, Unplug, WriteFails
<1>2. CASE Worker
  BY <1>2 DEF Worker, WorkerReset, WorkerLoop, WorkerRead, WorkerReadCancelled,
              WorkerFails, WorkerExtend, WorkerSet
<1>3. CASE ReadByte \/ ReaderTimeout \/ ReaderWoken \/ ReaderClear \/ ReaderSet
  BY <1>3 DEF ReadByte, ReaderTimeout, ReaderWoken, ReaderClear, ReaderSet
<1>4. CASE ReaderPop \/ ReaderPopEmpty
  BY <1>4 DEF ReaderPop, ReaderPopEmpty
<1>5. CASE ReaderCheck
  <2>1. CASE Len(read_queue) > 0
    BY <1>5, <2>1 DEF ReaderCheck
  <2>2. CASE ~(Len(read_queue) > 0)
    <3>1. read_queue = <<>>
      BY <2>2, EmptySeq
    <3>2. QED
      BY <1>5, <3>1 DEF ReaderCheck
  <2>3. QED
    BY <2>1, <2>2
<1>6. CASE Close \/ CloserStep
  BY <1>6 DEF Close, CloserStep, CloseWake, CloseCancelRead, CloseJoin
<1>7. CASE UNCHANGED vars
  BY <1>7 DEF vars
<1>8. QED
  BY <1>1, <1>2, <1>3, <1>4, <1>5, <1>6, <1>7 DEF Next, ReaderStep

(* No wake-up is lost: a byte in the deque is never left to a reader that  *)
(* sleeps on an Event nobody will set.                                     *)
THEOREM UartNoLostWakeup == Spec => []NoLostWakeup
<1>1. Init => NoLostWakeup
  BY DEF Init, NoLostWakeup
<1>2. TypeOK /\ NoLostWakeup /\ [Next]_vars => NoLostWakeup'
  BY NoLostWakeupStep
<1>3. QED
  BY <1>1, <1>2, UartTypeOK, PTL DEF Spec

(* What the locals hold at each location; the refinement below needs it to *)
(* know that nothing is between the driver and the caller when the stale   *)
(* input is thrown away, and that a pop follows a call.                    *)
LEMMA LocalsInvStep ==
  ASSUME TypeOK, LocalsInv, [Next]_vars
  PROVE  LocalsInv'
<1> USE DEF TypeOK, LocalsInv, port, queue, workerVars, readerVars
<1>1. CASE (\E b \in Byte : Arrive(b)) \/ Unplug \/ WriteFails
  BY <1>1 DEF Arrive, Unplug, WriteFails
<1>2. CASE Worker
  BY <1>2 DEF Worker, WorkerReset, WorkerLoop, WorkerRead, WorkerReadCancelled,
              WorkerFails, WorkerExtend, WorkerSet
<1>3. CASE ReadByte \/ ReaderStep \/ ReaderTimeout
  BY <1>3 DEF ReadByte, ReaderStep, ReaderTimeout, ReaderWoken, ReaderClear,
              ReaderPop, ReaderPopEmpty, ReaderCheck, ReaderSet
<1>4. CASE Close \/ CloserStep
  BY <1>4 DEF Close, CloserStep, CloseWake, CloseCancelRead, CloseJoin
<1>5. CASE UNCHANGED vars
  BY <1>5 DEF vars
<1>6. QED
  BY <1>1, <1>2, <1>3, <1>4, <1>5 DEF Next

LEMMA UartLocalsInv == Spec => []LocalsInv
<1>1. Init => LocalsInv
  BY DEF Init, LocalsInv
<1>2. TypeOK /\ LocalsInv /\ [Next]_vars => LocalsInv'
  BY LocalsInvStep
<1>3. QED
  BY <1>1, <1>2, UartTypeOK, PTL DEF Spec
-----------------------------------------------------------------------------
(* The refinement of ByteFifo, one lemma per step that moves bytes: the    *)
(* others leave InFlight, the result and the flush alone.                  *)

LEMMA ArriveAppends ==
  ASSUME TypeOK, NEW b \in Byte, Arrive(b)
  PROVE  InFlight' = Append(InFlight, b)
<1>1. InFlight' = (read_queue \o data_read) \o Append(rx, b)
  BY DEF Arrive, InFlight, queue, workerVars
<1>2. Append(rx, b) = rx \o <<b>>
  BY AppendIsConcat DEF TypeOK
<1>3. (read_queue \o data_read) \o (rx \o <<b>>) = InFlight \o <<b>>
  BY ConcatAssociative, ConcatProperties DEF TypeOK, InFlight
<1>4. InFlight \o <<b>> = Append(InFlight, b)
  BY AppendIsConcat, ConcatProperties DEF TypeOK, InFlight
<1>5. QED
  BY <1>1, <1>2, <1>3, <1>4

LEMMA ReadKeepsInFlight ==
  ASSUME TypeOK, LocalsInv, WorkerRead
  PROVE  InFlight' = InFlight
<1>1. PICK n \in 1..Len(rx) : /\ data_read' = SubSeq(rx, 1, n)
                             /\ rx' = SubSeq(rx, n + 1, Len(rx))
  BY DEF WorkerRead
<1>2. data_read = <<>> /\ read_queue' = read_queue
  BY DEF WorkerRead, LocalsInv, queue
<1>3. /\ data_read' \in Seq(Byte)
      /\ rx' \in Seq(Byte)
      /\ data_read' \o rx' = rx
  BY <1>1, ReadSplits DEF TypeOK
<1>4. InFlight' = read_queue \o (data_read' \o rx')
  <2>1. read_queue \in Seq(Byte)
    BY DEF TypeOK
  <2>2. (read_queue \o data_read') \o rx' = read_queue \o (data_read' \o rx')
    <3> SUFFICES ASSUME NEW d \in Seq(Byte), NEW r \in Seq(Byte)
                 PROVE  (read_queue \o d) \o r = read_queue \o (d \o r)
      BY <1>3
    <3> QED
      BY <2>1, ConcatAssociative
  <2>3. QED
    BY <2>2, <1>2 DEF InFlight
<1>5. InFlight = read_queue \o rx
  BY <1>2, ConcatEmptySeq DEF TypeOK, InFlight
<1>6. QED
  BY <1>3, <1>4, <1>5

LEMMA ExtendKeepsInFlight ==
  ASSUME TypeOK, WorkerExtend
  PROVE  InFlight' = InFlight
<1>1. InFlight' = ((read_queue \o data_read) \o <<>>) \o rx
  BY DEF WorkerExtend, InFlight, port
<1>2. (read_queue \o data_read) \o <<>> = read_queue \o data_read
  BY ConcatProperties, ConcatEmptySeq DEF TypeOK
<1>3. QED
  BY <1>1, <1>2 DEF InFlight

LEMMA PopTakesHead ==
  ASSUME TypeOK, ReaderPop
  PROVE  /\ InFlight # <<>>
         /\ data' = Head(InFlight)
         /\ InFlight' = Tail(InFlight)
<1> DEFINE rest == data_read \o rx
<1>1. /\ read_queue \in Seq(Byte) /\ read_queue # <<>>
      /\ rest \in Seq(Byte)
  BY ConcatProperties DEF TypeOK, ReaderPop
<1>2. /\ InFlight = read_queue \o rest
      /\ InFlight' = Tail(read_queue) \o rest
  <2>1. InFlight = read_queue \o rest
    BY ConcatAssociative DEF TypeOK, InFlight
  <2>2. Tail(read_queue) \in Seq(Byte)
    BY <1>1, HeadTailProperties
  <2>3. InFlight' = (Tail(read_queue) \o data_read) \o rx
    BY DEF ReaderPop, InFlight, port, workerVars
  <2>4. (Tail(read_queue) \o data_read) \o rx = Tail(read_queue) \o rest
    BY SMTT(30), <2>2, ConcatAssociative DEF TypeOK
  <2>5. QED
    BY <2>1, <2>3, <2>4
<1> HIDE DEF rest
<1>3. /\ InFlight \in Seq(Byte)
      /\ Len(InFlight) = Len(read_queue) + Len(rest)
      /\ \A i \in 1..Len(InFlight) :
           InFlight[i] = IF i <= Len(read_queue) THEN read_queue[i]
                         ELSE rest[i - Len(read_queue)]
  BY <1>1, <1>2, ConcatProperties
<1>4. Len(read_queue) \in Nat \ {0} /\ Len(rest) \in Nat
  BY <1>1, EmptySeq, LenProperties
<1>5. InFlight # <<>>
  BY <1>3, <1>4, EmptySeq
<1>6. Head(InFlight) = Head(read_queue)
  <2>1. InFlight[1] = read_queue[1]
    BY <1>3, <1>4
  <2>2. QED
    BY <2>1, <1>1, <1>3, <1>5
<1>7. Tail(InFlight) = Tail(read_queue) \o rest
  <2>1. /\ Tail(InFlight) \in Seq(Byte)
        /\ Len(Tail(InFlight)) = Len(InFlight) - 1
        /\ \A i \in 1..Len(Tail(InFlight)) : Tail(InFlight)[i] = InFlight[i + 1]
    BY <1>3, <1>5, HeadTailProperties
  <2>2. /\ Tail(read_queue) \in Seq(Byte)
        /\ Len(Tail(read_queue)) = Len(read_queue) - 1
        /\ \A i \in 1..Len(Tail(read_queue)) : Tail(read_queue)[i] = read_queue[i + 1]
    BY <1>1, HeadTailProperties
  <2>3. /\ Tail(read_queue) \o rest \in Seq(Byte)
        /\ Len(Tail(read_queue) \o rest) = Len(read_queue) - 1 + Len(rest)
        /\ \A i \in 1..(Len(read_queue) - 1 + Len(rest)) :
             (Tail(read_queue) \o rest)[i] =
               IF i <= Len(read_queue) - 1 THEN Tail(read_queue)[i]
               ELSE rest[i - (Len(read_queue) - 1)]
    BY <1>1, <2>2, ConcatProperties
  <2>4. ASSUME NEW i \in 1..Len(Tail(InFlight))
        PROVE  Tail(InFlight)[i] = (Tail(read_queue) \o rest)[i]
    <3>1. Tail(InFlight)[i] = InFlight[i + 1]
      BY <2>1
    <3>2. CASE i <= Len(read_queue) - 1
      <4>1. InFlight[i + 1] = read_queue[i + 1]
        BY <3>2, <1>3, <1>4, <2>1
      <4>2. (Tail(read_queue) \o rest)[i] = read_queue[i + 1]
        BY <3>2, <1>3, <1>4, <2>1, <2>2, <2>3
      <4>3. QED
        BY <3>1, <4>1, <4>2
    <3>3. CASE ~(i <= Len(read_queue) - 1)
      <4>1. InFlight[i + 1] = rest[i + 1 - Len(read_queue)]
        BY <3>3, <1>3, <1>4, <2>1
      <4>2. (Tail(read_queue) \o rest)[i] = rest[i + 1 - Len(read_queue)]
        BY <3>3, <1>3, <1>4, <2>1, <2>3
      <4>3. QED
        BY <3>1, <4>1, <4>2
    <3>4. QED
      BY <3>2, <3>3
  <2>5. Len(Tail(InFlight)) = Len(Tail(read_queue) \o rest)
    BY <2>1, <2>3, <1>3, <1>4
  <2>6. QED
    BY <2>1, <2>3, <2>4, <2>5, SeqEqual
<1>8. QED
  BY <1>2, <1>5, <1>6, <1>7 DEF ReaderPop

(* Every step of the threads is a step of the FIFO or none.                *)
LEMMA FifoStep ==
  ASSUME TypeOK, LocalsInv, [Next]_vars
  PROVE  [Fifo!FifoNext]_(Fifo!fifoVars)
<1> USE DEF Fifo!FifoNext, Fifo!fifoVars, port, queue, workerVars, readerVars
<1>1. ASSUME NEW b \in Byte, Arrive(b)
      PROVE  Fifo!FifoArrive
  BY <1>1, ArriveAppends DEF Arrive, Fifo!FifoArrive
<1>2. CASE Unplug \/ WriteFails
  BY <1>2 DEF Unplug, WriteFails, InFlight
<1>3. CASE WorkerReset
  <2>1. InFlight' = <<>>
    BY <1>3, ConcatEmptySeq, EmptySeq DEF WorkerReset, InFlight, LocalsInv, TypeOK
  <2>2. QED
    BY <1>3, <2>1 DEF WorkerReset, LocalsInv, Fifo!FifoFlush
<1>4. CASE WorkerFails
  BY <1>4 DEF WorkerFails, InFlight, Fifo!FifoNoFlush
<1>5. CASE WorkerLoop \/ WorkerReadCancelled \/ WorkerSet
  BY <1>5 DEF WorkerLoop, WorkerReadCancelled, WorkerSet, InFlight
<1>6. CASE WorkerRead
  BY <1>6, ReadKeepsInFlight DEF WorkerRead
<1>7. CASE WorkerExtend
  BY <1>7, ExtendKeepsInFlight DEF WorkerExtend
<1>8. CASE ReadByte
  BY <1>8 DEF ReadByte, InFlight, Fifo!FifoCall
<1>9. CASE ReaderPop
  <2>1. worker # "reset" /\ data = None
    BY <1>9 DEF ReaderPop, LocalsInv
  <2>2. QED
    BY <1>9, <2>1, PopTakesHead DEF ReaderPop, Fifo!FifoDeliver
<1>10. CASE ReaderTimeout \/ ReaderWoken \/ ReaderClear \/ ReaderPopEmpty
              \/ ReaderCheck \/ ReaderSet
  BY <1>10 DEF ReaderTimeout, ReaderWoken, ReaderClear, ReaderPopEmpty,
               ReaderCheck, ReaderSet, InFlight
<1>11. CASE Close \/ CloserStep
  BY <1>11 DEF Close, CloserStep, CloseWake, CloseCancelRead, CloseJoin, InFlight
<1>12. CASE UNCHANGED vars
  BY <1>12 DEF vars, InFlight
<1>13. QED
  BY <1>1, <1>2, <1>3, <1>4, <1>5, <1>6, <1>7, <1>8, <1>9, <1>10, <1>11, <1>12
     DEF Next, Worker, ReaderStep

(* class Uart implements the byte FIFO: after the one flush every byte     *)
(* that arrives is delivered once, in order, however the threads           *)
(* interleave, the dongle is unplugged, or the port is closed.             *)
THEOREM UartImplementsFifo == Spec => ImplementsFifo
<1>1. Init => Fifo!FifoInit
  <2>1. Init => InFlight = <<>>
    BY ConcatEmptySeq, EmptySeq DEF Init, InFlight
  <2>2. QED
    BY <2>1 DEF Init, Fifo!FifoInit
<1>2. TypeOK /\ LocalsInv /\ [Next]_vars => [Fifo!FifoNext]_(Fifo!fifoVars)
  BY FifoStep
<1>3. QED
  BY <1>1, <1>2, UartTypeOK, UartLocalsInv, PTL DEF Spec, ImplementsFifo, Fifo!FifoSpec
=============================================================================
