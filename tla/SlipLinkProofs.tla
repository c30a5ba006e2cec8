--------------------------- MODULE SlipLinkProofs ---------------------------
(* Proofs about SlipLink for frames of any bytes and any length.           *)
EXTENDS SlipLink, SequenceTheorems, TLAPS

(* The decoder keeps its types, and a byte it keeps is a byte.             *)
LEMMA ReceiveType ==
  ASSUME TypeOK, NEW b \in Byte, Emit(b)
  PROVE  /\ dec' \in {"hunt", "data", "esc"}
         /\ dataBuffer' \in Seq(Byte)
         /\ packets' \in Seq(Seq(Byte))
         /\ lost' \in BOOLEAN
<1>1. Unescape(b) \in Byte
  BY DEF Unescape, Byte, SLIP_ESC_START, SLIP_ESC_ESC, SLIP_START, SLIP_END, SLIP_ESC
<1>2. CASE UNCHANGED decoder /\ lost' = TRUE
  BY <1>2 DEF TypeOK, decoder
<1>3. CASE Receive(b) /\ UNCHANGED lost
  <2>1. CASE Hunt(b)
    BY <1>3, <2>1 DEF TypeOK, Hunt
  <2>2. CASE TakeEnd(b)
    <3>1. Append(packets, dataBuffer) \in Seq(Seq(Byte))
      BY AppendProperties DEF TypeOK
    <3>2. QED
      BY <1>3, <2>2, <3>1, EmptySeq DEF TypeOK, TakeEnd
  <2>3. CASE TakeEscape(b) \/ TakeByte(b)
    <3>1. Append(dataBuffer, b) \in Seq(Byte)
      BY AppendProperties DEF TypeOK
    <3>2. QED
      BY <1>3, <2>3, <3>1 DEF TypeOK, TakeEscape, TakeByte
  <2>4. CASE TakeCode(b)
    BY <1>1, <1>3, <2>4 DEF TypeOK, TakeCode
  <2>5. QED
    BY <1>3, <2>1, <2>2, <2>3, <2>4 DEF Receive
<1>4. QED
  BY <1>2, <1>3 DEF Emit

(* What the sender puts on the line is made of bytes. *)
LEMMA SentBytes ==
  /\ Special \subseteq Byte
  /\ \A b \in Special : EscapeCode(b) \in Byte /\ EscapeCode(b) \notin Special
  /\ \A b \in Special : Unescape(EscapeCode(b)) = b
BY DEF Special, Byte, EscapeCode, Unescape, SLIP_START, SLIP_END, SLIP_ESC,
       SLIP_ESC_START, SLIP_ESC_END, SLIP_ESC_ESC

(* The sender's place in the frame and the decoder's buffer keep their     *)
(* types; the sender never reads past its frame, which needs SlipInv.      *)
LEMMA TypeStep ==
  ASSUME TypeOK, SlipInv, [Next]_vars
  PROVE  TypeOK'
<1>1. ASSUME NEW f \in Frames, SendFrame(f)
      PROVE  TypeOK'
  <2>1. f \in Seq(Byte)
    BY SlipAssumption
  <2>2. QED
    <3>1. Len(f) \in Nat /\ <<>> \in Seq(Seq(Byte))
      BY <2>1, LenProperties, EmptySeq
    <3>2. 1 \in 1..(Len(f) + 1)
      BY <3>1
    <3>3. QED
      BY <1>1, <2>1, <3>1, <3>2 DEF SendFrame, TypeOK
<1>2. CASE EmitStart
  <2>1. SLIP_START \in Byte
    BY SentBytes DEF Special
  <2>2. QED
    BY <1>2, <2>1, ReceiveType DEF EmitStart, Emit, TypeOK
<1>3. CASE EmitByte
  <2>1. frame[pos] \in Byte
    BY <1>3, ElementOfSeq, LenProperties DEF EmitByte, TypeOK
  <2>2. pos + 1 \in 1..(Len(frame) + 1)
    BY <1>3, LenProperties DEF EmitByte, TypeOK
  <2>3. Emit(frame[pos]) /\ pos' = pos + 1 /\ UNCHANGED <<phase, frame, prevLost, aborted>>
    BY <1>3 DEF EmitByte, Emit
  <2>4. QED
    BY <2>1, <2>2, <2>3, ReceiveType DEF TypeOK
<1>4. CASE EmitEscape
  <2>1. SLIP_ESC \in Byte
    BY SentBytes DEF Special
  <2>2. QED
    BY <1>4, <2>1, ReceiveType DEF EmitEscape, Emit, TypeOK
<1>5. CASE EmitCode
  <2>1. frame[pos] \in Special /\ pos <= Len(frame)
    BY <1>5 DEF EmitCode, SlipInv
  <2>2. EscapeCode(frame[pos]) \in Byte
    BY <2>1, SentBytes
  <2>3. pos + 1 \in 1..(Len(frame) + 1)
    BY <2>1, LenProperties DEF TypeOK
  <2>4. /\ Emit(EscapeCode(frame[pos])) /\ pos' = pos + 1 /\ phase' = "data"
        /\ UNCHANGED <<frame, prevLost, aborted>>
    BY <1>5 DEF EmitCode, Emit
  <2>5. QED
    BY <2>2, <2>3, <2>4, ReceiveType DEF TypeOK
<1>6. CASE EmitEnd
  <2>1. SLIP_END \in Byte
    BY SentBytes DEF Special
  <2>2. QED
    BY <1>6, <2>1, ReceiveType DEF EmitEnd, Emit, TypeOK
<1>7. CASE Abort
  BY <1>7, EmptySeq DEF Abort, sender, TypeOK
<1>8. CASE UNCHANGED vars
  BY <1>8 DEF vars, TypeOK
<1>9. QED
  BY <1>1, <1>2, <1>3, <1>4, <1>5, <1>6, <1>7, <1>8 DEF Next

LEMMA InitInv == Init => TypeOK /\ SlipInv
<1> SUFFICES ASSUME Init PROVE TypeOK /\ SlipInv
  OBVIOUS
<1>1. /\ frame \in Seq(Byte) /\ Len(frame) \in Nat
      /\ <<>> \in Seq(Byte) /\ <<>> \in Seq(Seq(Byte))
  BY SlipAssumption, LenProperties, EmptySeq DEF Init
<1>2. 1 \in 1..(Len(frame) + 1)
  BY <1>1
<1>3. TypeOK
  BY <1>1, <1>2 DEF Init, TypeOK
<1>4. SlipInv
  BY DEF Init, SlipInv, ExactDelivery
<1>5. QED
  BY <1>3, <1>4

(* The steps of the sender preserve SlipInv: in a frame that has lost no   *)
(* byte the decoder is where the sender is, and has what the sender sent.  *)
LEMMA StartStep ==
  ASSUME TypeOK, SlipInv, EmitStart
  PROVE  SlipInv'
<1> USE DEF SlipInv, ExactDelivery, Follows, EmitStart, Emit, decoder
<1>1. CASE lost' = TRUE /\ UNCHANGED decoder
  BY <1>1
<1>2. CASE Receive(SLIP_START) /\ UNCHANGED lost
  <2>1. dec' = "data"
    BY <1>2 DEF Receive, Hunt, TakeEnd, TakeEscape, TakeByte, TakeCode,
                SLIP_START, SLIP_END, SLIP_ESC
  <2>2. packets' = packets
    BY <1>2 DEF Receive, Hunt, TakeEnd, TakeEscape, TakeByte, TakeCode,
                SLIP_START, SLIP_END
  <2>3. ~prevLost => dataBuffer' = <<>>
    BY <1>2 DEF Receive, Hunt, TakeEnd, TakeEscape, TakeByte, TakeCode
  <2>4. SubSeq(frame, 1, pos - 1) = <<>>
    BY SubSeqEmpty DEF TypeOK
  <2>5. QED
    BY <1>2, <2>1, <2>2, <2>3, <2>4
<1>3. QED
  BY <1>1, <1>2

(* One more byte of the frame has gone over: the buffer grows by it.       *)
LEMMA PrefixGrows ==
  ASSUME TypeOK, pos <= Len(frame)
  PROVE  SubSeq(frame, 1, pos) = Append(SubSeq(frame, 1, pos - 1), frame[pos])
<1>1. pos \in 1..Len(frame) /\ 1 \in 1..Len(frame)
  BY LenProperties DEF TypeOK
<1>2. SubSeq(frame, 1, pos) = SubSeq(frame, 1, pos - 1) \o <<frame[pos]>>
  BY <1>1, SubSeqRecursiveSecond DEF TypeOK
<1>3. /\ SubSeq(frame, 1, pos - 1) \in Seq(Byte)
      /\ frame[pos] \in Byte
  <2>1. \A i \in 1..(pos - 1) : frame[i] \in Byte
    BY <1>1, ElementOfSeq DEF TypeOK
  <2>2. pos - 1 \in Int
    BY <1>1
  <2>3. QED
    BY <1>1, <2>1, <2>2, SubSeqProperties, ElementOfSeq DEF TypeOK
<1>4. QED
  BY <1>2, <1>3, AppendIsConcat

LEMMA ByteStep ==
  ASSUME TypeOK, SlipInv, EmitByte
  PROVE  SlipInv'
<1> USE DEF SlipInv, ExactDelivery, Follows, EmitByte, Emit, decoder
<1>1. CASE lost' = TRUE /\ UNCHANGED decoder
  BY <1>1
<1>2. CASE Receive(frame[pos]) /\ UNCHANGED lost
  <2>1. frame[pos] \notin {SLIP_START, SLIP_END, SLIP_ESC}
    BY DEF Special
  <2>2. CASE lost
    BY <1>2, <2>2, <2>1 DEF Receive, Hunt, TakeEnd, TakeEscape, TakeByte, TakeCode
  <2>3. CASE ~lost /\ aborted
    BY <1>2, <2>3, <2>1 DEF Receive, Hunt, TakeEnd, TakeEscape, TakeByte, TakeCode
  <2>4. CASE ~lost /\ ~aborted
    <3>1. /\ dec = "data" /\ dec' = "data" /\ UNCHANGED packets
          /\ dataBuffer' = Append(dataBuffer, frame[pos])
      BY <1>2, <2>4, <2>1 DEF Receive, Hunt, TakeEnd, TakeEscape, TakeByte, TakeCode
    <3>2. ~prevLost => dataBuffer' = SubSeq(frame, 1, pos)
      BY <2>4, <3>1, PrefixGrows
    <3>3. (pos + 1) - 1 = pos
      BY DEF TypeOK
    <3>4. QED
      BY <1>2, <2>4, <3>1, <3>2, <3>3
  <2>5. QED
    BY <2>2, <2>3, <2>4 DEF TypeOK
<1>3. QED
  BY <1>1, <1>2

LEMMA EscapeStep ==
  ASSUME TypeOK, SlipInv, EmitEscape
  PROVE  SlipInv'
<1> USE DEF SlipInv, ExactDelivery, Follows, EmitEscape, Emit, decoder
<1>1. CASE lost' = TRUE /\ UNCHANGED decoder
  BY <1>1
<1>2. CASE Receive(SLIP_ESC) /\ UNCHANGED lost
  <2>1. SLIP_ESC # SLIP_START /\ SLIP_ESC # SLIP_END
    BY DEF SLIP_ESC, SLIP_START, SLIP_END
  <2>2. CASE lost
    BY <1>2, <2>2, <2>1 DEF Receive, Hunt, TakeEnd, TakeEscape, TakeByte, TakeCode
  <2>3. CASE ~lost /\ aborted
    BY <1>2, <2>3, <2>1 DEF Receive, Hunt, TakeEnd, TakeEscape, TakeByte, TakeCode
  <2>4. CASE ~lost /\ ~aborted
    <3>1. /\ dec = "data" /\ dec' = "esc"
          /\ UNCHANGED <<packets, dataBuffer>>
      BY <1>2, <2>4, <2>1 DEF Receive, Hunt, TakeEnd, TakeEscape, TakeByte, TakeCode
    <3>2. QED
      BY <1>2, <2>4, <3>1
  <2>5. QED
    BY <2>2, <2>3, <2>4 DEF TypeOK
<1>3. QED
  BY <1>1, <1>2

LEMMA CodeStep ==
  ASSUME TypeOK, SlipInv, EmitCode
  PROVE  SlipInv'
<1> USE DEF SlipInv, ExactDelivery, Follows, EmitCode, Emit, decoder
<1>1. CASE lost' = TRUE /\ UNCHANGED decoder
  BY <1>1
<1> DEFINE code == EscapeCode(frame[pos])
<1>2. CASE Receive(code) /\ UNCHANGED lost
  <2>1. /\ code \notin {SLIP_START, SLIP_END, SLIP_ESC}
        /\ Unescape(code) = frame[pos]
    BY SentBytes DEF Special
  <2> HIDE DEF code
  <2>2. CASE lost
    BY <1>2, <2>2, <2>1 DEF Receive, Hunt, TakeEnd, TakeEscape, TakeByte, TakeCode
  <2>3. CASE ~lost /\ aborted
    BY <1>2, <2>3, <2>1 DEF Receive, Hunt, TakeEnd, TakeEscape, TakeByte, TakeCode
  <2>4. CASE ~lost /\ ~aborted
    <3>1. /\ dec = "esc" /\ dec' = "data" /\ UNCHANGED packets
          /\ dataBuffer' = Append(dataBuffer, frame[pos])
      BY <1>2, <2>4, <2>1 DEF Receive, Hunt, TakeEnd, TakeEscape, TakeByte, TakeCode
    <3>2. ~prevLost => dataBuffer' = SubSeq(frame, 1, pos)
      BY <2>4, <3>1, PrefixGrows
    <3>3. (pos + 1) - 1 = pos
      BY DEF TypeOK
    <3>4. QED
      BY <1>2, <2>4, <3>1, <3>2, <3>3
  <2>5. QED
    BY <2>2, <2>3, <2>4 DEF TypeOK
<1>3. QED
  BY <1>1, <1>2

LEMMA EndStep ==
  ASSUME TypeOK, SlipInv, EmitEnd
  PROVE  SlipInv'
<1> USE DEF SlipInv, ExactDelivery, Follows, EmitEnd, Emit, decoder
<1>0. pos = Len(frame) + 1
  BY LenProperties DEF TypeOK
<1>1. CASE lost' = TRUE /\ UNCHANGED decoder
  BY <1>0, <1>1
<1>2. CASE Receive(SLIP_END) /\ UNCHANGED lost
  <2>1. SLIP_END # SLIP_START /\ SLIP_END # SLIP_ESC
    BY DEF SLIP_ESC, SLIP_START, SLIP_END
  <2>2. CASE lost
    BY <1>0, <1>2, <2>2, <2>1 DEF Receive, Hunt, TakeEnd, TakeEscape, TakeByte, TakeCode
  <2>3. CASE ~lost /\ aborted
    BY <1>0, <1>2, <2>3, <2>1 DEF Receive, Hunt, TakeEnd, TakeEscape, TakeByte, TakeCode
  <2>4. CASE ~lost /\ ~aborted
    <3>1. /\ dec = "data" /\ dec' = "hunt" /\ dataBuffer' = <<>>
          /\ packets' = Append(packets, dataBuffer) /\ packets = <<>>
      BY <1>2, <2>4, <2>1 DEF Receive, Hunt, TakeEnd, TakeEscape, TakeByte, TakeCode
    <3>2. ~prevLost => dataBuffer = frame
      <4>1. Len(frame) \in Nat /\ pos - 1 = Len(frame)
        BY <1>0, LenProperties DEF TypeOK
      <4>2. QED
        BY <2>4, <4>1, SubSeqFull DEF TypeOK
    <3>3. packets' = <<dataBuffer>>
      BY <3>1
    <3>4. QED
      BY <1>0, <1>2, <2>4, <3>1, <3>2, <3>3
  <2>5. QED
    BY <2>2, <2>3, <2>4 DEF TypeOK
<1>3. QED
  BY <1>1, <1>2

LEMMA SlipInvStep ==
  ASSUME TypeOK, SlipInv, [Next]_vars
  PROVE  SlipInv'
<1>1. ASSUME NEW f \in Frames, SendFrame(f)
      PROVE  SlipInv'
  BY <1>1 DEF SendFrame, SlipInv, ExactDelivery, Follows
<1>2. CASE Abort
  BY <1>2 DEF Abort, sender, SlipInv, ExactDelivery, Follows, TypeOK
<1>3. CASE UNCHANGED vars
  BY <1>3 DEF vars, SlipInv, ExactDelivery, Follows
<1>4. QED
  BY <1>1, <1>2, <1>3, StartStep, ByteStep, EscapeStep, CodeStep, EndStep DEF Next

LEMMA SlipSafe == Spec => [](TypeOK /\ SlipInv)
<1>1. TypeOK /\ SlipInv /\ [Next]_vars => (TypeOK /\ SlipInv)'
  BY TypeStep, SlipInvStep
<1>2. QED
  BY InitInv, <1>1, PTL DEF Spec

(* Every variable keeps its type; the sender's index stays in its frame.   *)
THEOREM SlipTypeOK == Spec => []TypeOK
BY SlipSafe, PTL

(* A frame that comes over whole after one that lost no byte is decoded    *)
(* once and exactly, for all frames.                                       *)
THEOREM SlipExactDelivery == Spec => []ExactDelivery
<1>1. SlipInv => ExactDelivery
  BY DEF SlipInv
<1>2. QED
  BY <1>1, SlipSafe, PTL

(* After any losses, a frame that comes over whole leaves the decoder      *)
(* hunting for the next one with nothing buffered.                         *)
THEOREM SlipResynchronised == Spec => []Resynchronised
<1>1. SlipInv => Resynchronised
  BY DEF SlipInv, Resynchronised, Follows
<1>2. QED
  BY <1>1, SlipSafe, PTL
=============================================================================
