------------------------------ MODULE ByteFifo ------------------------------
(***************************************************************************)
(* What SnifferAPI/UART.py promises the packet reader: the serial port is  *)
(* an unbounded FIFO of bytes.  Its content is thrown away at most once,   *)
(* before the first byte is delivered (reset_input_buffer); from then on   *)
(* every byte that arrives is delivered in order, none is lost, none is    *)
(* delivered twice, and a call that returns no byte consumes none.         *)
(***************************************************************************)
EXTENDS Sequences

CONSTANTS Byte,      (* the values of a byte                              *)
          None       (* what readByte returns instead of a byte           *)

VARIABLES chan,      (* the bytes that arrived and were not delivered     *)
          flushed,   (* whether the stale input was thrown away           *)
          out        (* the result of the last call of readByte           *)

fifoVars == <<chan, flushed, out>>

FifoInit == /\ chan = <<>>
            /\ flushed = FALSE
            /\ out = None

FifoArrive == /\ \E b \in Byte : chan' = Append(chan, b)
              /\ UNCHANGED <<flushed, out>>

FifoFlush == /\ ~flushed
             /\ out = None
             /\ chan' = <<>>
             /\ flushed' = TRUE
             /\ UNCHANGED out

(* The reader thread dies without having thrown the stale input away. *)
FifoNoFlush == /\ ~flushed
               /\ flushed' = TRUE
               /\ UNCHANGED <<chan, out>>

FifoDeliver == /\ flushed
               /\ out = None
               /\ chan # <<>>
               /\ out' = Head(chan)
               /\ chan' = Tail(chan)
               /\ UNCHANGED flushed

FifoCall == /\ out' = None
            /\ UNCHANGED <<chan, flushed>>

FifoNext == FifoArrive \/ FifoFlush \/ FifoNoFlush \/ FifoDeliver \/ FifoCall

FifoSpec == FifoInit /\ [][FifoNext]_fifoVars
=============================================================================
