------------------------------ MODULE SlipLink ------------------------------
(***************************************************************************)
(* SnifferAPI/Packet.py: the SLIP framing of the serial line.  A sender    *)
(* puts a frame on the line byte by byte as encodeToSLIP does (the host's  *)
(* requests; the dongle's firmware frames its packets the same way), and   *)
(* decodeFromSLIP takes it apart.  The port delivers in order (module      *)
(* Uart), but a byte may be lost before it reaches the port, and the       *)
(* decoder may give a frame up: a read that times out (SnifferTimeout) or  *)
(* a complete_timeout (UARTPacketError).                                   *)
(***************************************************************************)
EXTENDS Integers, Sequences

CONSTANTS Frames,     (* the byte lists sent                               *)
          MaxBuffer   (* bound: no byte is lost while more are buffered     *)

Byte == 0..255

ASSUME SlipAssumption == /\ Frames \subseteq Seq(Byte)
                         /\ MaxBuffer \in Nat

SLIP_START == 171
SLIP_END == 188
SLIP_ESC == 205
SLIP_ESC_START == SLIP_START + 1
SLIP_ESC_END == SLIP_END + 1
SLIP_ESC_ESC == SLIP_ESC + 1

\* Mutant: SLIP_ESC itself is not escaped.
SpecialNoEsc == {SLIP_START, SLIP_END}

Special == {SLIP_START, SLIP_END, SLIP_ESC}

VARIABLES
  frame,       (* byteList: the frame being sent, or the last one sent     *)
  pos,         (* index of its next byte                                   *)
  phase,       (* where the sender is in the frame                         *)
  dec,         (* which loop of decodeFromSLIP the decoder is in           *)
  dataBuffer,  (* its local                                                *)
  packets,     (* what it returned since this frame was begun              *)
  lost,        (* a byte of this frame was lost                            *)
  prevLost,    (* a byte of the frame before was lost                      *)
  aborted      (* the decoder gave up in the middle of this frame          *)

sender == <<frame, pos, phase>>
decoder == <<dec, dataBuffer, packets>>
vars == <<frame, pos, phase, dec, dataBuffer, packets, lost, prevLost, aborted>>

(* The port is open and the next frame is about to be sent; what is lost   *)
(* of a frame that was already under way is a loss of its first bytes.     *)
Init == /\ frame \in Frames
        /\ pos = 1
        /\ phase = "start"
        /\ dec = "hunt"
        /\ dataBuffer = <<>>
        /\ packets = <<>>
        /\ lost = FALSE
        /\ prevLost = FALSE
        /\ aborted = FALSE
-----------------------------------------------------------------------------
(* The decoder, one byte at a time. *)

EscapeCode(b) == CASE b = SLIP_START -> SLIP_ESC_START
                   [] b = SLIP_END -> SLIP_ESC_END
                   [] b = SLIP_ESC -> SLIP_ESC_ESC

\* Mutant: an escaped SLIP_ESC is not recognised.
UnescapeNoEsc(b) == IF b = SLIP_ESC_START THEN SLIP_START ELSE SLIP_END

(* An unknown escape code decodes to SLIP_END. *)
Unescape(b) == CASE b = SLIP_ESC_START -> SLIP_START
                 [] b = SLIP_ESC_ESC -> SLIP_ESC
                 [] OTHER -> SLIP_END

Hunt(b) == /\ dec = "hunt"
           /\ dec' = IF b = SLIP_START THEN "data" ELSE "hunt"
           /\ UNCHANGED <<dataBuffer, packets>>

TakeEnd(b) == /\ dec = "data"
              /\ b = SLIP_END
              /\ packets' = Append(packets, dataBuffer)
              /\ dataBuffer' = <<>>
              /\ dec' = "hunt"

TakeEscape(b) == /\ dec = "data"
                 /\ b = SLIP_ESC
                 /\ dec' = "esc"
                 /\ UNCHANGED <<dataBuffer, packets>>

TakeByte(b) == /\ dec = "data"
               /\ b \notin {SLIP_END, SLIP_ESC}
               /\ dataBuffer' = Append(dataBuffer, b)
               /\ UNCHANGED <<dec, packets>>

TakeCode(b) == /\ dec = "esc"
               /\ dec' = "data"
               /\ dataBuffer' = Append(dataBuffer, Unescape(b))
               /\ UNCHANGED packets

Receive(b) == Hunt(b) \/ TakeEnd(b) \/ TakeEscape(b) \/ TakeByte(b) \/ TakeCode(b)

(* The decoder raises; the next call starts over with an empty buffer.     *)
(* Before the START it loses nothing by that.                              *)
Abort == /\ dec' = "hunt"
         /\ dataBuffer' = <<>>
         /\ aborted' = (aborted \/ phase \in {"data", "code"})
         /\ UNCHANGED <<sender, packets, lost, prevLost>>
-----------------------------------------------------------------------------
(* The sender. *)

(* The line carries a byte to the decoder or loses it. *)
Emit(b) == /\ \/ /\ Receive(b)
                 /\ UNCHANGED lost
              \/ /\ Len(dataBuffer) <= MaxBuffer
                 /\ lost' = TRUE
                 /\ UNCHANGED decoder
           /\ UNCHANGED <<frame, prevLost, aborted>>

SendFrame(f) == /\ phase = "idle"
                /\ frame' = f
                /\ pos' = 1
                /\ phase' = "start"
                /\ prevLost' = lost
                /\ lost' = FALSE
                /\ aborted' = FALSE
                /\ packets' = <<>>
                /\ UNCHANGED <<dec, dataBuffer>>

EmitStart == /\ phase = "start"
             /\ phase' = "data"
             /\ UNCHANGED pos
             /\ Emit(SLIP_START)

EmitByte == /\ phase = "data"
            /\ pos <= Len(frame)
            /\ frame[pos] \notin Special
            /\ pos' = pos + 1
            /\ UNCHANGED phase
            /\ Emit(frame[pos])

EmitEscape == /\ phase = "data"
              /\ pos <= Len(frame)
              /\ frame[pos] \in Special
              /\ phase' = "code"
              /\ UNCHANGED pos
              /\ Emit(SLIP_ESC)

EmitCode == /\ phase = "code"
            /\ pos' = pos + 1
            /\ phase' = "data"
            /\ Emit(EscapeCode(frame[pos]))

EmitEnd == /\ phase = "data"
           /\ pos > Len(frame)
           /\ phase' = "idle"
           /\ UNCHANGED pos
           /\ Emit(SLIP_END)

Next == \/ \E f \in Frames : SendFrame(f)
        \/ EmitStart \/ EmitByte \/ EmitEscape \/ EmitCode \/ EmitEnd
        \/ Abort

Spec == Init /\ [][Next]_vars
-----------------------------------------------------------------------------
(* Types. *)
TypeOK == /\ frame \in Seq(Byte)
          /\ pos \in 1..(Len(frame) + 1)
          /\ phase \in {"idle", "start", "data", "code"}
          /\ dec \in {"hunt", "data", "esc"}
          /\ dataBuffer \in Seq(Byte)
          /\ packets \in Seq(Seq(Byte))
          /\ lost \in BOOLEAN
          /\ prevLost \in BOOLEAN
          /\ aborted \in BOOLEAN

(* A frame that reached the host whole, after another that lost no byte,   *)
(* is what getPacket returns, once, whatever bytes it is made of: a loss   *)
(* spoils its own frame and at most the next one, and a decoder that gives *)
(* up in one frame has the next one again.                                 *)
ExactDelivery == (phase = "idle" /\ ~lost /\ ~aborted /\ ~prevLost) => packets = <<frame>>

(* However many bytes were lost before, a frame that reaches the host      *)
(* whole leaves the decoder between two frames.                            *)
Resynchronised == (phase = "idle" /\ ~lost) => dec = "hunt" /\ dataBuffer = <<>>

(* What the decoder is in while the sender is at a given place of a frame  *)
(* no byte of which was lost.                                              *)
Follows == IF aborted \/ phase = "idle" THEN dec = "hunt"
           ELSE dec = (IF phase = "data" THEN "data" ELSE "esc")

SlipInv ==
  /\ phase = "start" => ~lost /\ ~aborted /\ pos = 1
  /\ phase = "code" => pos <= Len(frame) /\ frame[pos] \in Special
  /\ phase = "idle" => pos = Len(frame) + 1
  /\ dec = "hunt" => dataBuffer = <<>>
  /\ (phase = "start" /\ ~prevLost) => dec = "hunt"
  /\ (phase # "start" /\ ~lost) => Follows
  /\ phase = "start" => packets = <<>>
  /\ (phase \in {"data", "code"} /\ ~lost) => packets = <<>>
  /\ (phase \in {"data", "code"} /\ ~lost /\ ~aborted /\ ~prevLost)
       => dataBuffer = SubSeq(frame, 1, pos - 1)
  /\ ExactDelivery
=============================================================================
