----------------------------- MODULE MCSlipLink -----------------------------
(* Frames that hold each special byte, each followed by an ordinary byte,  *)
(* an escape code or another special byte.  The decoder remembers only     *)
(* whether the byte before was SLIP_ESC, so pairs are enough.  The bound   *)
(* lets any byte of a frame be lost, its SLIP_END included, and a decoder  *)
(* that has run into the next frame lose another of that one.              *)
EXTENDS SlipLink

MCFrames == {<<>>, <<0>>, <<SLIP_START, 0>>, <<SLIP_END, SLIP_ESC>>,
             <<SLIP_ESC, SLIP_ESC_ESC>>, <<SLIP_ESC_START, SLIP_START>>}
MCMaxBuffer == 4
=============================================================================
