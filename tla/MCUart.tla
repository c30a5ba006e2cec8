------------------------------- MODULE MCUart -------------------------------
(* Two byte values tell a reordering from a loss; three bytes in flight    *)
(* spread over the driver, the worker's local and the deque.               *)
EXTENDS Uart

CONSTANTS a, b

MCByte == {a, b}
MCMaxInFlight == 3
=============================================================================
