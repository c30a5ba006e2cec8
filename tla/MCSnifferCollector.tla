------------------------- MODULE MCSnifferCollector -------------------------
(* The counter wraps after three packets and the buffer holds up to four,  *)
(* so that, as in the code (2^16 and 100001), two packets of one counter   *)
(* value fit into it, and the cut is smaller than what is left.            *)
EXTENDS SnifferCollector

MCNumbers == {-1, 0, 1, 2}
=============================================================================
