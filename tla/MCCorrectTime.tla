---------------------------- MODULE MCCorrectTime ----------------------------
(* A period of six ticks, first packets before and after an overflow and   *)
(* times up to two periods after the latest possible first packet: every   *)
(* timestamp, number of overflows and drift; the device starts again at    *)
(* the times a first packet may come.                                      *)
EXTENDS CorrectTime

MCHalf == 3
MCStartTimer == {0, 5, 7}
MCStartClock == {0, 10}
MCMaxTimer == 19
=============================================================================
