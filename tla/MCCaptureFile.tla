---------------------------- MODULE MCCaptureFile ----------------------------
(* Three processes, so that two may move the file while a third appends to *)
(* it; a file is moved when it holds its header and a packet, and three    *)
(* packets fill a file, its backup and the next file.  Nothing else is     *)
(* bounded: processes die and start again for ever.                        *)
EXTENDS CaptureFile, TLC

Symmetry == Permutations(Process)
=============================================================================
