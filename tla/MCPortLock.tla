----------------------------- MODULE MCPortLock -----------------------------
(* Three processes.  Nothing is bounded: they open and close the port,     *)
(* die, and start again for ever.                                          *)
EXTENDS PortLock
=============================================================================
