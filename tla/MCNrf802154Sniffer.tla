------------------------- MODULE MCNrf802154Sniffer -------------------------
(* All constants are numbers and Booleans, given in the cfg files: one     *)
(* capture of Wireshark's, with a control reader, a named pipe, no timeout *)
(* and a dongle that comes and goes (three stoppers at once), and two      *)
(* captures of a script that writes to a file, starts, stops and starts    *)
(* again.                                                                  *)
EXTENDS Nrf802154Sniffer
=============================================================================
