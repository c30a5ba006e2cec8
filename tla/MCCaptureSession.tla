-------------------------- MODULE MCCaptureSession --------------------------
(* One device, two packets and two commands after INIT: enough to find the *)
(* device, follow it and scan again, or clear the list, while the sniffer  *)
(* thread is handling a packet of the same device.                         *)
EXTENDS CaptureSession
=============================================================================
