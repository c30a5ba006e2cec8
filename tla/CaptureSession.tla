--------------------------- MODULE CaptureSession ---------------------------
(***************************************************************************)
(* nrf_sniffer_ble.py, sniffer_capture: a Bluetooth LE capture with        *)
(* Wireshark's toolbar.  The main thread reads the toolbar's commands from *)
(* the control pipe; the sniffer thread (Sniffer.run) handles the dongle's *)
(* packets.  Both notify through Notifications.py, whose callbacks write   *)
(* to the capture pipe and to the control pipe, and both change the list   *)
(* of devices (Devices.py), which the toolbar shows.                       *)
(*                                                                         *)
(* Locks are taken in the order deviceListLock, listCallbackLock (the      *)
(* callbackLock of the DeviceList), callbackLock (that of the Sniffer),    *)
(* and held while the callbacks write, which may block until Wireshark     *)
(* reads.  Releasing them is part of the step before.  No RSSI filter is   *)
(* given; keys and the hop sequence change none of this, and a log line    *)
(* only when it fails because the control pipe is broken.                  *)
(***************************************************************************)
EXTENDS Naturals, Sequences

CONSTANTS
  Device,        (* addresses                                              *)
  None,          (* no device; no owner of a lock                          *)
  MaxPackets,    (* bound: packets handled                                 *)
  MaxCommands    (* bound: commands given in the toolbar                   *)

ASSUME SessionAssumption == /\ None \notin Device \cup {"main", "sniffer", "scan"}
                            /\ "scan" \notin Device
                            /\ MaxPackets \in Nat
                            /\ MaxCommands \in Nat

VARIABLES
  main,              (* where the main thread is                           *)
  initialized,       (* it has read the INIT command                       *)
  command,           (* the command it handles                             *)
  sniffer,           (* where the sniffer thread is                        *)
  packet,            (* the device its packet is about                     *)
  lock,              (* who holds each lock                                *)
  callbacks,         (* the Sniffer's callbacks are registered             *)
  relay,             (* the DeviceList's, which pass on to the Sniffer     *)
  devices,           (* the list of devices                                *)
  state,             (* the Sniffer's state                                *)
  exit,              (* self._exit                                         *)
  write_new_packets,
  in_follow_mode,
  pipesOpen,         (* fn_capture, fn_ctrl_in and fn_ctrl_out             *)
  wireshark,         (* the pipes whose other end Wireshark holds open     *)
  ctrlIn,            (* commands in the control pipe                       *)
  toolbar,           (* the devices the toolbar shows                      *)
  firmware,          (* what the dongle was last told to do                *)
  attached,          (* the dongle is plugged in                           *)
  packets,           (* number of packets handled                          *)
  commands           (* number of commands given                           *)

mainVars == <<main, initialized, command>>
snifferVars == <<sniffer, packet, packets>>
notifier == <<lock, callbacks, relay>>
list == <<devices, toolbar>>
mode == <<state, firmware, write_new_packets, in_follow_mode>>
outside == <<wireshark, ctrlIn, attached, commands>>
vars == <<main, initialized, command, sniffer, packet, packets, lock, callbacks,
          relay, devices, toolbar, state, firmware, write_new_packets,
          in_follow_mode, exit, pipesOpen, wireshark, ctrlIn, attached, commands>>

Lock == {"deviceListLock", "listCallbackLock", "callbackLock"}
Pipe == {"capture", "ctrl_in", "ctrl_out"}

(* Commands of the toolbar: a device or "all" is selected, the list is     *)
(* cleared, an address is added, or added and followed.                    *)
Command == [cmd : {"select", "add", "follow"}, device : Device]
             \cup [cmd : {"init", "all", "clear", "none"}, device : {None}]
NoCommand == [cmd |-> "none", device |-> None]

MainPC == {"setup", "scan", "scan_send", "read", "defaults", "clear", "clear_relay",
           "clear_notify", "clear_write", "add", "add_relay", "add_notify",
           "add_write", "add_set", "follow", "follow_notify", "follow_send",
           "follow_state", "teardown", "app_exit", "clear_callbacks",
           "clear_list", "close_pipes", "ended", "crashed"}
SnifferPC == {"unborn", "loop", "get", "notify", "write", "device", "find",
              "append", "relay", "show_lock", "show", "done"}

Init == /\ main = "setup"
        /\ initialized = FALSE
        /\ command = NoCommand
        /\ sniffer = "unborn"
        /\ packet = None
        /\ packets = 0
        /\ lock = [l \in Lock |-> None]
        /\ callbacks = TRUE
        /\ relay = TRUE
        /\ devices = <<>>
        /\ toolbar = {}
        /\ state = "INITIALIZING"
        /\ firmware = None
        /\ write_new_packets = FALSE
        /\ in_follow_mode = FALSE
        /\ exit = FALSE
        /\ pipesOpen = TRUE
        /\ wireshark = Pipe
        /\ ctrlIn = <<>>
        /\ attached = TRUE
        /\ commands = 0
-----------------------------------------------------------------------------
(* Wireshark and the dongle. *)

Send(c) == /\ "ctrl_in" \in wireshark
           /\ ctrlIn' = Append(ctrlIn, c)
           /\ UNCHANGED <<mainVars, snifferVars, notifier, list, mode, exit,
                          pipesOpen, wireshark, attached>>

(* The toolbar's initial values end with INIT. *)
SendInit == /\ commands = 0
            /\ commands' = 1
            /\ Send([cmd |-> "init", device |-> None])

UserCommand == /\ commands \in 1..MaxCommands
               /\ commands' = commands + 1
               /\ \E c \in Command :
                    /\ c.cmd \notin {"init", "none"}
                    /\ c.cmd = "select" => c.device \in toolbar
                    /\ Send(c)

(* The capture is stopped: Wireshark closes its ends of the pipes. *)
WiresharkCloses == /\ \E p \in wireshark : wireshark' = wireshark \ {p}
                   /\ UNCHANGED <<mainVars, snifferVars, notifier, list, mode, exit,
                                  pipesOpen, ctrlIn, attached, commands>>

Unplug == /\ attached
          /\ attached' = FALSE
          /\ UNCHANGED <<mainVars, snifferVars, notifier, list, mode, exit,
                         pipesOpen, wireshark, ctrlIn, commands>>
-----------------------------------------------------------------------------
Free(l) == lock[l] = None
Acquire(l, t) == /\ Free(l)
                 /\ lock' = [lock EXCEPT ![l] = t]
ReleaseAll(t) == lock' = [l \in Lock |-> IF lock[l] = t THEN None ELSE lock[l]]
Elements(s) == {s[i] : i \in DOMAIN s}

(* Between two commands there is none. *)
Goto(l) == /\ main' = l
           /\ command' = IF l \in {"read", "teardown"} THEN NoCommand ELSE command
           /\ UNCHANGED initialized

MainIdle == <<snifferVars, exit, pipesOpen, outside>>

(* sniffer_capture up to sniffer.start(). *)
Setup == /\ main = "setup"
         /\ attached
         /\ {"capture", "ctrl_out"} \subseteq wireshark
         /\ Goto("scan")
         /\ sniffer' = "loop"
         /\ UNCHANGED <<packet, packets, notifier, list, mode, exit, pipesOpen, outside>>

(* The port could not be opened, or the dongle is gone: setAdvHopSequence  *)
(* raises before the thread is started.                                    *)
SetupNoDongle == /\ main = "setup"
                 /\ ~attached
                 /\ Goto("teardown")
                 /\ sniffer' = "done"
                 /\ UNCHANGED <<packet, packets, notifier, list, mode, exit, pipesOpen,
                                outside>>

(* The interface is locked or missing, or a pipe is broken: the name       *)
(* sniffer is not bound when the finally clause uses it.                   *)
SetupFails == /\ main = "setup"
              /\ Goto("crashed")
              /\ UNCHANGED <<MainIdle, notifier, list, mode>>

(* A log line goes to the control pipe too (ExtcapLoggerHandler), until    *)
(* the teardown begins.  Those of the main thread come when it holds no    *)
(* lock.                                                                   *)
LogBroken == ~exit /\ "ctrl_out" \notin wireshark
AfterLog == IF LogBroken THEN "teardown" ELSE "read"

LogFails == /\ main \in {"scan", "clear", "add", "follow", "follow_send"}
            /\ LogBroken
            /\ Goto("teardown")
            /\ UNCHANGED <<MainIdle, notifier, list, mode>>
-----------------------------------------------------------------------------
(* _startScanning. *)

(* self._setState. *)
Scan == /\ main = "scan"
        /\ state' = "SCANNING"
        /\ Goto("scan_send")
        /\ UNCHANGED <<MainIdle, notifier, list, firmware, write_new_packets, in_follow_mode>>

ScanSend == /\ main = "scan_send"
            /\ Free("callbackLock")
            /\ attached
            /\ firmware' = "scan"
            /\ in_follow_mode' = (LogBroken /\ in_follow_mode)
            /\ Goto(AfterLog)
            /\ UNCHANGED <<MainIdle, notifier, list, state, write_new_packets>>

(* writeList raises SerialException, an OSError. *)
SendFails == /\ main \in {"scan_send", "follow_send"}
             /\ main = "scan_send" => Free("callbackLock")
             /\ ~attached
             /\ Goto("teardown")
             /\ UNCHANGED <<MainIdle, notifier, list, mode>>
-----------------------------------------------------------------------------
(* control_read_initial_values and control_loop. *)

\* Mutant: "all" does not make a sniffer that follows a device scan.
ScanForDevicesNot == /\ in_follow_mode' = FALSE
                     /\ main' = "read"

(* scan_for_devices. *)
ScanForDevices == IF state = "FOLLOWING"
                  THEN /\ main' = "scan"
                       /\ UNCHANGED in_follow_mode
                  ELSE /\ main' = "read"
                       /\ in_follow_mode' = FALSE

ReadCommand ==
  /\ main = "read"
  /\ ctrlIn # <<>>
  /\ LET c == Head(ctrlIn) IN
       \/ /\ c.cmd = "all"
          /\ command' = NoCommand
          /\ ScanForDevices
       \/ /\ c.cmd # "all"
          /\ command' = c
          /\ main' = CASE c.cmd = "init" -> "defaults"
                       [] c.cmd = "clear" -> "clear"
                       [] c.cmd = "select" -> "follow"
                       [] OTHER -> "add"
          /\ UNCHANGED in_follow_mode
  /\ ctrlIn' = Tail(ctrlIn)
  /\ UNCHANGED <<initialized, snifferVars, notifier, list, state, firmware,
                 write_new_packets, exit, pipesOpen, wireshark, attached, commands>>

(* control_read at the end of the file.  control_read_initial_values does  *)
(* not stop there: it reads again.                                         *)
ReadEnd == /\ main = "read"
           /\ initialized
           /\ ctrlIn = <<>> /\ "ctrl_in" \notin wireshark
           /\ Goto("teardown")
           /\ UNCHANGED <<MainIdle, notifier, list, mode>>

(* control_write_defaults, and packets are let through. *)
WriteDefaults == /\ main = "defaults"
                 /\ "ctrl_out" \in wireshark
                 /\ initialized' = TRUE
                 /\ write_new_packets' = TRUE
                 /\ command' = NoCommand
                 /\ main' = "read"
                 /\ UNCHANGED <<MainIdle, notifier, list, state, firmware, in_follow_mode>>

(* A write to the broken control pipe raises OSError; every lock is        *)
(* released.                                                               *)
WriteFails == /\ main \in {"defaults", "clear_write", "add_write", "add_set"}
              /\ "ctrl_out" \notin wireshark
              /\ ReleaseAll("main")
              /\ Goto("teardown")
              /\ UNCHANGED <<MainIdle, callbacks, relay, list, mode>>
-----------------------------------------------------------------------------
(* clear_devices: DeviceList.clear, then scan_for_devices. *)

\* Mutant: the list is cleared without its lock.
ClearUnlocked == /\ main = "clear"
                 /\ devices' = <<>>
                 /\ Goto("clear_relay")
                 /\ UNCHANGED <<MainIdle, notifier, toolbar, mode>>

Clear == /\ main = "clear"
         /\ Acquire("deviceListLock", "main")
         /\ devices' = <<>>
         /\ Goto("clear_relay")
         /\ UNCHANGED <<MainIdle, callbacks, relay, toolbar, mode>>

(* The nested notify calls of the DeviceList and of the Sniffer. *)
MainRelay == /\ main \in {"clear_relay", "add_relay"}
             /\ Acquire("listCallbackLock", "main")
             /\ Goto(IF main = "clear_relay" THEN "clear_notify" ELSE "add_notify")
             /\ UNCHANGED <<MainIdle, callbacks, relay, list, mode>>

MainNotify == /\ main \in {"clear_notify", "add_notify"}
              /\ Acquire("callbackLock", "main")
              /\ Goto(IF main = "clear_notify" THEN "clear_write" ELSE "add_write")
              /\ UNCHANGED <<MainIdle, callbacks, relay, list, mode>>

(* devices_cleared; then scan_for_devices. *)
ClearWrite == /\ main = "clear_write"
              /\ "ctrl_out" \in wireshark
              /\ toolbar' = {}
              /\ ReleaseAll("main")
              /\ command' = NoCommand
              /\ ScanForDevices
              /\ UNCHANGED <<initialized, MainIdle, callbacks, relay, devices,
                             state, firmware, write_new_packets>>
-----------------------------------------------------------------------------
(* add_address and follow_address: DeviceList.appendOrUpdate. *)

AfterAdd == IF command.cmd = "follow" THEN "add_set" ELSE "read"

AddKnown == /\ main = "add"
            /\ Free("deviceListLock")
            /\ command.device \in Elements(devices)
            /\ Goto(AfterAdd)
            /\ UNCHANGED <<MainIdle, notifier, list, mode>>

AddNew == /\ main = "add"
          /\ command.device \notin Elements(devices)
          /\ Acquire("deviceListLock", "main")
          /\ devices' = Append(devices, command.device)
          /\ Goto("add_relay")
          /\ UNCHANGED <<MainIdle, callbacks, relay, toolbar, mode>>

(* device_added. *)
AddWrite == /\ main = "add_write"
            /\ "ctrl_out" \in wireshark
            /\ toolbar' = toolbar \cup {command.device}
            /\ ReleaseAll("main")
            /\ Goto(AfterAdd)
            /\ UNCHANGED <<MainIdle, callbacks, relay, devices, mode>>

(* follow_address selects the device in the toolbar. *)
AddSet == /\ main = "add_set"
          /\ "ctrl_out" \in wireshark
          /\ Goto("follow")
          /\ UNCHANGED <<MainIdle, notifier, list, mode>>
-----------------------------------------------------------------------------
(* follow_device: _startFollowing. *)

(* setFollowed notifies; nobody is registered for it. *)
Follow == /\ main = "follow"
          /\ Acquire("listCallbackLock", "main")
          /\ Goto("follow_notify")
          /\ UNCHANGED <<MainIdle, callbacks, relay, list, mode>>

FollowNotify == /\ main = "follow_notify"
                /\ Free("callbackLock")
                /\ ReleaseAll("main")
                /\ Goto("follow_send")
                /\ UNCHANGED <<MainIdle, callbacks, relay, list, mode>>

FollowSend == /\ main = "follow_send"
              /\ attached
              /\ firmware' = command.device
              /\ state' = "FOLLOWING"
              /\ Goto("follow_state")
              /\ UNCHANGED <<MainIdle, notifier, list, write_new_packets, in_follow_mode>>

FollowState == /\ main = "follow_state"
               /\ Free("callbackLock")
               /\ in_follow_mode' = TRUE
               /\ Goto(AfterLog)
               /\ UNCHANGED <<MainIdle, notifier, list, state, firmware, write_new_packets>>
-----------------------------------------------------------------------------
(* The finally clause of sniffer_capture; _doExit. *)

\* Mutant: the thread is not told to exit.
TeardownNoExit == /\ main = "teardown"
                  /\ Goto("app_exit")
                  /\ UNCHANGED <<MainIdle, notifier, list, mode>>

Teardown == /\ main = "teardown"
            /\ exit' = TRUE
            /\ Goto("app_exit")
            /\ UNCHANGED <<snifferVars, pipesOpen, outside, notifier, list, mode>>

(* notify("APP_EXIT"): nobody is registered for it. *)
AppExit == /\ main = "app_exit"
           /\ Free("callbackLock")
           /\ Goto("clear_callbacks")
           /\ UNCHANGED <<MainIdle, notifier, list, mode>>

\* Mutant: clearCallbacks does not take the lock.
ClearCallbacksUnlocked == /\ main = "clear_callbacks"
                          /\ callbacks' = FALSE
                          /\ Goto("clear_list")
                          /\ UNCHANGED <<MainIdle, lock, relay, list, mode>>

(* Uart.close has returned (module Uart: CloseReturns). *)
ClearCallbacks == /\ main = "clear_callbacks"
                  /\ Free("callbackLock")
                  /\ callbacks' = FALSE
                  /\ Goto("clear_list")
                  /\ UNCHANGED <<MainIdle, lock, relay, list, mode>>

ClearListCallbacks == /\ main = "clear_list"
                      /\ Free("listCallbackLock")
                      /\ relay' = FALSE
                      /\ Goto("close_pipes")
                      /\ UNCHANGED <<MainIdle, lock, callbacks, list, mode>>

ClosePipes == /\ main = "close_pipes"
              /\ pipesOpen' = FALSE
              /\ Goto("ended")
              /\ UNCHANGED <<snifferVars, exit, outside, notifier, list, mode>>
-----------------------------------------------------------------------------
(* The sniffer thread: _continuouslyPipe and _processBLEPacket. *)

SnifferStep(l) == /\ sniffer' = l
                  /\ packet' = IF l \in {"loop", "done"} THEN None ELSE packet
                  /\ UNCHANGED packets

SnifferIdle == <<mainVars, mode, exit, pipesOpen, outside>>

Loop == /\ sniffer = "loop"
        /\ SnifferStep(IF exit THEN "done" ELSE "get")
        /\ UNCHANGED <<SnifferIdle, notifier, list>>

(* The serial port is silent, gone or closed, which may be logged, or the  *)
(* packet is of no use.  A log line that fails ends the thread.            *)
GetNothing == /\ sniffer = "get"
              /\ \/ SnifferStep("loop")
                 \/ LogBroken /\ SnifferStep("done")
              /\ UNCHANGED <<SnifferIdle, notifier, list>>

(* A packet, which may have been on its way for some time. *)
GetPacket == /\ sniffer = "get"
             /\ packets < MaxPackets
             /\ packets' = packets + 1
             /\ sniffer' = "notify"
             /\ UNCHANGED <<packet, SnifferIdle, notifier, list>>

(* notify("NEW_BLE_PACKET") looks up the callbacks. *)
Notify == /\ sniffer = "notify"
          /\ callbacks
          /\ Acquire("callbackLock", "sniffer")
          /\ SnifferStep("write")
          /\ UNCHANGED <<SnifferIdle, callbacks, relay, list>>

NotifyNobody == /\ sniffer = "notify"
                /\ ~callbacks
                /\ Free("callbackLock")
                /\ SnifferStep("device")
                /\ UNCHANGED <<SnifferIdle, notifier, list>>

(* new_packet: packets are held back, or this one is written. *)
NewPacket == /\ sniffer = "write"
             /\ ~write_new_packets \/ "capture" \in wireshark
             /\ ReleaseAll("sniffer")
             /\ SnifferStep("device")
             /\ UNCHANGED <<SnifferIdle, callbacks, relay, list>>

\* Mutant: the error leaves callbackLock taken.
NewPacketFailsLocked == /\ sniffer = "write"
                        /\ write_new_packets /\ "capture" \notin wireshark
                        /\ SnifferStep("done")
                        /\ UNCHANGED <<SnifferIdle, notifier, list>>

(* BrokenPipeError ends the thread (Sniffer.run). *)
NewPacketFails == /\ sniffer = "write"
                  /\ write_new_packets /\ "capture" \notin wireshark
                  /\ ReleaseAll("sniffer")
                  /\ SnifferStep("done")
                  /\ UNCHANGED <<SnifferIdle, callbacks, relay, list>>

(* Whether the packet is about a device for the list: when scanning any    *)
(* advertisement is, when following only a scan response.                  *)
ProcessPacket == /\ sniffer = "device"
                 /\ \/ SnifferStep("loop")
                    \/ /\ state # "INITIALIZING"
                       /\ packet' \in Device
                       /\ sniffer' = "find"
                       /\ UNCHANGED packets
                 /\ UNCHANGED <<SnifferIdle, notifier, list>>

\* Mutant: appendOrUpdate does not take the lock.
FindNewUnlocked == /\ sniffer = "find"
                   /\ packet \notin Elements(devices)
                   /\ SnifferStep("append")
                   /\ UNCHANGED <<SnifferIdle, notifier, list>>

(* appendOrUpdate. *)
FindNew == /\ sniffer = "find"
           /\ packet \notin Elements(devices)
           /\ Acquire("deviceListLock", "sniffer")
           /\ SnifferStep("append")
           /\ UNCHANGED <<SnifferIdle, callbacks, relay, list>>

(* Its name or its signal strength is new, or nothing is. *)
FindUpdated == /\ sniffer = "find"
               /\ packet \in Elements(devices)
               /\ Acquire("deviceListLock", "sniffer")
               /\ SnifferStep("relay")
               /\ UNCHANGED <<SnifferIdle, callbacks, relay, list>>

FindUnchanged == /\ sniffer = "find"
                 /\ packet \in Elements(devices)
                 /\ Free("deviceListLock")
                 /\ SnifferStep("loop")
                 /\ UNCHANGED <<SnifferIdle, notifier, list>>

AppendDevice == /\ sniffer = "append"
                /\ devices' = Append(devices, packet)
                /\ SnifferStep("relay")
                /\ UNCHANGED <<SnifferIdle, notifier, toolbar>>

(* The nested notify calls, as above. *)
Relay == /\ sniffer = "relay"
         /\ Acquire("listCallbackLock", "sniffer")
         /\ SnifferStep("show_lock")
         /\ UNCHANGED <<SnifferIdle, callbacks, relay, list>>

ShowLock == /\ sniffer = "show_lock"
            /\ relay /\ callbacks
            /\ Acquire("callbackLock", "sniffer")
            /\ SnifferStep("show")
            /\ UNCHANGED <<SnifferIdle, callbacks, relay, list>>

ShowNobody == /\ sniffer = "show_lock"
              /\ ~relay \/ (~callbacks /\ Free("callbackLock"))
              /\ ReleaseAll("sniffer")
              /\ SnifferStep("loop")
              /\ UNCHANGED <<SnifferIdle, callbacks, relay, list>>

(* device_added. *)
Show == /\ sniffer = "show"
        /\ "ctrl_out" \in wireshark
        /\ toolbar' = toolbar \cup {packet}
        /\ ReleaseAll("sniffer")
        /\ SnifferStep("loop")
        /\ UNCHANGED <<SnifferIdle, callbacks, relay, devices>>

(* The error is caught and logged, to the same pipe.                       *)
ShowFails == /\ sniffer = "show"
             /\ "ctrl_out" \notin wireshark
             /\ ReleaseAll("sniffer")
             /\ SnifferStep(IF LogBroken THEN "done" ELSE "loop")
             /\ UNCHANGED <<SnifferIdle, callbacks, relay, list>>
-----------------------------------------------------------------------------
(* Steps that need nobody outside the program: those that do not write to  *)
(* a pipe Wireshark holds open, or to the dongle, which may hold back RTS  *)
(* (the port has no write timeout).                                        *)
MainAlone == \/ SetupNoDongle \/ Scan \/ SendFails \/ ReadCommand \/ ReadEnd
             \/ WriteFails \/ Clear \/ MainRelay \/ MainNotify \/ AddKnown \/ AddNew
             \/ Follow \/ FollowNotify \/ FollowState \/ Teardown
             \/ AppExit \/ ClearCallbacks \/ ClearListCallbacks \/ ClosePipes

SnifferAlone == \/ Loop \/ GetNothing \/ Notify \/ NotifyNobody \/ NewPacketFails
                \/ ProcessPacket \/ FindNew \/ FindUpdated \/ FindUnchanged
                \/ AppendDevice \/ Relay \/ ShowLock \/ ShowNobody \/ ShowFails
                \/ (~write_new_packets /\ NewPacket)

Next == \/ SendInit \/ UserCommand \/ WiresharkCloses \/ Unplug
        \/ MainAlone \/ Setup \/ SetupFails \/ LogFails \/ ScanSend \/ FollowSend
        \/ WriteDefaults \/ ClearWrite
        \/ AddWrite \/ AddSet
        \/ SnifferAlone \/ GetPacket \/ NewPacket \/ Show

Spec == Init /\ [][Next]_vars

Fairness == /\ WF_vars(MainAlone)
            /\ WF_vars(SnifferAlone)

FairSpec == Spec /\ Fairness
-----------------------------------------------------------------------------
(* Types. *)
TypeOK == /\ main \in MainPC
          /\ initialized \in BOOLEAN
          /\ command \in Command
          /\ sniffer \in SnifferPC
          /\ packet \in Device \cup {None}
          /\ packets \in 0..MaxPackets
          /\ lock \in [Lock -> {None, "main", "sniffer"}]
          /\ callbacks \in BOOLEAN
          /\ relay \in BOOLEAN
          /\ devices \in Seq(Device)
          /\ toolbar \subseteq Device
          /\ state \in {"INITIALIZING", "SCANNING", "FOLLOWING"}
          /\ firmware \in Device \cup {None, "scan"}
          /\ write_new_packets \in BOOLEAN
          /\ in_follow_mode \in BOOLEAN
          /\ exit \in BOOLEAN
          /\ pipesOpen \in BOOLEAN
          /\ wireshark \subseteq Pipe
          /\ ctrlIn \in Seq(Command)
          /\ attached \in BOOLEAN
          /\ commands \in 0..(MaxCommands + 1)

(* The callbacks never write to a pipe that has been closed, although the  *)
(* sniffer thread is not joined before the pipes are: clearing the         *)
(* callbacks waits for a notification under way.                           *)
NoWriteAfterClose ==
  ~pipesOpen => /\ sniffer = "write" => ~write_new_packets
                /\ sniffer # "show"

(* No device is listed twice, though two threads add to the list.          *)
DevicesUnique == \A i, j \in DOMAIN devices : devices[i] = devices[j] => i = j

(* The toolbar shows the devices of the list whenever nobody is changing   *)
(* it, as long as Wireshark listens: additions and clearings reach the     *)
(* toolbar in the order in which the list saw them.                        *)
ToolbarInSync ==
  (Free("deviceListLock") /\ relay /\ callbacks /\ "ctrl_out" \in wireshark)
    => toolbar = Elements(devices)

(* Between two commands the plugin, the API and the dongle agree whether a *)
(* device is followed.                                                     *)
ModeConsistent ==
  main = "read" => /\ in_follow_mode = (state = "FOLLOWING")
                   /\ in_follow_mode = (firmware # "scan")

(* Once Wireshark has closed its pipes the capture ends, unless it was     *)
(* still waiting for the toolbar's initial values, or waits for ever for   *)
(* a dongle that is plugged in but does not take a command.                *)
DongleTakesNothing == main \in {"scan_send", "follow_send"} /\ attached

SessionEnds ==
  (initialized /\ wireshark = {}) ~> (main = "ended" \/ []DongleTakesNothing)

(* Nothing joins the sniffer thread, but it ends after the capture does.   *)
SnifferEnds == (main = "ended") ~> (sniffer = "done")
=============================================================================
