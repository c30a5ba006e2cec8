------------------------ MODULE CaptureSessionProofs ------------------------
(***************************************************************************)
(* Proofs about CaptureSession for any devices, any number of packets and  *)
(* of commands.                                                            *)
(***************************************************************************)
EXTENDS CaptureSession, TLAPS

(* Where the two threads hold each lock. *)
ListMain == {"clear_relay", "clear_notify", "clear_write", "add_relay", "add_notify",
             "add_write"}
ListSniffer == {"append", "relay", "show_lock", "show"}
RelayMain == {"clear_notify", "clear_write", "add_notify", "add_write", "follow_notify"}
RelaySniffer == {"show_lock", "show"}
NotifyMain == {"clear_write", "add_write"}
NotifySniffer == {"write", "show"}

Held(l, mainAt, snifferAt) ==
  /\ ~(main \in mainAt /\ sniffer \in snifferAt)
  /\ lock[l] = IF main \in mainAt THEN "main"
               ELSE IF sniffer \in snifferAt THEN "sniffer" ELSE None

(* A lock is held exactly where the code is inside its with statement, so  *)
(* that the two threads are never inside both.                             *)
LockInv == /\ main = "setup" => sniffer = "unborn"
           /\ Held("deviceListLock", ListMain, ListSniffer)
           /\ Held("listCallbackLock", RelayMain, RelaySniffer)
           /\ Held("callbackLock", NotifyMain, NotifySniffer)

(* A command that needs a device has one, and so has a packet.             *)
DeviceInv == /\ main \in {"add", "add_relay", "add_notify", "add_write", "add_set",
                          "follow", "follow_notify", "follow_send", "follow_state"}
                  => command.device \in Device
             /\ \A i \in DOMAIN ctrlIn :
                  /\ ctrlIn[i].cmd # "none"
                  /\ ctrlIn[i].cmd \in {"select", "add", "follow"} => ctrlIn[i].device \in Device
             /\ sniffer \in {"find", "append", "relay", "show_lock", "show"} => packet \in Device

(* What has been taken down when.                                          *)
TeardownInv == /\ callbacks = (main \notin {"clear_list", "close_pipes", "ended"})
               /\ pipesOpen = (main # "ended")
               /\ ~callbacks => sniffer \notin {"write", "show"}

(* A device about to be appended is not in the list.                       *)
ListInv == /\ DevicesUnique
           /\ sniffer = "append" => packet \notin Elements(devices)

(* How far the toolbar is behind the list while a thread changes it.       *)
ToolbarInv ==
  (relay /\ callbacks /\ "ctrl_out" \in wireshark) =>
    /\ Free("deviceListLock") => toolbar = Elements(devices)
    /\ main \in {"clear_relay", "clear_notify", "clear_write"} => devices = <<>>
    /\ main \in {"add_relay", "add_notify", "add_write"}
         => Elements(devices) = toolbar \cup {command.device}
    /\ sniffer = "append" => toolbar = Elements(devices)
    /\ sniffer \in {"relay", "show_lock", "show"} => Elements(devices) = toolbar \cup {packet}

(* The plugin, the API and the dongle agree except where the main thread   *)
(* is changing their minds, one after the other.                           *)
Agree == /\ in_follow_mode = (state = "FOLLOWING")
         /\ in_follow_mode = (firmware # "scan")

ModeInv == /\ main \in {"read", "defaults", "clear", "clear_relay", "clear_notify",
                       "clear_write", "add", "add_relay", "add_notify", "add_write",
                       "add_set", "follow", "follow_notify", "follow_send"} => Agree
           /\ main = "scan_send" => state = "SCANNING"
           /\ main = "follow_state" => state = "FOLLOWING" /\ firmware # "scan"
-----------------------------------------------------------------------------
(* The commands the program and Wireshark make up. *)
LEMMA CommandFacts == /\ NoCommand \in Command
                      /\ [cmd |-> "init", device |-> None] \in Command
  BY DEF Command, NoCommand

(* The initial states satisfy the invariants. *)
LEMMA InitInv == Init => TypeOK /\ LockInv /\ DeviceInv /\ TeardownInv /\ ListInv /\ ToolbarInv
  <1> SUFFICES ASSUME Init
               PROVE TypeOK /\ LockInv /\ DeviceInv /\ TeardownInv /\ ListInv /\ ToolbarInv
    OBVIOUS
  <1> USE SessionAssumption DEF Init
  <1>1. TypeOK
    <2>1. lock \in [Lock -> {None, "main", "sniffer"}]
      OBVIOUS
    <2>2. devices \in Seq(Device) /\ ctrlIn \in Seq(Command)
      OBVIOUS
    <2>3. main \in MainPC /\ sniffer \in SnifferPC /\ command \in Command
      BY CommandFacts DEF MainPC, SnifferPC
    <2>4. packets \in 0..MaxPackets /\ commands \in 0..(MaxCommands + 1)
      OBVIOUS
    <2>5. /\ initialized \in BOOLEAN /\ callbacks \in BOOLEAN /\ relay \in BOOLEAN
          /\ write_new_packets \in BOOLEAN /\ in_follow_mode \in BOOLEAN
          /\ exit \in BOOLEAN /\ pipesOpen \in BOOLEAN /\ attached \in BOOLEAN
      OBVIOUS
    <2> QED BY <2>1, <2>2, <2>3, <2>4, <2>5 DEF TypeOK
  <1>2. LockInv
    BY DEF LockInv, Held, Lock, ListMain, ListSniffer, RelayMain, RelaySniffer, NotifyMain,
           NotifySniffer
  <1>3. DeviceInv /\ TeardownInv
    <2>1. DeviceInv
      BY DEF DeviceInv
    <2>2. TeardownInv
      BY DEF TeardownInv
    <2> QED BY <2>1, <2>2
  <1>4. ListInv /\ ToolbarInv
    BY DEF ListInv, DevicesUnique, ToolbarInv, Elements, Free
  <1> QED BY <1>1, <1>2, <1>3, <1>4

(* Every step preserves the types. *)
LEMMA NextTypeOK == TypeOK /\ DeviceInv /\ [Next]_vars => TypeOK'
  <1> SUFFICES ASSUME TypeOK /\ DeviceInv, [Next]_vars PROVE TypeOK'
    OBVIOUS
  <1> USE SessionAssumption, CommandFacts DEF TypeOK, DeviceInv, MainPC, SnifferPC, Pipe, mainVars, snifferVars, notifier, list, mode, outside, MainIdle, SnifferIdle, Goto, SnifferStep, Acquire, Free, ReleaseAll, Lock
  <1>1. CASE UNCHANGED vars
    BY <1>1 DEF vars
  <1>2. CASE SendInit
    BY <1>2 DEF SendInit, Send
  <1>3. CASE UserCommand
    BY <1>3 DEF UserCommand, Send
  <1>4. CASE WiresharkCloses
    BY <1>4 DEF WiresharkCloses
  <1>5. CASE Unplug
    <2> USE <1>5 DEF Unplug
    <2>1. main' \in MainPC /\ command' \in Command /\ sniffer' \in SnifferPC
      OBVIOUS
    <2>2. packet' \in Device \cup {None} /\ packets' \in 0..MaxPackets /\ commands' \in 0..(MaxCommands + 1)
      OBVIOUS
    <2>3. lock' \in [Lock -> {None, "main", "sniffer"}]
      OBVIOUS
    <2>4. devices' \in Seq(Device) /\ toolbar' \subseteq Device /\ ctrlIn' \in Seq(Command)
      OBVIOUS
    <2>5. /\ wireshark' \subseteq Pipe
          /\ state' \in {"INITIALIZING", "SCANNING", "FOLLOWING"}
          /\ firmware' \in Device \cup {None, "scan"}
      OBVIOUS
    <2>6. initialized' \in BOOLEAN
      OBVIOUS
    <2>7. callbacks' \in BOOLEAN
      OBVIOUS
    <2>8. relay' \in BOOLEAN
      OBVIOUS
    <2>9. write_new_packets' \in BOOLEAN
      OBVIOUS
    <2>10. in_follow_mode' \in BOOLEAN
      OBVIOUS
    <2>11. exit' \in BOOLEAN
      OBVIOUS
    <2>12. pipesOpen' \in BOOLEAN
      OBVIOUS
    <2>13. attached' \in BOOLEAN
      OBVIOUS
    <2> QED BY <2>1, <2>2, <2>3, <2>4, <2>5, <2>6, <2>7, <2>8, <2>9, <2>10, <2>11, <2>12, <2>13
  <1>6. CASE Setup
    BY <1>6 DEF Setup
  <1>7. CASE SetupNoDongle
    BY <1>7 DEF SetupNoDongle
  <1>8. CASE SetupFails
    BY <1>8 DEF SetupFails
  <1>9. CASE LogFails
    BY <1>9 DEF LogFails
  <1>10. CASE Scan
    BY <1>10 DEF Scan
  <1>11. CASE ScanSend
    BY <1>11 DEF ScanSend, AfterLog
  <1>12. CASE SendFails
    BY <1>12 DEF SendFails
  <1>13. CASE ReadCommand
    <2> USE <1>13 DEF ReadCommand, ScanForDevices
    <2>1. main' \in MainPC /\ command' \in Command /\ sniffer' \in SnifferPC
      OBVIOUS
    <2>2. packet' \in Device \cup {None} /\ packets' \in 0..MaxPackets /\ commands' \in 0..(MaxCommands + 1)
      OBVIOUS
    <2>3. lock' \in [Lock -> {None, "main", "sniffer"}]
      OBVIOUS
    <2>4. devices' \in Seq(Device) /\ toolbar' \subseteq Device /\ ctrlIn' \in Seq(Command)
      OBVIOUS
    <2>5. /\ wireshark' \subseteq Pipe
          /\ state' \in {"INITIALIZING", "SCANNING", "FOLLOWING"}
          /\ firmware' \in Device \cup {None, "scan"}
      OBVIOUS
    <2>6. initialized' \in BOOLEAN
      OBVIOUS
    <2>7. callbacks' \in BOOLEAN
      OBVIOUS
    <2>8. relay' \in BOOLEAN
      OBVIOUS
    <2>9. write_new_packets' \in BOOLEAN
      OBVIOUS
    <2>10. in_follow_mode' \in BOOLEAN
      OBVIOUS
    <2>11. exit' \in BOOLEAN
      OBVIOUS
    <2>12. pipesOpen' \in BOOLEAN
      OBVIOUS
    <2>13. attached' \in BOOLEAN
      OBVIOUS
    <2> QED BY <2>1, <2>2, <2>3, <2>4, <2>5, <2>6, <2>7, <2>8, <2>9, <2>10, <2>11, <2>12, <2>13
  <1>14. CASE ReadEnd
    BY <1>14 DEF ReadEnd
  <1>15. CASE WriteDefaults
    BY <1>15 DEF WriteDefaults
  <1>16. CASE WriteFails
    BY <1>16 DEF WriteFails
  <1>17. CASE Clear
    BY <1>17 DEF Clear
  <1>18. CASE MainRelay
    BY <1>18 DEF MainRelay
  <1>19. CASE MainNotify
    BY <1>19 DEF MainNotify
  <1>20. CASE ClearWrite
    <2> USE <1>20 DEF ClearWrite, ScanForDevices
    <2>1. main' \in MainPC /\ command' \in Command /\ sniffer' \in SnifferPC
      OBVIOUS
    <2>2. packet' \in Device \cup {None} /\ packets' \in 0..MaxPackets /\ commands' \in 0..(MaxCommands + 1)
      OBVIOUS
    <2>3. lock' \in [Lock -> {None, "main", "sniffer"}]
      OBVIOUS
    <2>4. devices' \in Seq(Device) /\ toolbar' \subseteq Device /\ ctrlIn' \in Seq(Command)
      OBVIOUS
    <2>5. /\ wireshark' \subseteq Pipe
          /\ state' \in {"INITIALIZING", "SCANNING", "FOLLOWING"}
          /\ firmware' \in Device \cup {None, "scan"}
      OBVIOUS
    <2>6. initialized' \in BOOLEAN
      OBVIOUS
    <2>7. callbacks' \in BOOLEAN
      OBVIOUS
    <2>8. relay' \in BOOLEAN
      OBVIOUS
    <2>9. write_new_packets' \in BOOLEAN
      OBVIOUS
    <2>10. in_follow_mode' \in BOOLEAN
      OBVIOUS
    <2>11. exit' \in BOOLEAN
      OBVIOUS
    <2>12. pipesOpen' \in BOOLEAN
      OBVIOUS
    <2>13. attached' \in BOOLEAN
      OBVIOUS
    <2> QED BY <2>1, <2>2, <2>3, <2>4, <2>5, <2>6, <2>7, <2>8, <2>9, <2>10, <2>11, <2>12, <2>13
  <1>21. CASE AddKnown
    BY <1>21 DEF AddKnown, AfterAdd
  <1>22. CASE AddNew
    BY <1>22 DEF AddNew
  <1>23. CASE AddWrite
    BY <1>23 DEF AddWrite, AfterAdd
  <1>24. CASE AddSet
    BY <1>24 DEF AddSet
  <1>25. CASE Follow
    BY <1>25 DEF Follow
  <1>26. CASE FollowNotify
    BY <1>26 DEF FollowNotify
  <1>27. CASE FollowSend
    BY <1>27 DEF FollowSend
  <1>28. CASE FollowState
    BY <1>28 DEF FollowState, AfterLog
  <1>29. CASE Teardown
    BY <1>29 DEF Teardown
  <1>30. CASE AppExit
    BY <1>30 DEF AppExit
  <1>31. CASE ClearCallbacks
    <2> USE <1>31 DEF ClearCallbacks
    <2>1. main' \in MainPC /\ command' \in Command /\ sniffer' \in SnifferPC
      OBVIOUS
    <2>2. packet' \in Device \cup {None} /\ packets' \in 0..MaxPackets /\ commands' \in 0..(MaxCommands + 1)
      OBVIOUS
    <2>3. lock' \in [Lock -> {None, "main", "sniffer"}]
      OBVIOUS
    <2>4. devices' \in Seq(Device) /\ toolbar' \subseteq Device /\ ctrlIn' \in Seq(Command)
      OBVIOUS
    <2>5. /\ wireshark' \subseteq Pipe
          /\ state' \in {"INITIALIZING", "SCANNING", "FOLLOWING"}
          /\ firmware' \in Device \cup {None, "scan"}
      OBVIOUS
    <2>6. initialized' \in BOOLEAN
      OBVIOUS
    <2>7. callbacks' \in BOOLEAN
      OBVIOUS
    <2>8. relay' \in BOOLEAN
      OBVIOUS
    <2>9. write_new_packets' \in BOOLEAN
      OBVIOUS
    <2>10. in_follow_mode' \in BOOLEAN
      OBVIOUS
    <2>11. exit' \in BOOLEAN
      OBVIOUS
    <2>12. pipesOpen' \in BOOLEAN
      OBVIOUS
    <2>13. attached' \in BOOLEAN
      OBVIOUS
    <2> QED BY <2>1, <2>2, <2>3, <2>4, <2>5, <2>6, <2>7, <2>8, <2>9, <2>10, <2>11, <2>12, <2>13
  <1>32. CASE ClearListCallbacks
    <2> USE <1>32 DEF ClearListCallbacks
    <2>1. main' \in MainPC /\ command' \in Command /\ sniffer' \in SnifferPC
      OBVIOUS
    <2>2. packet' \in Device \cup {None} /\ packets' \in 0..MaxPackets /\ commands' \in 0..(MaxCommands + 1)
      OBVIOUS
    <2>3. lock' \in [Lock -> {None, "main", "sniffer"}]
      OBVIOUS
    <2>4. devices' \in Seq(Device) /\ toolbar' \subseteq Device /\ ctrlIn' \in Seq(Command)
      OBVIOUS
    <2>5. /\ wireshark' \subseteq Pipe
          /\ state' \in {"INITIALIZING", "SCANNING", "FOLLOWING"}
          /\ firmware' \in Device \cup {None, "scan"}
      OBVIOUS
    <2>6. initialized' \in BOOLEAN
      OBVIOUS
    <2>7. callbacks' \in BOOLEAN
      OBVIOUS
    <2>8. relay' \in BOOLEAN
      OBVIOUS
    <2>9. write_new_packets' \in BOOLEAN
      OBVIOUS
    <2>10. in_follow_mode' \in BOOLEAN
      OBVIOUS
    <2>11. exit' \in BOOLEAN
      OBVIOUS
    <2>12. pipesOpen' \in BOOLEAN
      OBVIOUS
    <2>13. attached' \in BOOLEAN
      OBVIOUS
    <2> QED BY <2>1, <2>2, <2>3, <2>4, <2>5, <2>6, <2>7, <2>8, <2>9, <2>10, <2>11, <2>12, <2>13
  <1>33. CASE ClosePipes
    <2> USE <1>33 DEF ClosePipes
    <2>1. main' \in MainPC /\ command' \in Command /\ sniffer' \in SnifferPC
      OBVIOUS
    <2>2. packet' \in Device \cup {None} /\ packets' \in 0..MaxPackets /\ commands' \in 0..(MaxCommands + 1)
      OBVIOUS
    <2>3. lock' \in [Lock -> {None, "main", "sniffer"}]
      OBVIOUS
    <2>4. devices' \in Seq(Device) /\ toolbar' \subseteq Device /\ ctrlIn' \in Seq(Command)
      OBVIOUS
    <2>5. /\ wireshark' \subseteq Pipe
          /\ state' \in {"INITIALIZING", "SCANNING", "FOLLOWING"}
          /\ firmware' \in Device \cup {None, "scan"}
      OBVIOUS
    <2>6. initialized' \in BOOLEAN
      OBVIOUS
    <2>7. callbacks' \in BOOLEAN
      OBVIOUS
    <2>8. relay' \in BOOLEAN
      OBVIOUS
    <2>9. write_new_packets' \in BOOLEAN
      OBVIOUS
    <2>10. in_follow_mode' \in BOOLEAN
      OBVIOUS
    <2>11. exit' \in BOOLEAN
      OBVIOUS
    <2>12. pipesOpen' \in BOOLEAN
      OBVIOUS
    <2>13. attached' \in BOOLEAN
      OBVIOUS
    <2> QED BY <2>1, <2>2, <2>3, <2>4, <2>5, <2>6, <2>7, <2>8, <2>9, <2>10, <2>11, <2>12, <2>13
  <1>34. CASE Loop
    BY <1>34 DEF Loop
  <1>35. CASE GetNothing
    BY <1>35 DEF GetNothing
  <1>36. CASE GetPacket
    BY <1>36 DEF GetPacket
  <1>37. CASE Notify
    BY <1>37 DEF Notify
  <1>38. CASE NotifyNobody
    BY <1>38 DEF NotifyNobody
  <1>39. CASE NewPacket
    BY <1>39 DEF NewPacket
  <1>40. CASE NewPacketFails
    BY <1>40 DEF NewPacketFails
  <1>41. CASE ProcessPacket
    BY <1>41 DEF ProcessPacket
  <1>42. CASE FindNew
    BY <1>42 DEF FindNew
  <1>43. CASE FindUpdated
    BY <1>43 DEF FindUpdated
  <1>44. CASE FindUnchanged
    BY <1>44 DEF FindUnchanged
  <1>45. CASE AppendDevice
    BY <1>45 DEF AppendDevice
  <1>46. CASE Relay
    BY <1>46 DEF Relay
  <1>47. CASE ShowLock
    BY <1>47 DEF ShowLock
  <1>48. CASE ShowNobody
    BY <1>48 DEF ShowNobody
  <1>49. CASE Show
    BY <1>49 DEF Show
  <1>50. CASE ShowFails
    BY <1>50 DEF ShowFails
  <1> QED BY <1>1, <1>2, <1>3, <1>4, <1>5, <1>6, <1>7, <1>8, <1>9, <1>10, <1>11, <1>12, <1>13, <1>14, <1>15, <1>16, <1>17, <1>18, <1>19, <1>20, <1>21, <1>22, <1>23, <1>24, <1>25, <1>26, <1>27, <1>28, <1>29, <1>30, <1>31, <1>32, <1>33, <1>34, <1>35, <1>36, <1>37, <1>38, <1>39, <1>40, <1>41, <1>42, <1>43, <1>44, <1>45, <1>46, <1>47, <1>48, <1>49, <1>50 DEF Next, MainAlone, SnifferAlone

(* Every step preserves the ownership of the locks. *)
LEMMA NextLockInv == TypeOK /\ LockInv /\ [Next]_vars => LockInv'
  <1> SUFFICES ASSUME TypeOK /\ LockInv, [Next]_vars PROVE LockInv'
    OBVIOUS
  <1> USE SessionAssumption DEF TypeOK, LockInv, Held, ListMain, ListSniffer, RelayMain, RelaySniffer, NotifyMain, NotifySniffer, mainVars, snifferVars, notifier, list, mode, outside, MainIdle, SnifferIdle, Goto, SnifferStep, Acquire, Free, ReleaseAll, Lock, NoCommand
  <1>1. CASE UNCHANGED vars
    BY <1>1 DEF vars
  <1>2. CASE SendInit
    BY <1>2 DEF SendInit, Send
  <1>3. CASE UserCommand
    BY <1>3 DEF UserCommand, Send
  <1>4. CASE WiresharkCloses
    BY <1>4 DEF WiresharkCloses
  <1>5. CASE Unplug
    BY <1>5 DEF Unplug
  <1>6. CASE Setup
    BY <1>6 DEF Setup
  <1>7. CASE SetupNoDongle
    BY <1>7 DEF SetupNoDongle
  <1>8. CASE SetupFails
    BY <1>8 DEF SetupFails
  <1>9. CASE LogFails
    BY <1>9 DEF LogFails
  <1>10. CASE Scan
    BY <1>10 DEF Scan
  <1>11. CASE ScanSend
    BY <1>11 DEF ScanSend, AfterLog
  <1>12. CASE SendFails
    BY <1>12 DEF SendFails
  <1>13. CASE ReadCommand
    BY <1>13 DEF ReadCommand, ScanForDevices, Command, NoCommand
  <1>14. CASE ReadEnd
    BY <1>14 DEF ReadEnd
  <1>15. CASE WriteDefaults
    BY <1>15 DEF WriteDefaults, NoCommand
  <1>16. CASE WriteFails
    BY <1>16 DEF WriteFails
  <1>17. CASE Clear
    BY <1>17 DEF Clear
  <1>18. CASE MainRelay
    BY <1>18 DEF MainRelay
  <1>19. CASE MainNotify
    BY <1>19 DEF MainNotify
  <1>20. CASE ClearWrite
    BY <1>20 DEF ClearWrite, ScanForDevices, NoCommand
  <1>21. CASE AddKnown
    BY <1>21 DEF AddKnown, AfterAdd
  <1>22. CASE AddNew
    BY <1>22 DEF AddNew
  <1>23. CASE AddWrite
    BY <1>23 DEF AddWrite, AfterAdd
  <1>24. CASE AddSet
    BY <1>24 DEF AddSet
  <1>25. CASE Follow
    BY <1>25 DEF Follow
  <1>26. CASE FollowNotify
    BY <1>26 DEF FollowNotify
  <1>27. CASE FollowSend
    BY <1>27 DEF FollowSend
  <1>28. CASE FollowState
    BY <1>28 DEF FollowState, AfterLog
  <1>29. CASE Teardown
    BY <1>29 DEF Teardown
  <1>30. CASE AppExit
    BY <1>30 DEF AppExit
  <1>31. CASE ClearCallbacks
    BY <1>31 DEF ClearCallbacks
  <1>32. CASE ClearListCallbacks
    BY <1>32 DEF ClearListCallbacks
  <1>33. CASE ClosePipes
    BY <1>33 DEF ClosePipes
  <1>34. CASE Loop
    BY <1>34 DEF Loop
  <1>35. CASE GetNothing
    BY <1>35 DEF GetNothing
  <1>36. CASE GetPacket
    BY <1>36 DEF GetPacket
  <1>37. CASE Notify
    BY <1>37 DEF Notify
  <1>38. CASE NotifyNobody
    BY <1>38 DEF NotifyNobody
  <1>39. CASE NewPacket
    BY <1>39 DEF NewPacket
  <1>40. CASE NewPacketFails
    BY <1>40 DEF NewPacketFails
  <1>41. CASE ProcessPacket
    BY <1>41 DEF ProcessPacket
  <1>42. CASE FindNew
    BY <1>42 DEF FindNew
  <1>43. CASE FindUpdated
    BY <1>43 DEF FindUpdated
  <1>44. CASE FindUnchanged
    BY <1>44 DEF FindUnchanged
  <1>45. CASE AppendDevice
    BY <1>45 DEF AppendDevice
  <1>46. CASE Relay
    BY <1>46 DEF Relay
  <1>47. CASE ShowLock
    BY <1>47 DEF ShowLock
  <1>48. CASE ShowNobody
    BY <1>48 DEF ShowNobody
  <1>49. CASE Show
    BY <1>49 DEF Show
  <1>50. CASE ShowFails
    BY <1>50 DEF ShowFails
  <1> QED BY <1>1, <1>2, <1>3, <1>4, <1>5, <1>6, <1>7, <1>8, <1>9, <1>10, <1>11, <1>12, <1>13, <1>14, <1>15, <1>16, <1>17, <1>18, <1>19, <1>20, <1>21, <1>22, <1>23, <1>24, <1>25, <1>26, <1>27, <1>28, <1>29, <1>30, <1>31, <1>32, <1>33, <1>34, <1>35, <1>36, <1>37, <1>38, <1>39, <1>40, <1>41, <1>42, <1>43, <1>44, <1>45, <1>46, <1>47, <1>48, <1>49, <1>50 DEF Next, MainAlone, SnifferAlone

(* Every step keeps devices where they are needed. *)
LEMMA NextDeviceInv == TypeOK /\ DeviceInv /\ [Next]_vars => DeviceInv'
  <1> SUFFICES ASSUME TypeOK /\ DeviceInv, [Next]_vars PROVE DeviceInv'
    OBVIOUS
  <1> USE SessionAssumption DEF TypeOK, DeviceInv, Command, SnifferPC, MainPC, mainVars, snifferVars, notifier, list, mode, outside, MainIdle, SnifferIdle, Goto, SnifferStep, Acquire, Free, ReleaseAll, Lock, NoCommand
  <1>1. CASE UNCHANGED vars
    BY <1>1 DEF vars
  <1>2. CASE SendInit
    BY <1>2 DEF SendInit, Send
  <1>3. CASE UserCommand
    BY <1>3 DEF UserCommand, Send
  <1>4. CASE WiresharkCloses
    BY <1>4 DEF WiresharkCloses
  <1>5. CASE Unplug
    BY <1>5 DEF Unplug
  <1>6. CASE Setup
    BY <1>6 DEF Setup
  <1>7. CASE SetupNoDongle
    BY <1>7 DEF SetupNoDongle
  <1>8. CASE SetupFails
    BY <1>8 DEF SetupFails
  <1>9. CASE LogFails
    BY <1>9 DEF LogFails
  <1>10. CASE Scan
    BY <1>10 DEF Scan
  <1>11. CASE ScanSend
    BY <1>11 DEF ScanSend, AfterLog
  <1>12. CASE SendFails
    BY <1>12 DEF SendFails
  <1>13. CASE ReadCommand
    <2> USE <1>13 DEF ReadCommand, ScanForDevices, Command, NoCommand
    <2>1. Head(ctrlIn) = ctrlIn[1] /\ 1 \in DOMAIN ctrlIn /\ ctrlIn[1] \in Command
      OBVIOUS
    <2>2. main' \in {"add", "follow"} => command' = ctrlIn[1] /\ ctrlIn[1].cmd \in {"select", "add", "follow"}
      BY <2>1
    <2>3. main' \in {"scan", "read", "defaults", "clear", "add", "follow"}
      BY <2>1
    <2>4. \A i \in DOMAIN ctrlIn' : i + 1 \in DOMAIN ctrlIn /\ ctrlIn'[i] = ctrlIn[i + 1]
      OBVIOUS
    <2>5. sniffer' = sniffer /\ packet' = packet
      OBVIOUS
    <2> QED BY <2>1, <2>2, <2>3, <2>4, <2>5
  <1>14. CASE ReadEnd
    BY <1>14 DEF ReadEnd
  <1>15. CASE WriteDefaults
    BY <1>15 DEF WriteDefaults, NoCommand
  <1>16. CASE WriteFails
    BY <1>16 DEF WriteFails
  <1>17. CASE Clear
    BY <1>17 DEF Clear
  <1>18. CASE MainRelay
    BY <1>18 DEF MainRelay
  <1>19. CASE MainNotify
    BY <1>19 DEF MainNotify
  <1>20. CASE ClearWrite
    BY <1>20 DEF ClearWrite, ScanForDevices, NoCommand
  <1>21. CASE AddKnown
    BY <1>21 DEF AddKnown, AfterAdd
  <1>22. CASE AddNew
    BY <1>22 DEF AddNew
  <1>23. CASE AddWrite
    BY <1>23 DEF AddWrite, AfterAdd
  <1>24. CASE AddSet
    BY <1>24 DEF AddSet
  <1>25. CASE Follow
    BY <1>25 DEF Follow
  <1>26. CASE FollowNotify
    BY <1>26 DEF FollowNotify
  <1>27. CASE FollowSend
    BY <1>27 DEF FollowSend
  <1>28. CASE FollowState
    BY <1>28 DEF FollowState, AfterLog
  <1>29. CASE Teardown
    BY <1>29 DEF Teardown
  <1>30. CASE AppExit
    BY <1>30 DEF AppExit
  <1>31. CASE ClearCallbacks
    BY <1>31 DEF ClearCallbacks
  <1>32. CASE ClearListCallbacks
    BY <1>32 DEF ClearListCallbacks
  <1>33. CASE ClosePipes
    BY <1>33 DEF ClosePipes
  <1>34. CASE Loop
    BY <1>34 DEF Loop
  <1>35. CASE GetNothing
    BY <1>35 DEF GetNothing
  <1>36. CASE GetPacket
    BY <1>36 DEF GetPacket
  <1>37. CASE Notify
    BY <1>37 DEF Notify
  <1>38. CASE NotifyNobody
    BY <1>38 DEF NotifyNobody
  <1>39. CASE NewPacket
    BY <1>39 DEF NewPacket
  <1>40. CASE NewPacketFails
    BY <1>40 DEF NewPacketFails
  <1>41. CASE ProcessPacket
    BY <1>41 DEF ProcessPacket
  <1>42. CASE FindNew
    BY <1>42 DEF FindNew
  <1>43. CASE FindUpdated
    BY <1>43 DEF FindUpdated
  <1>44. CASE FindUnchanged
    BY <1>44 DEF FindUnchanged
  <1>45. CASE AppendDevice
    BY <1>45 DEF AppendDevice
  <1>46. CASE Relay
    BY <1>46 DEF Relay
  <1>47. CASE ShowLock
    BY <1>47 DEF ShowLock
  <1>48. CASE ShowNobody
    BY <1>48 DEF ShowNobody
  <1>49. CASE Show
    BY <1>49 DEF Show
  <1>50. CASE ShowFails
    BY <1>50 DEF ShowFails
  <1> QED BY <1>1, <1>2, <1>3, <1>4, <1>5, <1>6, <1>7, <1>8, <1>9, <1>10, <1>11, <1>12, <1>13, <1>14, <1>15, <1>16, <1>17, <1>18, <1>19, <1>20, <1>21, <1>22, <1>23, <1>24, <1>25, <1>26, <1>27, <1>28, <1>29, <1>30, <1>31, <1>32, <1>33, <1>34, <1>35, <1>36, <1>37, <1>38, <1>39, <1>40, <1>41, <1>42, <1>43, <1>44, <1>45, <1>46, <1>47, <1>48, <1>49, <1>50 DEF Next, MainAlone, SnifferAlone

(* Clearing the callbacks waits for the callbacks to return. *)
LEMMA NextTeardownInv == TypeOK /\ LockInv /\ TeardownInv /\ [Next]_vars => TeardownInv'
  <1> SUFFICES ASSUME TypeOK /\ LockInv /\ TeardownInv, [Next]_vars PROVE TeardownInv'
    OBVIOUS
  <1> USE SessionAssumption DEF TypeOK, LockInv, Held, NotifyMain, NotifySniffer, TeardownInv, mainVars, snifferVars, notifier, list, mode, outside, MainIdle, SnifferIdle, Goto, SnifferStep, Acquire, Free, ReleaseAll, Lock, NoCommand
  <1>1. CASE UNCHANGED vars
    BY <1>1 DEF vars
  <1>2. CASE SendInit
    BY <1>2 DEF SendInit, Send
  <1>3. CASE UserCommand
    BY <1>3 DEF UserCommand, Send
  <1>4. CASE WiresharkCloses
    BY <1>4 DEF WiresharkCloses
  <1>5. CASE Unplug
    BY <1>5 DEF Unplug
  <1>6. CASE Setup
    BY <1>6 DEF Setup
  <1>7. CASE SetupNoDongle
    BY <1>7 DEF SetupNoDongle
  <1>8. CASE SetupFails
    BY <1>8 DEF SetupFails
  <1>9. CASE LogFails
    BY <1>9 DEF LogFails
  <1>10. CASE Scan
    BY <1>10 DEF Scan
  <1>11. CASE ScanSend
    BY <1>11 DEF ScanSend, AfterLog
  <1>12. CASE SendFails
    BY <1>12 DEF SendFails
  <1>13. CASE ReadCommand
    BY <1>13 DEF ReadCommand, ScanForDevices, Command, NoCommand
  <1>14. CASE ReadEnd
    BY <1>14 DEF ReadEnd
  <1>15. CASE WriteDefaults
    BY <1>15 DEF WriteDefaults, NoCommand
  <1>16. CASE WriteFails
    BY <1>16 DEF WriteFails
  <1>17. CASE Clear
    BY <1>17 DEF Clear
  <1>18. CASE MainRelay
    BY <1>18 DEF MainRelay
  <1>19. CASE MainNotify
    BY <1>19 DEF MainNotify
  <1>20. CASE ClearWrite
    BY <1>20 DEF ClearWrite, ScanForDevices, NoCommand
  <1>21. CASE AddKnown
    BY <1>21 DEF AddKnown, AfterAdd
  <1>22. CASE AddNew
    BY <1>22 DEF AddNew
  <1>23. CASE AddWrite
    BY <1>23 DEF AddWrite, AfterAdd
  <1>24. CASE AddSet
    BY <1>24 DEF AddSet
  <1>25. CASE Follow
    BY <1>25 DEF Follow
  <1>26. CASE FollowNotify
    BY <1>26 DEF FollowNotify
  <1>27. CASE FollowSend
    BY <1>27 DEF FollowSend
  <1>28. CASE FollowState
    BY <1>28 DEF FollowState, AfterLog
  <1>29. CASE Teardown
    BY <1>29 DEF Teardown
  <1>30. CASE AppExit
    BY <1>30 DEF AppExit
  <1>31. CASE ClearCallbacks
    BY <1>31 DEF ClearCallbacks
  <1>32. CASE ClearListCallbacks
    BY <1>32 DEF ClearListCallbacks
  <1>33. CASE ClosePipes
    BY <1>33 DEF ClosePipes
  <1>34. CASE Loop
    BY <1>34 DEF Loop
  <1>35. CASE GetNothing
    BY <1>35 DEF GetNothing
  <1>36. CASE GetPacket
    BY <1>36 DEF GetPacket
  <1>37. CASE Notify
    BY <1>37 DEF Notify
  <1>38. CASE NotifyNobody
    BY <1>38 DEF NotifyNobody
  <1>39. CASE NewPacket
    BY <1>39 DEF NewPacket
  <1>40. CASE NewPacketFails
    BY <1>40 DEF NewPacketFails
  <1>41. CASE ProcessPacket
    BY <1>41 DEF ProcessPacket
  <1>42. CASE FindNew
    BY <1>42 DEF FindNew
  <1>43. CASE FindUpdated
    BY <1>43 DEF FindUpdated
  <1>44. CASE FindUnchanged
    BY <1>44 DEF FindUnchanged
  <1>45. CASE AppendDevice
    BY <1>45 DEF AppendDevice
  <1>46. CASE Relay
    BY <1>46 DEF Relay
  <1>47. CASE ShowLock
    BY <1>47 DEF ShowLock
  <1>48. CASE ShowNobody
    BY <1>48 DEF ShowNobody
  <1>49. CASE Show
    BY <1>49 DEF Show
  <1>50. CASE ShowFails
    BY <1>50 DEF ShowFails
  <1> QED BY <1>1, <1>2, <1>3, <1>4, <1>5, <1>6, <1>7, <1>8, <1>9, <1>10, <1>11, <1>12, <1>13, <1>14, <1>15, <1>16, <1>17, <1>18, <1>19, <1>20, <1>21, <1>22, <1>23, <1>24, <1>25, <1>26, <1>27, <1>28, <1>29, <1>30, <1>31, <1>32, <1>33, <1>34, <1>35, <1>36, <1>37, <1>38, <1>39, <1>40, <1>41, <1>42, <1>43, <1>44, <1>45, <1>46, <1>47, <1>48, <1>49, <1>50 DEF Next, MainAlone, SnifferAlone

(* Every step keeps the devices of the list distinct. *)
LEMMA NextListInv == TypeOK /\ LockInv /\ DeviceInv /\ ListInv /\ [Next]_vars => ListInv'
  <1> SUFFICES ASSUME TypeOK /\ LockInv /\ DeviceInv /\ ListInv, [Next]_vars PROVE ListInv'
    OBVIOUS
  <1> USE SessionAssumption DEF TypeOK, LockInv, Held, ListMain, ListSniffer, DeviceInv, ListInv, DevicesUnique, Elements, mainVars, snifferVars, notifier, list, mode, outside, MainIdle, SnifferIdle, Goto, SnifferStep, Acquire, Free, ReleaseAll, Lock, NoCommand
  <1>1. CASE UNCHANGED vars
    BY <1>1 DEF vars
  <1>2. CASE SendInit
    BY <1>2 DEF SendInit, Send
  <1>3. CASE UserCommand
    BY <1>3 DEF UserCommand, Send
  <1>4. CASE WiresharkCloses
    BY <1>4 DEF WiresharkCloses
  <1>5. CASE Unplug
    BY <1>5 DEF Unplug
  <1>6. CASE Setup
    BY <1>6 DEF Setup
  <1>7. CASE SetupNoDongle
    BY <1>7 DEF SetupNoDongle
  <1>8. CASE SetupFails
    BY <1>8 DEF SetupFails
  <1>9. CASE LogFails
    BY <1>9 DEF LogFails
  <1>10. CASE Scan
    BY <1>10 DEF Scan
  <1>11. CASE ScanSend
    BY <1>11 DEF ScanSend, AfterLog
  <1>12. CASE SendFails
    BY <1>12 DEF SendFails
  <1>13. CASE ReadCommand
    BY <1>13 DEF ReadCommand, ScanForDevices, Command, NoCommand
  <1>14. CASE ReadEnd
    BY <1>14 DEF ReadEnd
  <1>15. CASE WriteDefaults
    BY <1>15 DEF WriteDefaults, NoCommand
  <1>16. CASE WriteFails
    BY <1>16 DEF WriteFails
  <1>17. CASE Clear
    BY <1>17 DEF Clear
  <1>18. CASE MainRelay
    BY <1>18 DEF MainRelay
  <1>19. CASE MainNotify
    BY <1>19 DEF MainNotify
  <1>20. CASE ClearWrite
    BY <1>20 DEF ClearWrite, ScanForDevices, NoCommand
  <1>21. CASE AddKnown
    BY <1>21 DEF AddKnown, AfterAdd
  <1>22. CASE AddNew
    BY <1>22 DEF AddNew
  <1>23. CASE AddWrite
    BY <1>23 DEF AddWrite, AfterAdd
  <1>24. CASE AddSet
    BY <1>24 DEF AddSet
  <1>25. CASE Follow
    BY <1>25 DEF Follow
  <1>26. CASE FollowNotify
    BY <1>26 DEF FollowNotify
  <1>27. CASE FollowSend
    BY <1>27 DEF FollowSend
  <1>28. CASE FollowState
    BY <1>28 DEF FollowState, AfterLog
  <1>29. CASE Teardown
    BY <1>29 DEF Teardown
  <1>30. CASE AppExit
    BY <1>30 DEF AppExit
  <1>31. CASE ClearCallbacks
    BY <1>31 DEF ClearCallbacks
  <1>32. CASE ClearListCallbacks
    BY <1>32 DEF ClearListCallbacks
  <1>33. CASE ClosePipes
    BY <1>33 DEF ClosePipes
  <1>34. CASE Loop
    BY <1>34 DEF Loop
  <1>35. CASE GetNothing
    BY <1>35 DEF GetNothing
  <1>36. CASE GetPacket
    BY <1>36 DEF GetPacket
  <1>37. CASE Notify
    BY <1>37 DEF Notify
  <1>38. CASE NotifyNobody
    BY <1>38 DEF NotifyNobody
  <1>39. CASE NewPacket
    BY <1>39 DEF NewPacket
  <1>40. CASE NewPacketFails
    BY <1>40 DEF NewPacketFails
  <1>41. CASE ProcessPacket
    BY <1>41 DEF ProcessPacket
  <1>42. CASE FindNew
    BY <1>42 DEF FindNew
  <1>43. CASE FindUpdated
    BY <1>43 DEF FindUpdated
  <1>44. CASE FindUnchanged
    BY <1>44 DEF FindUnchanged
  <1>45. CASE AppendDevice
    BY <1>45 DEF AppendDevice
  <1>46. CASE Relay
    BY <1>46 DEF Relay
  <1>47. CASE ShowLock
    BY <1>47 DEF ShowLock
  <1>48. CASE ShowNobody
    BY <1>48 DEF ShowNobody
  <1>49. CASE Show
    BY <1>49 DEF Show
  <1>50. CASE ShowFails
    BY <1>50 DEF ShowFails
  <1> QED BY <1>1, <1>2, <1>3, <1>4, <1>5, <1>6, <1>7, <1>8, <1>9, <1>10, <1>11, <1>12, <1>13, <1>14, <1>15, <1>16, <1>17, <1>18, <1>19, <1>20, <1>21, <1>22, <1>23, <1>24, <1>25, <1>26, <1>27, <1>28, <1>29, <1>30, <1>31, <1>32, <1>33, <1>34, <1>35, <1>36, <1>37, <1>38, <1>39, <1>40, <1>41, <1>42, <1>43, <1>44, <1>45, <1>46, <1>47, <1>48, <1>49, <1>50 DEF Next, MainAlone, SnifferAlone

(* Every step keeps the toolbar with the list. *)
LEMMA NextToolbarInv == TypeOK /\ LockInv /\ DeviceInv /\ TeardownInv /\ ToolbarInv /\ [Next]_vars => ToolbarInv'
  <1> SUFFICES ASSUME TypeOK /\ LockInv /\ DeviceInv /\ TeardownInv /\ ToolbarInv, [Next]_vars PROVE ToolbarInv'
    OBVIOUS
  <1> USE SessionAssumption DEF TypeOK, LockInv, Held, ListMain, ListSniffer, RelayMain, RelaySniffer, NotifyMain, NotifySniffer, TeardownInv, DeviceInv, ToolbarInv, Elements, mainVars, snifferVars, notifier, list, mode, outside, MainIdle, SnifferIdle, Goto, SnifferStep, Acquire, Free, ReleaseAll, Lock, NoCommand
  <1>1. CASE UNCHANGED vars
    BY <1>1 DEF vars
  <1>2. CASE SendInit
    BY <1>2 DEF SendInit, Send
  <1>3. CASE UserCommand
    BY <1>3 DEF UserCommand, Send
  <1>4. CASE WiresharkCloses
    <2> USE <1>4 DEF WiresharkCloses
    <2>1. (relay' /\ callbacks' /\ "ctrl_out" \in wireshark') =>
            (Free("deviceListLock") => toolbar = Elements(devices))'
      OBVIOUS
    <2>2. (relay' /\ callbacks' /\ "ctrl_out" \in wireshark') =>
            (main \in {"clear_relay", "clear_notify", "clear_write"} => devices = <<>>)'
      OBVIOUS
    <2>3. (relay' /\ callbacks' /\ "ctrl_out" \in wireshark') =>
            (main \in {"add_relay", "add_notify", "add_write"}
               => Elements(devices) = toolbar \cup {command.device})'
      OBVIOUS
    <2>4. (relay' /\ callbacks' /\ "ctrl_out" \in wireshark') =>
            (sniffer = "append" => toolbar = Elements(devices))'
      OBVIOUS
    <2>5. (relay' /\ callbacks' /\ "ctrl_out" \in wireshark') =>
            (sniffer \in {"relay", "show_lock", "show"} => Elements(devices) = toolbar \cup {packet})'
      BY ZenonT(60)
    <2> QED BY <2>1, <2>2, <2>3, <2>4, <2>5
  <1>5. CASE Unplug
    BY <1>5 DEF Unplug
  <1>6. CASE Setup
    BY <1>6 DEF Setup
  <1>7. CASE SetupNoDongle
    BY <1>7 DEF SetupNoDongle
  <1>8. CASE SetupFails
    BY <1>8 DEF SetupFails
  <1>9. CASE LogFails
    BY SMTT(30), <1>9 DEF LogFails
  <1>10. CASE Scan
    BY SMTT(30), <1>10 DEF Scan
  <1>11. CASE ScanSend
    BY <1>11 DEF ScanSend, AfterLog
  <1>12. CASE SendFails
    BY <1>12 DEF SendFails
  <1>13. CASE ReadCommand
    BY <1>13 DEF ReadCommand, ScanForDevices, Command, NoCommand
  <1>14. CASE ReadEnd
    BY <1>14 DEF ReadEnd
  <1>15. CASE WriteDefaults
    BY <1>15 DEF WriteDefaults, NoCommand
  <1>16. CASE WriteFails
    BY <1>16 DEF WriteFails
  <1>17. CASE Clear
    BY <1>17 DEF Clear
  <1>18. CASE MainRelay
    BY <1>18 DEF MainRelay
  <1>19. CASE MainNotify
    <2> USE <1>19 DEF MainNotify
    <2>1. (relay' /\ callbacks' /\ "ctrl_out" \in wireshark') =>
            (Free("deviceListLock") => toolbar = Elements(devices))'
      OBVIOUS
    <2>2. (relay' /\ callbacks' /\ "ctrl_out" \in wireshark') =>
            (main \in {"clear_relay", "clear_notify", "clear_write"} => devices = <<>>)'
      OBVIOUS
    <2>3. (relay' /\ callbacks' /\ "ctrl_out" \in wireshark') =>
            (main \in {"add_relay", "add_notify", "add_write"}
               => Elements(devices) = toolbar \cup {command.device})'
      OBVIOUS
    <2>4. (relay' /\ callbacks' /\ "ctrl_out" \in wireshark') =>
            (sniffer = "append" => toolbar = Elements(devices))'
      OBVIOUS
    <2>5. (relay' /\ callbacks' /\ "ctrl_out" \in wireshark') =>
            (sniffer \in {"relay", "show_lock", "show"} => Elements(devices) = toolbar \cup {packet})'
      OBVIOUS
    <2> QED BY <2>1, <2>2, <2>3, <2>4, <2>5
  <1>20. CASE ClearWrite
    BY <1>20 DEF ClearWrite, ScanForDevices, NoCommand
  <1>21. CASE AddKnown
    BY <1>21 DEF AddKnown, AfterAdd
  <1>22. CASE AddNew
    BY SMTT(30), <1>22 DEF AddNew
  <1>23. CASE AddWrite
    BY ZenonT(60), <1>23 DEF AddWrite, AfterAdd
  <1>24. CASE AddSet
    BY <1>24 DEF AddSet
  <1>25. CASE Follow
    <2> USE <1>25 DEF Follow
    <2>1. (relay' /\ callbacks' /\ "ctrl_out" \in wireshark') =>
            (Free("deviceListLock") => toolbar = Elements(devices))'
      OBVIOUS
    <2>2. (relay' /\ callbacks' /\ "ctrl_out" \in wireshark') =>
            (main \in {"clear_relay", "clear_notify", "clear_write"} => devices = <<>>)'
      OBVIOUS
    <2>3. (relay' /\ callbacks' /\ "ctrl_out" \in wireshark') =>
            (main \in {"add_relay", "add_notify", "add_write"}
               => Elements(devices) = toolbar \cup {command.device})'
      OBVIOUS
    <2>4. (relay' /\ callbacks' /\ "ctrl_out" \in wireshark') =>
            (sniffer = "append" => toolbar = Elements(devices))'
      OBVIOUS
    <2>5. (relay' /\ callbacks' /\ "ctrl_out" \in wireshark') =>
            (sniffer \in {"relay", "show_lock", "show"} => Elements(devices) = toolbar \cup {packet})'
      BY ZenonT(90)
    <2> QED BY <2>1, <2>2, <2>3, <2>4, <2>5
  <1>26. CASE FollowNotify
    BY <1>26 DEF FollowNotify
  <1>27. CASE FollowSend
    BY ZenonT(60), <1>27 DEF FollowSend
  <1>28. CASE FollowState
    BY <1>28 DEF FollowState, AfterLog
  <1>29. CASE Teardown
    BY <1>29 DEF Teardown
  <1>30. CASE AppExit
    BY <1>30 DEF AppExit
  <1>31. CASE ClearCallbacks
    BY <1>31 DEF ClearCallbacks
  <1>32. CASE ClearListCallbacks
    BY <1>32 DEF ClearListCallbacks
  <1>33. CASE ClosePipes
    BY <1>33 DEF ClosePipes
  <1>34. CASE Loop
    BY <1>34 DEF Loop
  <1>35. CASE GetNothing
    BY <1>35 DEF GetNothing
  <1>36. CASE GetPacket
    BY <1>36 DEF GetPacket
  <1>37. CASE Notify
    BY <1>37 DEF Notify
  <1>38. CASE NotifyNobody
    BY <1>38 DEF NotifyNobody
  <1>39. CASE NewPacket
    BY <1>39 DEF NewPacket
  <1>40. CASE NewPacketFails
    BY <1>40 DEF NewPacketFails
  <1>41. CASE ProcessPacket
    BY <1>41 DEF ProcessPacket
  <1>42. CASE FindNew
    BY <1>42 DEF FindNew
  <1>43. CASE FindUpdated
    BY <1>43 DEF FindUpdated
  <1>44. CASE FindUnchanged
    BY <1>44 DEF FindUnchanged
  <1>45. CASE AppendDevice
    BY <1>45 DEF AppendDevice
  <1>46. CASE Relay
    <2> USE <1>46 DEF Relay
    <2> HIDE DEF Elements
    <2>1. UNCHANGED <<relay, callbacks, wireshark, devices, toolbar, packet, main, command>>
      OBVIOUS
    <2>2. (relay' /\ callbacks' /\ "ctrl_out" \in wireshark') =>
            (Free("deviceListLock") => toolbar = Elements(devices))'
      BY <2>1
    <2>3. (relay' /\ callbacks' /\ "ctrl_out" \in wireshark') =>
            (main \in {"clear_relay", "clear_notify", "clear_write"} => devices = <<>>)'
      BY <2>1
    <2>4. (relay' /\ callbacks' /\ "ctrl_out" \in wireshark') =>
            (main \in {"add_relay", "add_notify", "add_write"}
               => Elements(devices) = toolbar \cup {command.device})'
      BY <2>1
    <2>5. (relay' /\ callbacks' /\ "ctrl_out" \in wireshark') =>
            (sniffer = "append" => toolbar = Elements(devices))'
      BY <2>1
    <2>6. (relay' /\ callbacks' /\ "ctrl_out" \in wireshark') =>
            (sniffer \in {"relay", "show_lock", "show"} => Elements(devices) = toolbar \cup {packet})'
      BY <2>1
    <2> QED BY <2>1, <2>2, <2>3, <2>4, <2>5, <2>6
  <1>47. CASE ShowLock
    <2> USE <1>47 DEF ShowLock
    <2> HIDE DEF Elements
    <2>1. UNCHANGED <<relay, callbacks, wireshark, devices, toolbar, packet, main, command>>
      OBVIOUS
    <2>2. (relay' /\ callbacks' /\ "ctrl_out" \in wireshark') =>
            (Free("deviceListLock") => toolbar = Elements(devices))'
      BY <2>1
    <2>3. (relay' /\ callbacks' /\ "ctrl_out" \in wireshark') =>
            (main \in {"clear_relay", "clear_notify", "clear_write"} => devices = <<>>)'
      BY <2>1
    <2>4. (relay' /\ callbacks' /\ "ctrl_out" \in wireshark') =>
            (main \in {"add_relay", "add_notify", "add_write"}
               => Elements(devices) = toolbar \cup {command.device})'
      BY <2>1
    <2>5. (relay' /\ callbacks' /\ "ctrl_out" \in wireshark') =>
            (sniffer = "append" => toolbar = Elements(devices))'
      BY <2>1
    <2>6. (relay' /\ callbacks' /\ "ctrl_out" \in wireshark') =>
            (sniffer \in {"relay", "show_lock", "show"} => Elements(devices) = toolbar \cup {packet})'
      BY <2>1
    <2> QED BY <2>1, <2>2, <2>3, <2>4, <2>5, <2>6
  <1>48. CASE ShowNobody
    BY <1>48 DEF ShowNobody
  <1>49. CASE Show
    BY ZenonT(60), <1>49 DEF Show
  <1>50. CASE ShowFails
    BY <1>50 DEF ShowFails
  <1> QED BY <1>1, <1>2, <1>3, <1>4, <1>5, <1>6, <1>7, <1>8, <1>9, <1>10, <1>11, <1>12, <1>13, <1>14, <1>15, <1>16, <1>17, <1>18, <1>19, <1>20, <1>21, <1>22, <1>23, <1>24, <1>25, <1>26, <1>27, <1>28, <1>29, <1>30, <1>31, <1>32, <1>33, <1>34, <1>35, <1>36, <1>37, <1>38, <1>39, <1>40, <1>41, <1>42, <1>43, <1>44, <1>45, <1>46, <1>47, <1>48, <1>49, <1>50 DEF Next, MainAlone, SnifferAlone

(* Every step keeps them in agreement between two commands: a command      *)
(* changes all three or, when the dongle or a pipe is gone, ends the       *)
(* dialogue.                                                               *)
LEMMA NextModeInv == DeviceInv /\ ModeInv /\ [Next]_vars => ModeInv'
  <1> SUFFICES ASSUME DeviceInv, ModeInv, [Next]_vars PROVE ModeInv'
    OBVIOUS
  <1> USE DEF ModeInv, Agree
  <1>1. CASE UNCHANGED <<main, mode>>
    BY <1>1 DEF mode
  <1>2. ASSUME \/ SendInit \/ UserCommand \/ WiresharkCloses \/ Unplug \/ UNCHANGED vars
               \/ SnifferAlone \/ GetPacket \/ NewPacket \/ Show
        PROVE  UNCHANGED <<main, mode>>
    <2>1. CASE SendInit \/ UserCommand \/ WiresharkCloses \/ Unplug \/ UNCHANGED vars
      BY <2>1 DEF SendInit, UserCommand, Send, WiresharkCloses, Unplug, vars, mainVars, mode
    <2>2. CASE SnifferAlone \/ GetPacket \/ NewPacket \/ Show
      BY <2>2 DEF SnifferAlone, SnifferIdle, mainVars, Loop, GetNothing, GetPacket, Notify,
           NotifyNobody, NewPacket, NewPacketFails, ProcessPacket, FindNew, FindUpdated,
           FindUnchanged, AppendDevice, Relay, ShowLock, ShowNobody, Show, ShowFails
    <2> QED  BY <1>2, <2>1, <2>2
  <1> USE DEF Goto, mode
  <1>3. CASE \/ Setup \/ SetupNoDongle \/ SetupFails \/ LogFails \/ SendFails \/ ReadEnd
             \/ WriteFails \/ Teardown \/ AppExit \/ ClearCallbacks \/ ClearListCallbacks
             \/ ClosePipes
    BY <1>3 DEF Setup, SetupNoDongle, SetupFails, LogFails, SendFails, ReadEnd, WriteFails,
         Teardown, AppExit, ClearCallbacks, ClearListCallbacks, ClosePipes
  <1>4. CASE Scan
    BY <1>4 DEF Scan
  <1>5. CASE ScanSend
    BY <1>5 DEF ScanSend, AfterLog
  <1>6. CASE ReadCommand
    BY <1>6 DEF ReadCommand, ScanForDevices
  <1>7. CASE ClearWrite
    BY <1>7 DEF ClearWrite, ScanForDevices
  <1>8. CASE \/ WriteDefaults \/ Clear \/ MainRelay \/ MainNotify \/ AddKnown \/ AddNew
             \/ AddWrite \/ AddSet \/ Follow \/ FollowNotify
    BY <1>8 DEF WriteDefaults, Clear, MainRelay, MainNotify, AddKnown, AddNew, AddWrite,
         AddSet, AfterAdd, Follow, FollowNotify
  <1>9. CASE FollowSend
    BY <1>9, SessionAssumption DEF FollowSend, DeviceInv
  <1>10. CASE FollowState
    BY <1>10 DEF FollowState, AfterLog
  <1> QED  BY <1>1, <1>2, <1>3, <1>4, <1>5, <1>6, <1>7, <1>8, <1>9, <1>10
           DEF Next, MainAlone

-----------------------------------------------------------------------------
(* The inductive invariant. *)
IInv == TypeOK /\ LockInv /\ DeviceInv /\ TeardownInv /\ ListInv /\ ToolbarInv /\ ModeInv

(* The conjunction is inductive, so every reachable state satisfies it. *)
LEMMA Inductive == Spec => []IInv
  <1>1. Init => IInv
    <2>1. Init => ModeInv
      BY DEF Init, ModeInv
    <2> QED  BY <2>1, InitInv DEF IInv
  <1>2. IInv /\ [Next]_vars => IInv'
    BY NextTypeOK, NextLockInv, NextDeviceInv, NextTeardownInv, NextListInv,
       NextToolbarInv, NextModeInv DEF IInv
  <1> QED BY <1>1, <1>2, PTL DEF Spec

(* Every variable of sniffer_capture and of the sniffer thread keeps to    *)
(* its type.                                                               *)
THEOREM SessionTypeOK == Spec => []TypeOK
  <1>1. IInv => TypeOK
    BY DEF IInv
  <1> QED BY <1>1, Inductive, PTL

(* clearCallbacks waits for a notification under way, so that no callback  *)
(* writes to a pipe that sniffer_capture has closed, although it does not  *)
(* join the sniffer thread.                                                *)
THEOREM SessionNoWriteAfterClose == Spec => []NoWriteAfterClose
  <1>1. IInv => NoWriteAfterClose
    BY DEF IInv, TeardownInv, NoWriteAfterClose
  <1> QED BY <1>1, Inductive, PTL

(* The two threads that add to the DeviceList never list a device twice.   *)
THEOREM SessionDevicesUnique == Spec => []DevicesUnique
  <1>1. IInv => DevicesUnique
    BY DEF IInv, ListInv
  <1> QED BY <1>1, Inductive, PTL

(* The toolbar shows the devices of the list whenever no thread is         *)
(* changing it.                                                            *)
THEOREM SessionToolbarInSync == Spec => []ToolbarInSync
  <1>1. IInv => ToolbarInSync
    BY DEF IInv, ToolbarInv, ToolbarInSync
  <1> QED BY <1>1, Inductive, PTL

(* Between two commands of the toolbar the plugin (in_follow_mode), the    *)
(* Sniffer's state and what the dongle was told agree whether a device is  *)
(* followed, whichever step of a command fails.                            *)
THEOREM SessionModeConsistent == Spec => []ModeConsistent
  <1>1. IInv => ModeConsistent
    BY DEF IInv, ModeInv, Agree, ModeConsistent
  <1> QED BY <1>1, Inductive, PTL
=============================================================================
