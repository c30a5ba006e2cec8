# Verification of the sniffer tools

TLA+ models of the host programs in this repository that receive what an
nRF52840 dongle sniffs from the air: the Bluetooth LE sniffer
(`tools/ble_sniffer/extcap`) and the 802.15.4 sniffer
(`tools/nrf802154_sniffer`). TLC checks the models on small instances; TLAPS
proves the theorems listed below for every value of the constants. The rest of
the repository (firmware images, Zephyr samples, the documentation site, launch
scripts) has no program logic of its own to model.

## Inventory

### Bluetooth LE sniffer

Bytes flow from left to right, each arrow is a different hand-over:

    dongle -> Uart worker thread -> deque -> PacketReader -> SnifferCollector
           (serial line)       (Event, no lock)  (calls)      (locks, callbacks)
                                                    |              |
                                            packet buffer     capture pipe,
                                         (user's thread)     control pipe, pcap file

| component | state | operations | what makes it hard | what makes it correct |
|---|---|---|---|---|
| `UART.py` `Uart` | deque `read_queue`, Event `read_queue_has_data`, `reading`, the port | `_read_worker`, `readByte`, `writeList`, `close` | three threads around a deque and an Event with no lock between them; an unplugged dongle; a close against a blocked read and a blocked wait | bytes come out in order, none lost or twice; no lost wake-up; `close` returns and wakes the reader |
| `Packet.py` `PacketReader` | the decoder's buffer, `lastReceivedPacket`, `lastReceivedTimestampPacket`, `supportedProtocolVersion`, the packet counter of requests | `encodeToSLIP`, `decodeFromSLIP`, `getPacket`, `handlePacketCompatibility`, `convertPacketListProtoVer2`, `handlePacketHistory`, `send...` | lost bytes, timeouts in the middle of a frame, starting in the middle of a frame, escape codes; three versions of the protocol; the time of a packet counted from one that may be long gone | a frame that arrives whole is delivered exactly; a loss spoils at most its own frame and the next, and is noticed; a Wireshark of version 2 gets the right time differences |
| `Packet.py` `Packet`, `BlePacket` | none | `readStaticHeader`, `readDynamicHeader`, `readPayload`, `extractAddresses`, `extractName` | offsets that depend on version, PHY and kind of packet; a padding byte taken out of the middle of a list that carries its own length; loops over lengths found in the packet | what was on the air comes out unchanged; address and name are the advertiser's; a damaged list is refused |
| `SnifferCollector.py`, `Sniffer.py` | `_packets` under `_packetListLock`, `_inConnection`, `_connectEventPacketCounterValue`, `_packetsInLastConnection`, `_currentConnectRequest`, `_last_time`, `_last_timestamp`, `state`, `_exit` | `_continuouslyPipe`, `_appendPacket`, `_getPackets`, `_findPacketByPacketCounter`, `_startScanning`, `_startFollowing`, `_doExit` | two threads around the buffer and its limit; a 16-bit counter and a 32-bit timer that wrap; lost events | each packet fetched once, in order; the books about the connection right; times exact |
| `Devices.py` | the list under its lock | `appendOrUpdate`, `clear`, `setFollowed`, `find` | called by two threads, notifies while holding its lock | no device twice; the toolbar shows what the list holds |
| `Notifications.py` | callbacks under their lock | `subscribe`, `notify`, `clearCallbacks` | callbacks run under the lock and may block | no callback after `clearCallbacks`; no deadlock |
| `nrf_sniffer_ble.py` | `fn_capture`, `fn_ctrl_*`, `write_new_packets`, `capture_*` | `sniffer_capture`, `control_loop`, `new_packet` | pipes closed by Wireshark at any time; teardown while the sniffer thread runs | nothing written to a closed pipe; the capture ends |
| `Filelock.py` | the lock file | `lock`, `unlock` | two processes; a process that died | one owner of a port |
| `CaptureFiles.py`, `Pcap.py` | the capture file and its backup, one path for all captures of a user | `__init__`, `startNewFile`, `writePacket`, `doRollover` | several processes that open, empty and rename it by name; a crash before the header | every file begins with a header; no packet is lost but with the oldest backup |
| `Logger.py` | the handlers | `initLogger`, `addTimestamp`, `doRollover` | - | nothing depends on it |

### 802.15.4 sniffer

`nrf802154_sniffer.py` is one object shared by a script (or Wireshark's signal
handlers) and up to four threads it starts for a capture: the serial reader, the
serial writer, the FIFO writer and, with a toolbar, the control reader. They
share `running`, `setup_done`, `serial`, `serial_queue`, `queue` and `threads`
without a lock, and three of them may call `stop_sig_handler` at once, which
joins the others. Hard: the stop against the setup, against another stop and
against a reader that is just opening the port; a second capture of the same
object; an unplugged dongle. Correct: no thread is lost track of, a stop
returns, the threads end, the firmware is asleep and the port free afterwards.
`correct_time` turns the dongle's 32-bit microsecond timestamps into the host's
time; correct when exact over overflows.

PROJECT.json lists the same components with what is left out of each, and, under
`hazards`, the lines where the code is hard to test.

## Modules

| module | models | extends or instantiates |
|---|---|---|
| `ByteFifo` | abstract: the serial port as the packet reader may rely on it | |
| `Uart` | class `Uart`, refines `ByteFifo` | `ByteFifo` |
| `SlipLink` | a SLIP sender, a line that loses bytes, `decodeFromSLIP` | |
| `Packet` | the constructors of `Packet` and `BlePacket` as operators on lists of bytes | |
| `PacketReader` | a dongle that sends what it hears on the air, in any version of the protocol, a line that loses packets and bytes, `getPacket` with its conversion and its history | `Packet` |
| `PacketQueue` | abstract: the packet buffer as the user of `getPackets` may rely on it | |
| `SnifferCollector` | packet buffer, connection books, packet times; refines `PacketQueue` | `PacketQueue` |
| `CaptureSession` | the main thread and the sniffer thread of a BLE capture with a toolbar: commands, scanning and following, device list, notifications, teardown | |
| `PortLock` | `Filelock` and its callers: processes that share a port's lock file, with its theorems | |
| `CaptureFile` | `CaptureFileHandler` in processes that share one capture file | |
| `Nrf802154Sniffer` | the life of a capture | |
| `CorrectTime` | `correct_time` | |
| `UartProofs`, `SlipLinkProofs`, `SnifferCollectorProofs`, `CaptureSessionProofs`, `CaptureFileProofs`, `PacketReaderProofs` | theorems | the module they are named after |
| `Nrf802154SnifferProofs` | theorems about the two modules of the 802.15.4 sniffer | `Nrf802154Sniffer`, `CorrectTime` |
| `MC...` | constants for TLC | the module they are named after |

The layers are connected by what they promise: `ByteFifo` says that the port
delivers in order and without loss what reached the driver, which is why the
line of `SlipLink` keeps the order of bytes and loses them only before the port;
`SlipLink` shows that a frame that is delivered was sent, in order, or lost a
byte; `PacketReader` shows that a list which lost a byte is refused (with the
exception below), which is why the line of `SnifferCollector` carries whole
packets in order and loses them. That argument is on paper: the layers are not
composed in one state space.
In the same way `CaptureSession` takes from `SnifferCollector` that packets
arrive one at a time and from `Uart` that `close` returns, and `PortLock` is
what happens before and after a `Uart` lives.

### Uart

An action is one operation on an object two threads share. The worker's
locations are `reset` (`reset_input_buffer`), `loop` (`while self.reading`),
`read`, `extend` (`read_queue.extend`) and `set`; the reader's are those of
`readByte`: `wait`, `clear`, `pop`, `check` (`len(self.read_queue) > 0`) and
`set`; the closer's those of `close`. `InFlight`, the concatenation of deque,
worker's local and driver buffer, is the content of the FIFO. A worker that meets
an unplugged or closed port ends: a `SerialException` clears `reading`, any other
exception does not. Left out: the values of the timeouts (a wait may time out
whenever the Event is clear).

### SlipLink

The sender of a frame (`encodeToSLIP`) puts one byte at a time on the line, which
delivers it to the decoder's current loop (`hunt` for the start byte, `data`,
`esc` after an escape byte) or loses it. `Abort` is an exception in the decoder
(`SnifferTimeout`, `UARTPacketError`); the next call starts with an empty buffer.
`lost`, `prevLost` and `aborted` record what happened to the current and the
previous frame so that the properties can say what is promised when.

### Packet and PacketReader

`Packet` is the two constructors, position by position: `ReadPacket(list)` is
the packet the code makes of a list, `InvalidPacket` where it sets `valid` to
false, and a record without the fields that were still to come where it catches
an exception half-way ("malformed"; such a packet stays valid). `Unreadable`
names the lists at which `BlePacket` raises. Not every attribute is kept: those
that copy a byte and that nothing in the repository reads are left out.

`PacketReader` supplies the other side. A frame on the air is a record of fields
(`Frames`), `AirBytes` puts it into the bytes that were on the air, as the
Bluetooth specification does, and `FrameList` into what the firmware sends: a
header in the version of the protocol it speaks, and the frame with a padding
byte behind the length. `Get...` are calls of `getPacket`; the list arrives whole
(`GetFrame`, `GetOther`), without one of its bytes (`GetDamaged...`), or not at
all (`Lose`). `heard` and `heardBefore` remember the frame a packet was made of,
so that the properties compare what the code made of the bytes with what was on
the air and not with the bytes again. `TimeDelta` is the difference the code
writes into the timestamp for a Wireshark that knows version 2 only.

What the code does at the edges, which the properties state as their exceptions:

* Lengths and version share the first bytes of a list, so a list without one of
  its first three bytes may be read as one of version 1, if the counter behind
  them is 1 modulo 256. The length then fits if the payload has one byte (the
  version is missing) or one byte more than the number of the version (one of the
  length is missing). No sniffed packet is that short, but `PING_RESP` is in
  version 1 and `RESP_TIMESTAMP` in version 3. Such a list reads as a packet of
  any id, and if that is a sniffed packet's, it has no timestamp. `_processBLEPacket`
  asks no packet of version 1 for its time (SnifferCollector.py:125) and passes it on.
  But `handlePacketHistory` remembers it, and for a Wireshark of version 2 the next
  sniffed packet is counted from it (Packet.py:202): the `AttributeError` is none of
  those that `_continuouslyPipe` catches and ends the sniffer thread (`Raises`,
  `ended`). `LossDetected` says which lists these are, and that nothing else raises.
* `getPacketTime` takes the payload length of the last packet received
  (Packet.py:169), not of the last one with a timestamp. The difference is wrong
  when a packet without one came in between (`adjacent` in `DeltaExact`).
* `extractName` searches up to the end of the list and so reads the CRC as one
  more structure; a CRC that begins with a length of 1 or 2 and the type of a name
  replaces the name (`CrcReadsAsName`).
* The flags of an extended advertising header are read whether or not the header
  has any, and the second address's type is `(x << 7) & 1`, always 0; a target
  whose presence follows the advertiser's makes `BlePacket` fail (`DeviceExact`).

### SnifferCollector

`Get...` actions are the branches of `_continuouslyPipe`. A branch that needs
`_packetListLock` stops in front of it (`thread` is `append` or `find`), so that
the user's thread can be inside `getPackets` at that moment. `getPackets` is
modelled in two steps because it slices the buffer twice. A packet is named by
its place among the packets sent; its 16-bit counter and its 32-bit timestamp
are that number reduced by `PACKET_COUNTER_CAP` and `TimerPeriod`. Python's
slices with negative and too large bounds are `SliceTo` and `SliceFrom`.
`_appendPacket` cuts the buffer before it appends, as the code does. In
`PacketQueue` a call takes its packets in a single step; the code does so with the
first slice, and what the second will leave (`SliceFrom(buffer, number)`) is the
queue while the call is under way (`ImplementsQueue`). `PacketQueue` is what
`Sniffer.py:77` promises ("-1 means all"), and there the code disagrees: for -1, the
default, `_getPackets` slices `[0:-1]` and `[-1:]` (SnifferCollector.py:277-278), so
that the newest packet stays in the buffer until another has come. A call with a
negative number is therefore no step of `PacketQueue`; `ImplementsQueue` names it as
the exception and says what it does (`LeaveNewest`). It loses and repeats nothing:
`FetchedOnceInOrder` holds with it. Scanning,
following and the device list are in `CaptureSession`. Left out: packets of
protocol version 2 (their bytes are in `PacketReader`; they carry no absolute
time), the baud rate switch (nothing in the repository starts it).

`Sniffer.py:173` calls `packetsInLastConnection` the number of packets of the
last connection. The code subtracts two 16-bit counters without reducing the
difference, so the number is right only as long as the counter does not wrap
during the connection; otherwise it is too small by a multiple of the number of
counter values, and mostly negative. `PacketsInLastConnectionCounts` states what
does hold.

### CaptureSession

`main` is the location of the main thread in `sniffer_capture`, `sniffer` that
of the sniffer thread in `_continuouslyPipe` and `_processBLEPacket`. A step ends
where the code may wait (for a lock, a pipe or the port) or touches something the
other thread reads. `lock` has one entry for each of the three locks, in the
order the code nests them:

    deviceListLock (DeviceList)  ->  callbackLock of the DeviceList  ->  callbackLock of the Sniffer
                                      (listCallbackLock)                  (callbackLock)

A callback writes while all the locks above it are held; leaving the `with`
statements is part of the step that writes, or that fails to. `wireshark` is the
set of pipes Wireshark still holds open; a write to another pipe raises, and what
catches it differs: in the main thread the finally clause of `sniffer_capture`,
in `new_packet` the end of the sniffer thread, in the toolbar's callbacks a log
line, which goes to the same broken pipe. Log lines appear only when they fail;
they are taken not to block. A packet is represented by the device it concerns.
`SetupNoDongle` and `SetupFails` are the two ways in which a capture ends before
the thread is started; after the second the finally clause meets the unbound name
`sniffer` and the process ends (`crashed`). Left out: the list of interfaces, keys,
the hop sequence, the RSSI filter, the names and signal strengths of devices, and
the writing of the capture file beside the pipe.

### PortLock

Each process is inside at most one call of `lock`, or of `unlock` from `close` or
from `__del__`, which closes a collected `Uart` again (`call`). `pc` is its place
in that call: `isfile`, `read`, `invalid`, `decide` in `lockpid` and after it,
`stale`, `create`, `recreate`, `write`, `open` in `lock` and behind it, `remove`
in `unlock`. Opening the file and reading it are one step. The file is opened for
writing twice, and `handle` is the set of processes whose open file is the one
in the directory: a pid written to a removed file is lost. Processes start, exit,
die at any step, and the pid of a dead one may be taken by a program that never
touches the lock (`other`). `port` is the operating system's exclusive open.
`disturbed` is history: the processes whose lock overlapped another call, which
is when the code promises nothing, because it tests and creates in two steps.

### CaptureFile

All captures of a user go to one file. Each call to the file system is a step:
`isfile`, `getsize`, `remove`, `rename`, `open` and the write that reaches the
file when it is closed. `dir` maps the two names to inodes, `content` the inodes to
headers and packets, `fd` each process to the file it has open, so that a process
that opened the file goes on writing to it after another has renamed it. `open`
with `wb` empties the file, `ab` writes at its end; `Overwritten` is what a header
does that is written to a file others have appended to since (`Torn` is what is
left of a packet under it). `Stop` is the end of the capture or a death at any
step. `disturbed` records that one process started or moved the file beside
another, which is when packets may be lost: the backup just made is removed by the
next one, or a new file is emptied (CaptureFiles.py:72 to 88). `HeaderFirst` holds
even then. `abandoned` records a death between the emptying of a file and its
header; the file then stays without one for ever, since the next process finds a
file and only appends. A refused `remove` (CaptureFiles.py:84) is the absence of a
backup.

### Nrf802154Sniffer

`pc` gives each thread's location: `s_...` inside `stop_sig_handler`, `r_...`
the serial reader, `w_...` the serial writer, `f_...` the FIFO writer, `c_...`
the control reader, `idle` the script outside `stop_sig_handler`. Each read of
`self.running` and of `self.serial` is a step of its own where another thread can
change it between two, but for places where the outcomes of reading it once and
twice are the same.

`extcap_capture` is taken apart: `StartCapture` sets `running` and, like the code,
does not reset `setup_done`, `serial` or `serial_queue`; `StartAppend` appends one
thread to whatever list `self.threads` is at that moment, `StartLoop` begins to
iterate over that list, `StartThread` starts one. `start` is the place in it and
`starting` what is still to come. The other threads run in between, and with
`Signals` so does `stop_sig_handler` on the script's own thread, from which
`extcap_capture` then goes on; a signal inside a stop of the same thread is left out.

Of the commands only those that change whether the firmware receives, `sleep` and
`receive`, are kept; a command and the empty line behind it are two writes. A join
times out on a thread that something outside the program can block (`Blocked`), or
that is in a stop of its own (`Stuck`). With `Garbled` a reply that is no text and a
line that is no packet raise (lines 382 and 401 to 408) and end the reader, with the
port open. The port is opened exclusively, so that a port a capture before has left
open is in the way of the next, unless the dongle has come back meanwhile.
`NamedPipe` says what the FIFO writer opens: Wireshark's pipe, whose opening waits for Wireshark
to open the other end and whose writes wait for Wireshark to read, or a script's
file, which does not block. `Beside` bounds the runs: whether a capture may be
started beside threads that an earlier one has lost (below).

What goes wrong in the code, and how the properties deal with it:

* A *hasty* stop joins a thread that is not started yet. `join` raises a
  `RuntimeError`, the thread is dropped (lines 163 to 173), and `extcap_capture`
  starts it all the same: it runs, `self.threads` does not have it, no later stop joins it
  and line 444 accepts a next capture beside it. It takes a signal while
  `extcap_capture` is in lines 461 to 470, or, since `setup_done` and `serial` are
  left from the capture before, a stop in a second capture by a thread that was
  started first, the control reader at the end of its pipe or the reader at a port
  that raises, while the others are still to be started. `hasty` records it.
  `ThreadsTracked` holds until then, and not beyond. What holds beyond is that the firmware is left asleep and the port is let
  go of in the first capture, that stops return and that the lost threads end.
* `SIGTERM` between `running.set()` and the start of the reader, in a first
  capture: the handler waits for `setup_done` on the very thread that would have
  started the reader, for ever. TLC reports a deadlock with `Signals` and a dongle
  that stays plugged in; with `Unpluggable`, as in `n154_toolbar`, plugging goes on.
  `StopReturns` is about a stop that does not interrupt `extcap_capture`.
* `PortReleased` in a second capture needs that no stop was hasty: a reader that was
  lost may open the port behind the last stop.
* `PortReleased` is about the first two captures of an object; the runs and the
  theorem go as far. In a third it fails even without a hasty stop, by a chain of
  more than 70 steps TLC finds with three captures, no control reader and a dongle
  that stays plugged in: the readers of the first two captures end them and are held up between replacing `self.threads` and looking
  at `self.serial`, the third capture starts over their port and over a `sleep`
  left in the queue, its writer fails on the port one of them has just closed and
  clears `running`, the script's stop finds nothing to do, and the third reader,
  which had seen `running` set, opens the port and ends without a stop. It takes
  delays of seconds in two threads at once. No sentence of the repository speaks
  of the port, so it is reported here and not as a finding.

The first two are faults too, but of a kind no line of the repository speaks of; they
have no run of their own either.

### CorrectTime

`timer` and `clock` are the real times of the device and the host; `Pass` lets
both advance with any drift below half a period, which is what the comment at
line 110 requires. `Corrected` is the method's arithmetic, `SnifferTimestamp`
the 32 bits the dongle sends. The references are attributes set once per object
and not per capture, and the dongle may have been plugged out and in between two
captures: `Restart` sets the device's timer to any value while the references
stay. From then on the reported times are off by a constant below a period, and
packets may be reported earlier than the one before (nrf802154_sniffer.py:116);
`NearClock` states what remains.

## Runs

| run | shows | bounds |
|---|---|---|
| `uart` | `Uart` refines the FIFO (`ImplementsFifo`), no lost wake-up, bytes reach a reader, `close` returns and wakes the reader | two byte values, three bytes in flight: one in each of the three places a byte can be |
| `slip` | `ExactDelivery`, `Resynchronised` | six frames with every special byte before an ordinary byte, an escape code or another special byte; the decoder remembers one byte, so pairs are enough. No byte is lost while more than four are buffered: enough to lose any byte of a frame including its end, and then one of the next |
| `packets` | the bytes on the air, their length, address, name and time difference survive parsing and conversion; a byte lost is noticed | ten frames: every PHY and coding, every kind of advertisement with a branch of its own, a data packet, with and without name, target, extended header and a CRC that reads as a name; four other packets, with the two that read as a packet without one of their bytes; versions 1 to 3. Three packets: a time difference involves one, the one before and one in between. Timestamps of two bytes, from zero and from just before their overflow |
| `collector` | packets fetched once and in order, connection tracked, connect request, packets of the last connection, times; `SnifferCollector` refines the queue (`ImplementsQueue`) | counter wraps at 3, timer at 4, buffer of at most 4, 7 packets: as in the code two packets with one counter value fit into the buffer |
| `session` | nothing written to a closed pipe, no device twice, toolbar in step with the list, plugin, API and dongle agree on the mode, the capture and its thread end | one device, two commands after INIT, two packets: a command of the toolbar against a packet of the same device, with another of each before or after; the theorems say the safety properties for any number of each |
| `capture_file` | a file begins with a header, packets are kept while nobody interferes | three processes that start and die for ever, two moving the file while the third appends; a file is too large with one packet, three packets fill a backup, a file and the next |
| `port_lock` | a process leaves no lock behind, a lock taken undisturbed is kept, a stale lock is recovered | three processes for ever: one that has the port, one that died, one that comes |
| `n154_toolbar` | threads tracked, firmware asleep, port released | one capture as Wireshark runs it: a named pipe, a control reader, no timeout, signals at any time, damaged replies and lines; dongle plugged in and out: three stoppers at once, each at any place of the starting of the threads |
| `n154_restart` | stops return, threads end, threads tracked, port released | two captures of one object by a script that writes to a file and gives a timeout, without signals: the second begins with the `setup_done`, `serial` and `serial_queue` the first left, and with a stopper of the first perhaps still running |
| `time` | `Exact`, `NeverBack`, `NearClock` | a period of six ticks, first packets at zero and just before and after an overflow, up to two periods after the latest of them, every drift below half a period, one restart of the dongle |

The types of `Uart`, `SlipLink`, `CorrectTime`, `CaptureSession`, `PortLock`,
`CaptureFile`, `PacketReader` and `Nrf802154Sniffer` are theorems and not checked again by a run. Two further runs end
in a counterexample, each of a sentence in the repository (see `findings` in
PROJECT.json for the quotations):

| run | counterexample |
|---|---|
| `n154_refused` | a capture that ended by itself and is then stopped leaves ended threads in `self.threads`; all further captures are refused |
| `n154_stop_hangs` | without `connection_open_timeout` and with a device that never opens, `stop_sig_handler` never returns |

Four smaller disagreements with comments show in the models and have no run. That -1
means all packets (`Sniffer.py:77`) and the number of packets in the last connection
(`Sniffer.py:173`) are described under SnifferCollector. The comment at UART.py:209 says that the deque is empty after the wait only while the
port is being closed; it also is when the worker sets the Event for bytes that the
reader has already taken, and the reader then reports a timeout. And in a second
capture of one object `stop_sig_handler` does not wait for the setup, since
`setup_done` is still set.

`CHECK_DEADLOCK` is off in `session`, because a capture ends, and in `packets`,
which ends with the packets it is allowed; it is on everywhere else: the dongle,
the script, the user or a process can always do something. That nothing
in a capture waits for ever is `SessionEnds` and `SnifferEnds`.

## Fairness

`Uart`: the worker, `readByte` once called and `close` once called run when they
can (weak fairness), and the thread that decodes packets keeps calling
`readByte`, which is `_continuouslyPipe`'s loop. There is none for the dongle, a
call of `close`, an unplugging or a timeout: `CloseReturns` and `CloseWakesReader`
do not depend on them.

`Nrf802154Sniffer`: weak fairness of the script's stop once called, of `ReaderThread` (the
serial readers with the stops they call) and of `OtherThread` (the control
reader's stop, the end of a FIFO writer that writes to a file, and the serial writer but for a write
that succeeds, since the dongle may not take it). The
last two say only that one of the threads named goes on as long as any can, which
is less than the operating system gives, and cheaper to check than one condition
for each. Strong fairness of `RdOpenTimeout`:
the reader retries once a second and reaches the deadline, though each attempt
leaves the location in between. None for pipes, plugging, signals or the script: not even
for `extcap_capture`, which nothing the properties promise depends on. A join is
fair although its target may be stuck, because it has a timeout of ten seconds.

`CaptureSession`: weak fairness of each thread's steps that need nobody outside
the program (`MainAlone`, `SnifferAlone`): a write to a pipe Wireshark holds open
may block for ever, and so may the opening of the port; a write to a pipe it has
closed fails at once. None for Wireshark, the user or the dongle. A request to the
dongle (`ScanSend`, `FollowSend`) is not fair either: the port is opened with
`rtscts=True` and without a `write_timeout` (UART.py:124-129, 189), so that the write
waits as long as the dongle takes nothing. `SessionEnds` names this as its exception
(`DongleTakesNothing`); when the dongle is unplugged the write fails (`SendFails`).

`PortLock`: weak fairness of the processes' steps inside `lock`, `unlock` and the
opening of the port, taken together: some process that is inside goes on. None for beginning to lock, closing the port, and none for
processes that start, exit or die.

## Proofs

All theorems hold for every value of the constants allowed by the modules'
assumptions.

* `UartTypeOK`, `UartNoLostWakeup`, `UartImplementsFifo` (assumptions: `None` is
  no byte; a bound on bytes in flight exists). `NoLostWakeup` is inductive with the
  types: each action that puts bytes into the deque or clears the Event leaves a
  thread at a location from which it will look again. The refinement needs
  `LocalsInv`: the worker's local is empty except between read and extend, so
  that moving it keeps `InFlight`; nothing is queued before the stale input is
  flushed; and no result exists before the pop, so that the pop is the FIFO's
  delivery. The lemmas say what reading, extending and popping do to `InFlight`.
* `SlipTypeOK`, `SlipExactDelivery`, `SlipResynchronised` (assumption: frames are
  sequences of bytes 0 to 255). The inductive invariant is `SlipInv`: `Follows`
  ties the decoder's loop to the sender's place in a frame none of whose bytes was
  lost, and the decoder's buffer is the prefix of the frame already sent. Neither
  property is inductive alone, since both speak of the end of a frame.
* `CollectorTypeOK`, `CollectorFetchedOnceInOrder`, `CollectorInConnectionTracked`,
  `CollectorTimeExact`, `CollectorPacketsInLastConnectionCounts`,
  `CollectorConnectRequestNewest` and `CollectorImplementsQueue` (assumption: the cut is not larger than the
  limit, a period and a number of counters of at least one), for a buffer of any
  size and any number of packets. `LineInv` orders the packets: what is on the line
  is later than anything received, and within the line in order. From it follow
  `PacketInv`, that the packet being worked on is later than the buffered ones,
  `ReferenceInv`, that a timestamp received is later than the last reference, so
  that their difference modulo the period is the time passed (`TimeDiffExact`),
  and `FetchInv`: the part `getPackets` returns is the part it removes, since
  nobody changes the buffer under the lock, and every part taken from the front is
  earlier than what stays. `EventInv` ties the host's view to the last event still
  on the line, which is what the property says when there is none. The refinement
  rests on the lock alone: a packet is put while no call is under way
  (`AppendPuts`), the first slice takes as many packets as were asked for, or all but
  so many of the newest when the number is negative (`SliceTaken`, `GetPacketsTakes`), and the second does not change the queue
  (`GetPacketsReturns`). The search backwards needs a largest element of a set of positions (`Largest`), from the
  well-foundedness of the natural numbers.
* `TimeTypeOK`, `TimeExact`, `TimeNeverBack`, `TimeNearClock` (assumption: a period of two or more
  ticks). They are in `Nrf802154SnifferProofs`, since `correct_time` is a
  method of the same class; the specification is `TimeSpec`. `TimeInv` adds that the drift is below half a period and that the first
  timestamp is the first packet's time modulo the period. `CorrectedExact` is the
  arithmetic: the host's estimate of the device's time is off by less than half a
  period, so it lies in the right period or in a neighbouring one, and the
  comparison with half a period tells which. `CorrectedNear` is what is left of it
  for references that have nothing to do with the timer: the time chosen is the one
  of all possible ones that is next to the host's estimate.
* `TypeCorrect`, `ReleasedAlways`, `KeptAlways` of `PortLock` (assumption:
  `None` and the empty content are no processes), for any set of processes. The
  invariant follows a lock from its call on. `Locking`: who is between the stale
  file and the open port is in `lock`. `Unread`: a call that has not read a pid
  holds none. `Released`: an `unlock` that has found the file not to be its
  process's still finds it so at its end, since only that process writes its pid.
  `Overlap`: of two processes inside a call at once both are disturbed, so that
  an undisturbed one is alone from its first test to its write. `Written`: the
  file such a process writes to is the one in the directory, and afterwards holds
  its pid. `Respected`: whoever calls after that reads this pid, finds the process
  alive and leaves, so that nobody else can create, write or remove the file.
  `Holder`: who has the port is at the location that says so.
* `SessionTypeOK`, `SessionNoWriteAfterClose`, `SessionDevicesUnique`,
  `SessionToolbarInSync`, `SessionModeConsistent` of `CaptureSessionProofs` (assumption: `None`, the names of
  the threads and the command to scan are no devices), for any devices, packets
  and commands. `LockInv` says which locations hold which lock, and thereby that
  the two threads exclude one another. `TeardownInv` adds that a callback runs
  only while the callbacks are registered: `clearCallbacks` needs the lock the
  callback is called under, and the pipes are closed after it. `ListInv` adds
  that what was searched for in vain is still absent when it is appended.
  `ToolbarInv` says by which device the toolbar is behind at each location that
  holds `deviceListLock`, which is what makes it equal to the list when the lock
  is free. `DeviceInv` is the typing of a command by its place in the dialogue.
  `ModeInv`: plugin, API and dongle agree (`Agree`) at every location at which the
  main thread has not begun to change them or has finished; in between the API's
  state is already the one to come and the dongle's is still to follow.

* `CaptureFileTypeOK`, `CaptureFileHeaderFirst` of `CaptureFileProofs` (assumption:
  finitely many processes), for any number of them and of packets. `BeingStarted`:
  a file without a header at its beginning is about to be emptied and started, or
  some process that has it open is about to write the header. `Renewed`: if the
  file is missing while somebody may create it by opening it without looking,
  somebody is about to start it anew; without this a packet could be the first
  thing in a file. The types need `NewInodeFree`, that a new file finds a free
  inode, by counting: fewer names and open files than inodes.
* `CaptureFileRecorded`, `CaptureFilePacketsKept` of the same module, for any
  `Limit`. While nobody is disturbed, a process that starts or moves the file is the
  only one running (`Alone`), the two
  names are two inodes (`Distinct`), and each location says what its tests have
  found (`Placed`): `Undisturbed`. It makes every step one of four of `Effect`,
  on the packets behind the names: nothing changes, the backup goes because the
  file is too large, the file becomes the backup, or one packet more is in the
  file. Under these four `Kept`, that backup and file count up to the last packet
  written without a gap, is inductive, and gives `Recorded`; the action property is
  read off the same four.

* `SnifferTypeOK`, `SnifferThreadsTracked`, `SnifferOneCaptureAtATime` of
  `Nrf802154SnifferProofs` (assumption: at least one capture), for any number of
  captures; the last two as long as no stop was hasty. `ThreadsTracked` is not
  inductive: a stopper replaces `self.threads` by the threads its joins have found
  alive, while others go on and while `extcap_capture` starts threads. `Tracked` adds
  `JoinsLive`: while a thread joins, every other thread that is alive, or that
  `extcap_capture` is about to start (`Live`), is one it has still to join or has
  found alive; and `Quiet`: while the list is being filled no thread of an earlier
  capture is in the way. Several threads may be joining at once, each with a list of
  its own, and the last to finish decides what `self.threads` is; the invariant holds
  of each list separately. It does not count who is past the joins of its own stop
  (`After`), which is why a stopper that lingers may meet the next capture, and why
  nobody else can.
* `SnifferFirmwareAsleep`, with the inductive invariant `FirstInv` over the first
  capture; it holds after a hasty stop too. `FirstPlaces` says where the threads are:
  a stop goes past its wait only after the reader has set `setup_done` (`StopSetUp`),
  and `running` is set until a stopper clears it. `Lineup` is `extcap_capture`:
  whatever happens to `self.threads` meanwhile, it starts every thread of the first
  capture, and each once. `Commands` follows what the firmware is told: before its
  reader asks, nobody has sent `receive` (`Unasked`), nor before the writer runs,
  whose echo the reader waits for (`Unheard`); with a single stopper, the `sleep` it
  has queued is the last command in the queue, or is in the writer's hand, or is no
  longer needed because the firmware does not receive (`LastSleep`); and once its
  joins are over the writer has ended (`Emptied`). `WrKept` says that the writer is in
  the lists or that nothing is left that could wake the firmware (`Gone`), which is
  what a hasty stop needs. The property is about a single
  stopper because with two it is false: the stop that finds nothing to join any
  more closes the port while the writer has still to send the other's `sleep`.
* `SnifferPortReleased`, with `PortInv` over the first two captures. `Claimed`: when
  the script has called a stop, is outside of it, and `serial` is not `None`, another
  thread is in a stop that has still to look at it. The danger is a reader that opens the port
  behind the last stop. In the first capture it opens only while `running` is set
  and nothing is queued (`FirstOpening`), however hasty a stop is, and the first
  capture leaves the second a queue or a port, not both (`FirstLeft`); so that in the
  second capture, when a reader is about to open or still to be started (`Due`), no
  port is open whose writer could fail, or a stopper is there that will join this
  reader and look at the port after that (`SecondOpening`, `Joined`). `CurrentOnly`:
  the lists hold threads of the capture under way only. In a third capture
  `FirstLeft` fails, as told above, and in a second one a hasty stop breaks
  `CurrentOnly`.

* `PacketReaderTypes`, `PacketAirBytesExact`, `PacketLossDetected`,
  `PacketDeltaExact`, `PacketDeviceExact` of `PacketReaderProofs`, for frames and other packets of any
  length a byte can hold, any counter, any number of packets sent or lost, and
  timestamps of one to four bytes. The assumptions say what the dongle sends:
  addresses of six bytes where the type of the advertisement has one, any number of
  structures of any type and contents, a PHY the code knows, a payload whose length
  fits its field, and for other packets an id that is not a sniffed one's. The invariant `IInv` ties
  the reader to what was on the air: `HeardOK`, that `packet` is `Faithful` to
  the frame of `heard` when that arrived whole, and `RememberedOK`, that
  `lastReceivedTimestampPacket` is faithful to the last frame heard, or else is a list
  that lost a byte, read as version 1 and without a time, and is the
  last packet received whenever that one has a sniffed packet's id. `RaisedFrame` and
  `DamagedStep` show that a conversion raises only in the second case; when it does
  not raise, the time it is counted from is the one heard last. On the way there stand three results about the
  operators: `FrameRead` (a list put together by `FrameList` is taken apart into
  the bytes on the air, their length and the time, padding byte and all),
  `ConvertedFrame` (the conversion to version 2 changes the time and two more
  bytes of the header and nothing else), and `DamagedList` (which of all lists
  without one of their bytes still read as a packet: at most nine bytes long and
  of version 1), and the arithmetic of little-endian numbers (`ParseSome`, `ToSome`), whose
  recursion has a fixed depth here. `PacketTime` shows that `getPacketTime` gives
  what `AirTime` says of each PHY and coding.

  `PacketDeviceExact` needs that the packet kept what its constructor made of the
  bytes (`Identified`), and two facts about loops over a whole list. Where the
  structures of an advertisement lie (`StructuresLaid`): the bytes are the address
  or the extended header, then each structure at the offset the lengths before it
  add up to. And what the scan for the name does with them (`NameOf`): it stops at
  the beginning of each structure, one after the other, and of the checksum, and
  keeps the last name it passes, because the length byte of a structure leads it to
  the next (`NameAtStructure`, `NameInCrc`). Both are inductions over the list. The library's induction theorems
  cannot be cited here, since they take a predicate as an argument; `Induction` has
  a set in its place, whose smallest member outside would have a predecessor
  inside (from the well-foundedness of the natural numbers), and the existence of
  a function defined by recursion is proved in the same way, by extending it one
  place at a time (`JoinsExist`, `LastNames`). The address is the six bytes in front, turned
  around twice (`AddressRead`, `ReversedTwice`).

Every invariant and every action property a run checks is a theorem, and so are
both refinements. Only model-checked are the liveness properties
(`BytesReachReader`, `CloseReturns`, `CloseWakesReader`, `StopReturns`,
`ThreadsEnd`, `SessionEnds`, `SnifferEnds` and `StaleLockRecovered`): temporal
proofs under fairness are beyond the prover.

## Not modelled, and what could follow

In this order:

1. In `CaptureSession` the address of the packet being written, so that the
   comment at `nrf_sniffer_ble.py:115`, that packets are held back while a
   selected device is searched for, can be stated: `write_new_packets` is set
   once and never reset.
2. The packet queue of the 802.15.4 FIFO writer, in a module composed with
   `Nrf802154Sniffer`.
3. An abstract specification of `PortLock` (one owner among undisturbed
   processes), to be refined.

Left out for good: the log (`Logger.py` is Python's `RotatingFileHandler` with a
time stamp as the first line of a file; nothing else reads it or waits for it),
the bytes of pcap headers (a fixed layout), the command lines and the list of
interfaces, the configuration files, the firmware (not in the repository; modelled
from how the host uses it).
