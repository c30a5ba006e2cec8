-------------------------- MODULE Nrf802154Sniffer --------------------------
(***************************************************************************)
(* nrf802154_sniffer.py: the life of a capture.  extcap_capture starts the *)
(* threads of a capture, stop_sig_handler ends it; the script that owns    *)
(* the object calls both, and the serial reader and the control reader     *)
(* call stop_sig_handler too.  They share the object's attributes without  *)
(* a lock, so an action is one access that another thread can tell apart.  *)
(* The packets themselves and the pcap file are left out.                  *)
(***************************************************************************)
EXTENDS Naturals, Sequences, FiniteSets

CONSTANTS
  MaxCaptures,   (* bound: calls of extcap_capture that are accepted       *)
  Beside,        (* bound: a capture may be started beside threads that a  *)
                 (* hasty stop of an earlier one has lost                  *)
  Control,       (* control_in is given: a control reader is started       *)
  OpenTimeout,   (* connection_open_timeout is given                       *)
  Signals,       (* stop_sig_handler is also run by signals (the script)   *)
  Unpluggable,   (* the dongle may be unplugged and plugged in again       *)
  Garbled,       (* a reply or a line may be damaged and raise             *)
  NamedPipe      (* fifo is Wireshark's pipe, and not a file               *)

ASSUME SnifferAssumption == /\ MaxCaptures \in Nat \ {0}
                            /\ Beside \in BOOLEAN
                            /\ Control \in BOOLEAN
                            /\ OpenTimeout \in BOOLEAN
                            /\ Signals \in BOOLEAN
                            /\ Unpluggable \in BOOLEAN
                            /\ Garbled \in BOOLEAN
                            /\ NamedPipe \in BOOLEAN

Captures == 1..MaxCaptures

(* The script's thread, and the four threads of the k-th capture.          *)
Main == <<"main", 0>>
Ctl(k) == <<"control_reader", k>>
Rd(k) == <<"serial_reader", k>>
Wr(k) == <<"serial_writer", k>>
Fw(k) == <<"fifo_writer", k>>

Started(k) == (IF Control THEN <<Ctl(k)>> ELSE <<>>) \o <<Rd(k), Wr(k), Fw(k)>>

Worker == {"control_reader", "serial_reader", "serial_writer", "fifo_writer"} \X Captures
Thread == {Main} \cup Worker
Stopper == {Main} \cup ({"control_reader", "serial_reader"} \X Captures)

VARIABLES
  running,        (* the Event self.running                                *)
  setup_done,     (* the Event self.setup_done                             *)
  serial,         (* self.serial: "None", or whether it is open            *)
  serial_queue,   (* self.serial_queue                                     *)
  threads,        (* self.threads                                          *)
  pc,             (* where each thread is                                  *)
  start,          (* where Main is in extcap_capture                       *)
  starting,       (* the threads it has still to append, or to start       *)
  command,        (* the command each serial writer is about to write      *)
  rest,           (* threads a stopper has still to join                   *)
  alive_threads,  (* its local: threads that did not end in time           *)
  attached,       (* the dongle is plugged in                              *)
  listening,      (* the firmware is receiving                             *)
  capture,        (* number of captures started                            *)
  stoppers,       (* history: who called stop_sig_handler in the last one  *)
  hasty           (* history: a stop has joined a thread not yet started   *)

shared == <<running, setup_done, serial, serial_queue, threads>>
startVars == <<start, starting>>
stopVars == <<rest, alive_threads>>
env == <<attached, listening>>
history == <<capture, stoppers, hasty>>
vars == <<running, setup_done, serial, serial_queue, threads, pc, start, starting,
          command, rest, alive_threads, attached, listening, capture, stoppers, hasty>>

(* The empty line and "channel" do not change whether the firmware         *)
(* receives; they are left out of the queue.                               *)
Cmd == {"sleep", "receive"}
NoCmd == ""

MainPC == {"idle"}
CtlPC == {"c_read"}
RdPC == {"r_loop", "r_open", "r_begin", "r_reply", "r_set", "r_check",
         "r_read", "r_final", "r_stop"}
WrPC == {"w_loop", "w_get", "w_write", "w_drain", "w_last"}
FwPC == {"f_loop"}
StopPC == {"s_wait", "s_check", "s_clear", "s_join", "s_serial", "s_open",
           "s_close", "s_none"}

Init == /\ running = FALSE
        /\ setup_done = FALSE
        /\ serial = "None"
        /\ serial_queue = <<>>
        /\ threads = <<>>
        /\ pc = [t \in Thread |-> IF t = Main THEN "idle" ELSE "unborn"]
        /\ start = "idle"
        /\ starting = <<>>
        /\ command = [k \in Captures |-> NoCmd]
        /\ rest = [t \in Stopper |-> <<>>]
        /\ alive_threads = [t \in Stopper |-> <<>>]
        /\ attached = TRUE
        /\ listening = FALSE
        /\ capture = 0
        /\ stoppers = {}
        /\ hasty = FALSE

At(t, l) == pc[t] = l
Goto(t, l) == pc' = [pc EXCEPT ![t] = l]
Step(t, l) == /\ Goto(t, l)
              /\ UNCHANGED <<shared, startVars, command, stopVars, env, history>>
Ended(t) == pc[t] \in {"done", "unborn"}
-----------------------------------------------------------------------------
(* The dongle. *)

Detach == /\ Unpluggable /\ attached
          /\ attached' = FALSE
          /\ listening' = FALSE
          /\ UNCHANGED <<shared, pc, command, startVars, stopVars, history>>

Attach == /\ ~attached
          /\ attached' = TRUE
          /\ UNCHANGED <<shared, pc, command, startVars, stopVars, listening, history>>
-----------------------------------------------------------------------------
(* Where a thread begins; the reader sleeps before, as if started later.   *)
First(t) == CASE t[1] = "control_reader" -> "c_read"
              [] t[1] = "serial_reader" -> "r_loop"
              [] t[1] = "serial_writer" -> "w_loop"
              [] t[1] = "fifo_writer" -> "f_loop"

(* extcap_capture goes on while no stop_sig_handler runs on Main.          *)
Starting(place) == At(Main, "idle") /\ start = place

(* When it is not refused it sets running; setup_done, serial and          *)
(* serial_queue are as they were left.                                     *)
StartCapture ==
  /\ Starting("idle")
  /\ threads = <<>>
  /\ capture < MaxCaptures /\ (hasty => Beside)
  /\ capture' = capture + 1
  /\ running' = TRUE
  /\ start' = "append"
  /\ starting' = Started(capture + 1)
  /\ stoppers' = {}
  /\ UNCHANGED <<setup_done, serial, serial_queue, threads, pc, command,
                 stopVars, env, hasty>>

(* It appends the threads one by one, to whatever list self.threads is,    *)
(* and then iterates over that list; a stop may replace it meanwhile.      *)
StartAppend ==
  /\ Starting("append")
  /\ starting # <<>>
  /\ threads' = Append(threads, Head(starting))
  /\ starting' = Tail(starting)
  /\ UNCHANGED <<running, setup_done, serial, serial_queue, pc, start, command,
                 stopVars, env, history>>

Loop(list) == /\ start' = IF list = <<>> THEN "idle" ELSE "loop"
              /\ starting' = list

StartLoop ==
  /\ Starting("append")
  /\ starting = <<>>
  /\ Loop(threads)
  /\ UNCHANGED <<shared, pc, command, stopVars, env, history>>

(* A thread that was started before raises.                                *)
StartThread ==
  /\ Starting("loop")
  /\ starting # <<>>
  /\ LET t == Head(starting) IN
       IF At(t, "unborn")
       THEN Goto(t, First(t)) /\ Loop(Tail(starting))
       ELSE UNCHANGED pc /\ Loop(<<>>)
  /\ UNCHANGED <<shared, command, stopVars, env, history>>

Start == StartCapture \/ StartAppend \/ StartLoop \/ StartThread
-----------------------------------------------------------------------------
(* stop_sig_handler, called by thread t. *)

CallStop(t) == /\ Goto(t, "s_wait")
               /\ stoppers' = stoppers \cup {t}
               /\ UNCHANGED hasty

Return(t) == Goto(t, IF t = Main THEN "idle" ELSE "done")

(* The script calls it, or a signal does, which may interrupt              *)
(* extcap_capture.                                                         *)
MainStop == /\ At(Main, "idle")
            /\ start = "idle" \/ Signals
            /\ CallStop(Main)
            /\ UNCHANGED <<shared, startVars, command, stopVars, env, capture>>

\* Mutant: the stop does not wait for the setup.
StopNoWait(t) == /\ At(t, "s_wait")
                 /\ Step(t, "s_check")

(* Two readings of running: one ends the wait, one chooses the branch. *)
StopWait(t) == /\ At(t, "s_wait")
               /\ ~running \/ setup_done
               /\ Step(t, "s_check")

\* Mutant: a stop that finds the capture stopped returns at once.
StopCheckReturns(t) == /\ At(t, "s_check")
                       /\ IF running
                          THEN /\ serial_queue' = Append(serial_queue, "sleep")
                               /\ Goto(t, "s_clear")
                          ELSE /\ Return(t)
                               /\ UNCHANGED serial_queue
                       /\ UNCHANGED <<running, setup_done, serial, threads, command,
                                      startVars, stopVars, env, history>>

StopCheck(t) == /\ At(t, "s_check")
                /\ IF running
                   THEN /\ serial_queue' = Append(serial_queue, "sleep")
                        /\ Goto(t, "s_clear")
                   ELSE /\ Goto(t, "s_serial")
                        /\ UNCHANGED serial_queue
                /\ UNCHANGED <<running, setup_done, serial, threads, command,
                               startVars, stopVars, env, history>>

StopClear(t) == /\ At(t, "s_clear")
                /\ running' = FALSE
                /\ rest' = [rest EXCEPT ![t] = threads]
                /\ alive_threads' = [alive_threads EXCEPT ![t] = <<>>]
                /\ Goto(t, "s_join")
                /\ UNCHANGED <<setup_done, serial, serial_queue, threads,
                               startVars, command, env, history>>

(* What may keep a thread from ending within the ten seconds of a join: a  *)
(* pipe nobody opens, reads or closes, a write the dongle does not take,   *)
(* or a stop of its own.                                                   *)
Blocked(t) == \/ pc[t] \in {"c_read", "w_write", "w_last"}
              \/ NamedPipe /\ pc[t] = "f_loop"
Stuck(t) == Blocked(t) \/ pc[t] \in {"s_wait", "s_join"}

\* Mutant: a thread that did not end in time is forgotten.
StopJoinForgets(t) == /\ At(t, "s_join")
                      /\ rest[t] # <<>>
                      /\ Head(rest[t]) = t \/ Ended(Head(rest[t])) \/ Stuck(Head(rest[t]))
                      /\ rest' = [rest EXCEPT ![t] = Tail(@)]
                      /\ hasty' = (hasty \/ At(Head(rest[t]), "unborn"))
                      /\ UNCHANGED <<shared, pc, startVars, command, alive_threads, env,
                                     capture, stoppers>>

(* Joining oneself, or a thread that has not been started yet, raises a    *)
(* RuntimeError, and the thread is dropped from the list.                  *)
StopJoin(t) ==
  /\ At(t, "s_join")
  /\ rest[t] # <<>>
  /\ LET joined == Head(rest[t]) IN
       /\ \/ /\ joined = t \/ Ended(joined)
             /\ UNCHANGED alive_threads
          \/ /\ joined # t /\ Stuck(joined)
             /\ alive_threads' = [alive_threads EXCEPT ![t] = Append(@, joined)]
       /\ hasty' = (hasty \/ At(joined, "unborn"))
  /\ rest' = [rest EXCEPT ![t] = Tail(@)]
  /\ UNCHANGED <<shared, pc, startVars, command, env, capture, stoppers>>

StopThreads(t) == /\ At(t, "s_join")
                  /\ rest[t] = <<>>
                  /\ threads' = alive_threads[t]
                  /\ alive_threads' = [alive_threads EXCEPT ![t] = <<>>]
                  /\ Goto(t, "s_serial")
                  /\ UNCHANGED <<running, setup_done, serial, serial_queue,
                                 startVars, command, rest, env, history>>

StopSerial(t) == /\ At(t, "s_serial")
                 /\ IF serial # "None" THEN Goto(t, "s_open") ELSE Return(t)
                 /\ UNCHANGED <<shared, command, startVars, stopVars, env, history>>

(* self.serial.is_open, self.serial.close(): each reads self.serial again, *)
(* and raises if another stopper has set it to None meanwhile.             *)
StopIsOpen(t) == /\ At(t, "s_open")
                 /\ CASE serial = "None" -> Return(t)
                      [] serial = "open" -> Goto(t, "s_close")
                      [] serial = "closed" -> Goto(t, "s_none")
                 /\ UNCHANGED <<shared, command, startVars, stopVars, env, history>>

StopClose(t) == /\ At(t, "s_close")
                /\ IF serial = "None"
                   THEN /\ Return(t)
                        /\ UNCHANGED serial
                   ELSE /\ serial' = "closed"
                        /\ Goto(t, "s_none")
                /\ UNCHANGED <<running, setup_done, serial_queue, threads,
                               command, startVars, stopVars, env, history>>

StopNone(t) == /\ At(t, "s_none")
               /\ serial' = "None"
               /\ Return(t)
               /\ UNCHANGED <<running, setup_done, serial_queue, threads,
                              command, startVars, stopVars, env, history>>

Stop(t) == \/ StopWait(t) \/ StopCheck(t) \/ StopClear(t) \/ StopJoin(t)
           \/ StopThreads(t) \/ StopSerial(t) \/ StopIsOpen(t)
           \/ StopClose(t) \/ StopNone(t)
-----------------------------------------------------------------------------
(* control_reader: the pipe is closed or delivers garbage. *)
ControlEnds(k) == /\ At(Ctl(k), "c_read")
                  /\ CallStop(Ctl(k))
                  /\ UNCHANGED <<shared, command, startVars, stopVars, env, capture>>
-----------------------------------------------------------------------------
(* serial_reader. *)

RdLoop(k) == /\ At(Rd(k), "r_loop")
             /\ Step(Rd(k), IF running THEN "r_open" ELSE "r_begin")

(* Opened exclusively: a port an earlier capture left open is in the way,  *)
(* unless the dongle has been unplugged and has come back since.           *)
RdOpen(k) == /\ At(Rd(k), "r_open")
             /\ attached
             /\ serial # "open" \/ Unpluggable
             /\ serial' = "open"
             /\ Goto(Rd(k), "r_begin")
             /\ UNCHANGED <<running, setup_done, serial_queue, threads, command,
                            startVars, stopVars, env, history>>

(* The device is not there, or another process has it. *)
RdOpenFails(k) == /\ At(Rd(k), "r_open")
                  /\ Step(Rd(k), "r_loop")

RdOpenTimeout(k) == /\ At(Rd(k), "r_open")
                    /\ OpenTimeout
                    /\ running' = FALSE
                    /\ Goto(Rd(k), "done")
                    /\ UNCHANGED <<setup_done, serial, serial_queue, threads,
                                   command, startVars, stopVars, env, history>>

(* reset_input_buffer on None, or on a port that is closed or gone, raises. *)
RdBegin(k) == /\ At(Rd(k), "r_begin")
              /\ IF serial = "open" /\ attached
                 THEN /\ serial_queue' = Append(serial_queue, "sleep")
                      /\ Goto(Rd(k), "r_reply")
                 ELSE /\ Goto(Rd(k), "r_final")
                      /\ UNCHANGED serial_queue
              /\ UNCHANGED <<running, setup_done, serial, threads, command,
                             startVars, stopVars, env, history>>

(* The reply is the echo of what the writer has written: without a writer  *)
(* there is none.  One that is no text raises before the port is closed.   *)
RdReply(k) == /\ At(Rd(k), "r_reply")
              /\ \/ /\ serial = "open" /\ attached /\ ~At(Wr(k), "unborn")
                    /\ serial_queue' = Append(serial_queue, "receive")
                    /\ Goto(Rd(k), "r_set")
                    /\ UNCHANGED serial
                 \/ /\ serial' = IF serial = "None" THEN "None" ELSE "closed"
                    /\ Goto(Rd(k), "r_final")
                    /\ UNCHANGED serial_queue
                 \/ /\ serial # "open" \/ ~attached \/ Garbled
                    /\ Goto(Rd(k), "r_final")
                    /\ UNCHANGED <<serial, serial_queue>>
              /\ UNCHANGED <<running, setup_done, threads, command, startVars, stopVars,
                             env, history>>

RdSetupDone(k) == /\ At(Rd(k), "r_set")
                  /\ setup_done' = TRUE
                  /\ Goto(Rd(k), "r_check")
                  /\ UNCHANGED <<running, serial, serial_queue, threads, command,
                                 startVars, stopVars, env, history>>

RdCheck(k) == /\ At(Rd(k), "r_check")
              /\ Step(Rd(k), IF running THEN "r_read" ELSE "r_final")

(* A port that is closed or gone raises, and so does a damaged line.       *)
RdRead(k) == /\ At(Rd(k), "r_read")
             /\ \/ /\ serial = "open" /\ attached
                   /\ Step(Rd(k), "r_check")
                \/ /\ serial # "open" \/ ~attached \/ Garbled
                   /\ Step(Rd(k), "r_final")

\* Mutant: the reader's finally clause does not set setup_done.
RdFinalNoSet(k) == /\ At(Rd(k), "r_final")
                   /\ Step(Rd(k), "r_stop")

RdFinal(k) == /\ At(Rd(k), "r_final")
              /\ setup_done' = TRUE
              /\ Goto(Rd(k), "r_stop")
              /\ UNCHANGED <<running, serial, serial_queue, threads, command,
                             startVars, stopVars, env, history>>

RdStop(k) == /\ At(Rd(k), "r_stop")
             /\ IF running
                THEN CallStop(Rd(k))
                ELSE Goto(Rd(k), "done") /\ UNCHANGED <<stoppers, hasty>>
             /\ UNCHANGED <<shared, command, startVars, stopVars, env, capture>>

Reader(k) == \/ RdLoop(k) \/ RdOpen(k) \/ RdOpenFails(k)
             \/ RdOpenTimeout(k) \/ RdBegin(k) \/ RdReply(k) \/ RdSetupDone(k)
             \/ RdCheck(k) \/ RdRead(k) \/ RdFinal(k) \/ RdStop(k)
-----------------------------------------------------------------------------
(* serial_writer: commands while running, then those still queued. *)

WrLoop(k) == /\ At(Wr(k), "w_loop")
             /\ Step(Wr(k), IF running THEN "w_get" ELSE "w_drain")

WrGet(k) == /\ pc[Wr(k)] \in {"w_get", "w_drain"}
            /\ serial_queue # <<>>
            /\ command' = [command EXCEPT ![k] = Head(serial_queue)]
            /\ serial_queue' = Tail(serial_queue)
            /\ Goto(Wr(k), IF At(Wr(k), "w_get") THEN "w_write" ELSE "w_last")
            /\ UNCHANGED <<running, setup_done, serial, threads, startVars, stopVars, env, history>>

\* Mutant: the writer does not break out of its last loop.
WrEmptyNoBreak(k) == /\ pc[Wr(k)] \in {"w_get", "w_drain"}
                     /\ serial_queue = <<>>
                     /\ Step(Wr(k), IF At(Wr(k), "w_get") THEN "w_loop" ELSE "w_drain")

(* Queue.Empty after one second. *)
WrEmpty(k) == /\ pc[Wr(k)] \in {"w_get", "w_drain"}
              /\ serial_queue = <<>>
              /\ Step(Wr(k), IF At(Wr(k), "w_get") THEN "w_loop" ELSE "done")

AfterWrite(k) == IF At(Wr(k), "w_write") THEN "w_loop" ELSE "w_drain"

Writing(k) == pc[Wr(k)] \in {"w_write", "w_last"}

(* It writes the command, and then an empty line; in between command is    *)
(* NoCmd and the port may have gone.                                       *)
WrWrite(k) == /\ Writing(k)
              /\ serial = "open" /\ attached
              /\ IF command[k] # NoCmd
                 THEN /\ listening' = (command[k] = "receive")
                      /\ UNCHANGED pc
                 ELSE /\ Goto(Wr(k), AfterWrite(k))
                      /\ UNCHANGED listening
              /\ command' = [command EXCEPT ![k] = NoCmd]
              /\ UNCHANGED <<shared, startVars, stopVars, attached, history>>

(* An IOError ends the capture; a command not yet written is lost. *)
WrIOError(k) == /\ Writing(k)
                /\ serial = "closed" \/ (serial = "open" /\ ~attached)
                /\ running' = FALSE
                /\ command' = [command EXCEPT ![k] = NoCmd]
                /\ Goto(Wr(k), AfterWrite(k))
                /\ UNCHANGED <<setup_done, serial, serial_queue, threads,
                               startVars, stopVars, env, history>>

(* self.serial is None: the AttributeError ends the thread. *)
WrNoSerial(k) == /\ Writing(k)
                 /\ serial = "None"
                 /\ command' = [command EXCEPT ![k] = NoCmd]
                 /\ Goto(Wr(k), "done")
                 /\ UNCHANGED <<shared, startVars, stopVars, env, history>>

Writer(k) == WrLoop(k) \/ WrGet(k) \/ WrEmpty(k) \/ WrWrite(k) \/ WrIOError(k)
               \/ WrNoSerial(k)
-----------------------------------------------------------------------------
(* fifo_writer: to open a named pipe waits for its reader, and so does a   *)
(* write to a full one.                                                    *)

FwEnd(k) == /\ At(Fw(k), "f_loop")
            /\ ~running
            /\ Step(Fw(k), "done")
-----------------------------------------------------------------------------
Next == \/ Detach \/ Attach
        \/ Start \/ MainStop
        \/ \E t \in Stopper : Stop(t)
        \/ \E k \in Captures : \/ ControlEnds(k) \/ Reader(k) \/ Writer(k)
                               \/ FwEnd(k)

Spec == Init /\ [][Next]_vars

(* The script's thread goes on with its stop, one of the serial readers    *)
(* does, and one of the other threads: a scheduler gives each thread its   *)
(* turn, and this is all the properties need of it.  A join ends or times  *)
(* out; an open that is retried for ever reaches its timeout.  Nobody has  *)
(* to call stop, open or close a pipe, plug the dongle in or take what is  *)
(* written to it.                                                          *)
ReaderThread == \E k \in Captures : Reader(k) \/ Stop(Rd(k))

OtherThread == \E k \in Captures :
  \/ Stop(Ctl(k)) \/ (FwEnd(k) /\ ~NamedPipe)
  \/ WrLoop(k) \/ WrGet(k) \/ WrEmpty(k) \/ WrIOError(k) \/ WrNoSerial(k)

Fairness == /\ WF_vars(Stop(Main))
            /\ WF_vars(ReaderThread)
            /\ SF_vars(\E k \in Captures : RdOpenTimeout(k))
            /\ WF_vars(OtherThread)

FairSpec == Spec /\ Fairness
-----------------------------------------------------------------------------
(* Where a thread may be.                                                  *)
Places(t) ==
  CASE t[1] = "main" -> MainPC \cup StopPC
    [] t[1] = "control_reader" -> CtlPC \cup StopPC \cup {"unborn", "done"}
    [] t[1] = "serial_reader" -> RdPC \cup StopPC \cup {"unborn", "done"}
    [] t[1] = "serial_writer" -> WrPC \cup {"unborn", "done"}
    [] t[1] = "fifo_writer" -> FwPC \cup {"unborn", "done"}

PlacesOK == /\ pc \in [Thread -> UNION {Places(t) : t \in Thread}]
            /\ \A t \in Thread : pc[t] \in Places(t)

(* Types. *)
TypeOK == /\ running \in BOOLEAN
          /\ setup_done \in BOOLEAN
          /\ serial \in {"None", "open", "closed"}
          /\ serial_queue \in Seq(Cmd)
          /\ threads \in Seq(Worker)
          /\ PlacesOK
          /\ start \in {"idle", "append", "loop"}
          /\ starting \in Seq(Worker)
          /\ command \in [Captures -> Cmd \cup {NoCmd}]
          /\ rest \in [Stopper -> Seq(Worker)]
          /\ alive_threads \in [Stopper -> Seq(Worker)]
          /\ attached \in BOOLEAN
          /\ listening \in BOOLEAN
          /\ capture \in 0..MaxCaptures
          /\ stoppers \subseteq Stopper
          /\ hasty \in BOOLEAN

Members(s) == {s[i] : i \in DOMAIN s}

Stopping(t) == pc[t] \in StopPC

(* The object keeps track of its threads: one that is alive is in          *)
(* self.threads, or it is stopping the capture itself and has left it.     *)
(* This is what the refusal at nrf802154_sniffer.py:444 relies on.  A      *)
(* hasty stop breaks it: the thread it joined too early is dropped from    *)
(* the list, and extcap_capture starts it all the same.                    *)
ThreadsTracked ==
  ~hasty => \A t \in Worker : ~Ended(t) => t \in Members(threads) \/ Stopping(t)

(* The first capture, stopped by one thread only, leaves the firmware      *)
(* asleep: the stop waits for the setup, queues "sleep" after "receive",   *)
(* and the writer empties the queue before the port is closed.             *)
FirmwareAsleep ==
  (capture = 1 /\ Starting("idle") /\ ~running /\ threads = <<>>
     /\ Cardinality(stoppers) = 1) => ~listening

(* In the first two captures of an object: once the script has called      *)
(* stop_sig_handler and every thread has ended, the object has let go of   *)
(* the serial port, which it had opened exclusively.  No reader opens it   *)
(* behind the back of the last stop.  (In the second capture a reader that *)
(* a hasty stop has lost may, and in a third one any reader: what the      *)
(* first two left in serial_queue and in self.serial meets there.)         *)
PortReleased ==
  (/\ capture = 1 \/ (capture = 2 /\ ~hasty)
   /\ Starting("idle") /\ Main \in stoppers /\ \A t \in Worker : Ended(t))
    => serial = "None"

(* stop_sig_handler returns to the script. *)
StopReturns == (pc[Main] = "s_wait") ~> (pc[Main] = "idle")

(* Once running is cleared and not set again, the threads end, but for     *)
(* those blocked on a pipe or on the dongle.                               *)
ThreadsEnd ==
  <>[]~running =>
    <>[](\A t \in Worker : Ended(t) \/ Blocked(t))

(* capturing.md:129 "You can add the lines that start and stop the script  *)
(* multiple times in your script": once the script has stopped the capture *)
(* and every thread of it has ended, the next capture is not refused.      *)
RestartAfterStop ==
  (Starting("idle") /\ Main \in stoppers /\ \A t \in Worker : Ended(t)) => threads = <<>>
=============================================================================
