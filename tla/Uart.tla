------------------------------- MODULE Uart -------------------------------
(***************************************************************************)
(* SnifferAPI/UART.py: class Uart.  A worker thread moves bytes from the   *)
(* serial port into a deque; the thread that decodes packets takes them    *)
(* out one by one, blocking on an Event while there is none; a third       *)
(* thread closes the port.  The deque and the Event are shared without a   *)
(* lock, so an action is one operation on one of them.                     *)
(***************************************************************************)
EXTENDS Naturals, Sequences

CONSTANTS Byte,         (* the values of a byte                              *)
          None,         (* Python's None                                     *)
          MaxInFlight   (* bound: bytes received and not yet delivered       *)

ASSUME UartAssumption == /\ None \notin Byte
                         /\ MaxInFlight \in Nat

VARIABLES
  rx,                   (* bytes in the driver's input buffer                *)
  plugged,              (* the dongle is attached                            *)
  portOpen,             (* ser.is_open                                       *)
  cancelled,            (* a cancel_read() the next ser.read() will notice   *)
  read_queue,           (* self.read_queue                                   *)
  read_queue_has_data,  (* the flag of the Event self.read_queue_has_data    *)
  reading,              (* self.reading                                      *)
  worker,               (* where _read_worker is                             *)
  data_read,            (* its local: the bytes just read                    *)
  reader,               (* where the thread calling readByte is              *)
  data,                 (* what its last call of readByte returned           *)
  closer                (* where the thread calling close is                 *)

port == <<rx, plugged, portOpen, cancelled>>
queue == <<read_queue, read_queue_has_data>>
workerVars == <<worker, data_read>>
readerVars == <<reader, data>>
vars == <<rx, plugged, portOpen, cancelled, read_queue, read_queue_has_data,
          reading, worker, data_read, reader, data, closer>>

WorkerPC == {"reset", "loop", "read", "extend", "set", "done"}
ReaderPC == {"idle", "wait", "clear", "pop", "check", "set"}
CloserPC == {"open", "wake", "cancel", "join", "closed"}

(* The bytes on their way to the caller, oldest first. *)
InFlight == read_queue \o data_read \o rx

(* __init__ has opened the port and started the worker thread; the driver  *)
(* may already hold bytes the dongle sent before.                          *)
Init == /\ rx = <<>>
        /\ plugged = TRUE
        /\ portOpen = TRUE
        /\ cancelled = FALSE
        /\ read_queue = <<>>
        /\ read_queue_has_data = FALSE
        /\ reading = TRUE
        /\ worker = "reset"
        /\ data_read = <<>>
        /\ reader = "idle"
        /\ data = None
        /\ closer = "open"
-----------------------------------------------------------------------------
(* The dongle and its driver. *)

Arrive(b) == /\ plugged /\ portOpen
             /\ Len(InFlight) < MaxInFlight
             /\ rx' = Append(rx, b)
             /\ UNCHANGED <<plugged, portOpen, cancelled, queue, reading,
                            workerVars, readerVars, closer>>

Unplug == /\ plugged
          /\ plugged' = FALSE
          /\ UNCHANGED <<rx, portOpen, cancelled, queue, reading, workerVars,
                         readerVars, closer>>

(* writeList: a write that fails closes the port and raises. *)
WriteFails == /\ portOpen /\ ~plugged
              /\ portOpen' = FALSE
              /\ UNCHANGED <<rx, plugged, cancelled, queue, reading,
                             workerVars, readerVars, closer>>
-----------------------------------------------------------------------------
(* The worker thread. *)

PortUsable == plugged /\ portOpen

WorkerReset == /\ worker = "reset"
               /\ PortUsable
               /\ rx' = <<>>
               /\ worker' = "loop"
               /\ UNCHANGED <<plugged, portOpen, cancelled, queue, reading,
                              data_read, readerVars, closer>>

WorkerLoop == /\ worker = "loop"
              /\ worker' = IF reading THEN "read" ELSE "done"
              /\ UNCHANGED <<port, queue, reading, data_read, readerVars, closer>>

(* ser.read(in_waiting or 1) returns at least one byte, and perhaps not    *)
(* those that arrived after in_waiting was read.                           *)
WorkerRead == /\ worker = "read"
              /\ PortUsable /\ ~cancelled
              /\ \E n \in 1..Len(rx) :
                   /\ data_read' = SubSeq(rx, 1, n)
                   /\ rx' = SubSeq(rx, n + 1, Len(rx))
              /\ worker' = "extend"
              /\ UNCHANGED <<plugged, portOpen, cancelled, queue, reading,
                             readerVars, closer>>

(* ser.read() notices cancel_read() and returns no byte, which             *)
(* _read_queue_extend ignores.                                             *)
WorkerReadCancelled == /\ worker = "read"
                       /\ PortUsable /\ cancelled
                       /\ cancelled' = FALSE
                       /\ worker' = "loop"
                       /\ UNCHANGED <<rx, plugged, portOpen, queue, reading,
                                      data_read, readerVars, closer>>

(* A SerialException clears reading; any other exception (the OSError of   *)
(* in_waiting, the termios.error of reset_input_buffer) just ends the      *)
(* thread.                                                                 *)
WorkerFails == /\ worker \in {"reset", "read"}
               /\ ~PortUsable
               /\ \/ worker = "read" /\ reading' = FALSE
                  \/ UNCHANGED reading
               /\ worker' = "done"
               /\ UNCHANGED <<port, queue, data_read, readerVars, closer>>

\* Mutant: the Event is not set after the bytes are queued.
WorkerExtendNoSet == /\ worker = "extend"
                     /\ read_queue' = read_queue \o data_read
                     /\ data_read' = <<>>
                     /\ worker' = "loop"
                     /\ UNCHANGED <<port, read_queue_has_data, reading, readerVars, closer>>

\* Mutant: the queue is assigned instead of extended.
WorkerExtendAssigns == /\ worker = "extend"
                       /\ read_queue' = data_read
                       /\ data_read' = <<>>
                       /\ worker' = "set"
                       /\ UNCHANGED <<port, read_queue_has_data, reading, readerVars, closer>>

WorkerExtend == /\ worker = "extend"
                /\ read_queue' = read_queue \o data_read
                /\ data_read' = <<>>
                /\ worker' = "set"
                /\ UNCHANGED <<port, read_queue_has_data, reading, readerVars, closer>>

WorkerSet == /\ worker = "set"
             /\ read_queue_has_data' = TRUE
             /\ worker' = "loop"
             /\ UNCHANGED <<port, read_queue, reading, data_read, readerVars, closer>>
-----------------------------------------------------------------------------
(* The thread that calls readByte. *)

ReadByte == /\ reader = "idle"
            /\ data' = None
            /\ reader' = "wait"
            /\ UNCHANGED <<port, queue, reading, workerVars, closer>>

ReaderWoken == /\ reader = "wait"
               /\ read_queue_has_data
               /\ reader' = "clear"
               /\ UNCHANGED <<port, queue, reading, workerVars, data, closer>>

(* Event.wait times out: readByte returns None. *)
ReaderTimeout == /\ reader = "wait"
                 /\ ~read_queue_has_data
                 /\ reader' = "idle"
                 /\ UNCHANGED <<port, queue, reading, workerVars, data, closer>>

ReaderClear == /\ reader = "clear"
               /\ read_queue_has_data' = FALSE
               /\ reader' = "pop"
               /\ UNCHANGED <<port, read_queue, reading, workerVars, data, closer>>

ReaderPop == /\ reader = "pop"
             /\ read_queue # <<>>
             /\ data' = Head(read_queue)
             /\ read_queue' = Tail(read_queue)
             /\ reader' = "check"
             /\ UNCHANGED <<port, read_queue_has_data, reading, workerVars, closer>>

(* popleft raises IndexError: readByte returns None. *)
ReaderPopEmpty == /\ reader = "pop"
                  /\ read_queue = <<>>
                  /\ reader' = "idle"
                  /\ UNCHANGED <<port, queue, reading, workerVars, data, closer>>

\* Mutant: the Event is set again only for two bytes or more.
ReaderCheckTwo == /\ reader = "check"
                  /\ reader' = IF Len(read_queue) > 1 THEN "set" ELSE "idle"
                  /\ UNCHANGED <<port, queue, reading, workerVars, data, closer>>

ReaderCheck == /\ reader = "check"
               /\ reader' = IF Len(read_queue) > 0 THEN "set" ELSE "idle"
               /\ UNCHANGED <<port, queue, reading, workerVars, data, closer>>

ReaderSet == /\ reader = "set"
             /\ read_queue_has_data' = TRUE
             /\ reader' = "idle"
             /\ UNCHANGED <<port, read_queue, reading, workerVars, data, closer>>
-----------------------------------------------------------------------------
(* The thread that calls close. *)

Close == /\ closer = "open"
         /\ reading' = FALSE
         /\ closer' = "wake"
         /\ UNCHANGED <<port, queue, workerVars, readerVars>>

\* Mutant: close does not set the Event.
CloseNoWake == /\ closer = "wake"
               /\ closer' = "cancel"
               /\ UNCHANGED <<port, queue, reading, workerVars, readerVars>>

CloseWake == /\ closer = "wake"
             /\ read_queue_has_data' = TRUE
             /\ closer' = "cancel"
             /\ UNCHANGED <<port, read_queue, reading, workerVars, readerVars>>

\* Mutant: close joins the worker without cancelling its read.
CloseNoCancelRead == /\ closer = "cancel"
                     /\ closer' = "join"
                     /\ UNCHANGED <<port, queue, reading, workerVars, readerVars>>

(* cancel_read() does nothing on a port that writeList has closed. *)
CloseCancelRead == /\ closer = "cancel"
                   /\ cancelled' = (cancelled \/ portOpen)
                   /\ closer' = "join"
                   /\ UNCHANGED <<rx, plugged, portOpen, queue, reading,
                                  workerVars, readerVars>>

(* worker_thread.join() returns; ser.close(). *)
CloseJoin == /\ closer = "join"
             /\ worker = "done"
             /\ portOpen' = FALSE
             /\ closer' = "closed"
             /\ UNCHANGED <<rx, plugged, cancelled, queue, reading,
                            workerVars, readerVars>>
-----------------------------------------------------------------------------
Worker == WorkerReset \/ WorkerLoop \/ WorkerRead \/ WorkerReadCancelled
            \/ WorkerFails \/ WorkerExtend \/ WorkerSet

(* Every step of readByte once it is called, but for the timeout. *)
ReaderStep == ReaderWoken \/ ReaderClear \/ ReaderPop \/ ReaderPopEmpty
                \/ ReaderCheck \/ ReaderSet

CloserStep == CloseWake \/ CloseCancelRead \/ CloseJoin

Next == \/ \E b \in Byte : Arrive(b)
        \/ Unplug \/ WriteFails
        \/ Worker
        \/ ReadByte \/ ReaderStep \/ ReaderTimeout
        \/ Close \/ CloserStep

Spec == Init /\ [][Next]_vars

(* Threads that can run do run; nothing makes the dongle send, the user    *)
(* close, or a wait last until its timeout.                                *)
Fairness == /\ WF_vars(Worker)
            /\ WF_vars(ReadByte)
            /\ WF_vars(ReaderStep)
            /\ WF_vars(CloserStep)

FairSpec == Spec /\ Fairness
-----------------------------------------------------------------------------
(* Types, and how the threads' locations bind the shared state. *)
TypeOK == /\ rx \in Seq(Byte)
          /\ plugged \in BOOLEAN
          /\ portOpen \in BOOLEAN
          /\ cancelled \in BOOLEAN
          /\ read_queue \in Seq(Byte)
          /\ read_queue_has_data \in BOOLEAN
          /\ reading \in BOOLEAN
          /\ worker \in WorkerPC
          /\ data_read \in Seq(Byte)
          /\ reader \in ReaderPC
          /\ data \in Byte \cup {None}
          /\ closer \in CloserPC

(* Bytes in the deque never wait for an Event nobody will set: the Event   *)
(* is set, or the worker is about to set it (UART.py:200), or the reader   *)
(* is past its wait and will look at the deque again (UART.py:211).        *)
NoLostWakeup == read_queue # <<>> => \/ read_queue_has_data
                                     \/ worker = "set"
                                     \/ reader \in {"clear", "pop", "check", "set"}

(* What the locals of the two threads hold at each location: the bytes     *)
(* just read exist only until they are queued, nothing is queued before    *)
(* the stale input is thrown away, and no result exists before the pop.    *)
LocalsInv == /\ worker # "extend" => data_read = <<>>
             /\ worker = "reset" => read_queue = <<>> /\ data = None
             /\ reader \in {"wait", "clear", "pop"} => data = None

(* The class implements the FIFO it stands for: InFlight is the FIFO's     *)
(* content, and reset_input_buffer the moment it is flushed.               *)
Fifo == INSTANCE ByteFifo WITH chan <- InFlight,
                               flushed <- (worker # "reset"),
                               out <- data
ImplementsFifo == Fifo!FifoSpec

(* A byte that arrived is handed to the reader, or some byte before it is, *)
(* as long as the dongle stays attached and nobody closes the port.        *)
BytesReachReader ==
  (worker # "reset" /\ InFlight # <<>>)
    ~> (reader = "check" \/ ~PortUsable \/ closer # "open")

(* close() returns (UART.py:166-168), whatever the worker is blocked in    *)
(* and whether or not the dongle is still attached.                        *)
CloseReturns == (closer = "wake") ~> (closer = "closed")

(* close() wakes a reader blocked in Event.wait (UART.py:163): it does not *)
(* have to sit out its timeout.                                            *)
CloseWakesReader == (closer = "wake" /\ reader = "wait") ~> (reader # "wait")
=============================================================================

