---------------------- MODULE Nrf802154SnifferProofs ----------------------
(***************************************************************************)
(* For any number of captures: the types, and that the object keeps track  *)
(* of its threads, whatever the order of the threads' steps and whoever    *)
(* calls stop_sig_handler; and, at the end, that the time it reports for a *)
(* packet is right.                                                        *)
(***************************************************************************)
EXTENDS Nrf802154Sniffer, CorrectTime, SequenceTheorems, FiniteSetTheorems, TLAPS

PC == UNION {Places(t) : t \in Thread}

(* The threads are different, and a stopper may be anywhere in the stop.   *)
LEMMA Threads ==
  /\ Main \in Thread /\ Main \in Stopper /\ Main \notin Worker
  /\ Worker \subseteq Thread /\ Stopper \subseteq Thread
  /\ \A k \in Captures : /\ Ctl(k) \in Worker /\ Ctl(k) \in Stopper
                         /\ Rd(k) \in Worker /\ Rd(k) \in Stopper
                         /\ Wr(k) \in Worker /\ Fw(k) \in Worker
  /\ \A t \in Stopper : t # Main => t \in Worker
  BY DEF Main, Thread, Worker, Stopper, Ctl, Rd, Wr, Fw

LEMMA PlacesOfThreads ==
  /\ "idle" \in Places(Main)
  /\ \A t \in Stopper : StopPC \subseteq Places(t)
  /\ \A t \in Worker : {"unborn", "done"} \subseteq Places(t)
  /\ \A k \in Captures : /\ "c_read" \in Places(Ctl(k))
                         /\ RdPC \subseteq Places(Rd(k))
                         /\ WrPC \subseteq Places(Wr(k))
                         /\ FwPC \subseteq Places(Fw(k))
<1>1. "idle" \in Places(Main)
  BY DEF Places, Main, MainPC
<1>2. ASSUME NEW t \in Stopper PROVE StopPC \subseteq Places(t)
  <2>1. CASE t = Main
    BY <2>1 DEF Places, Main
  <2>2. CASE t[1] \in {"control_reader", "serial_reader"}
    BY <2>2 DEF Places
  <2> QED  BY <2>1, <2>2 DEF Stopper
<1>3. ASSUME NEW t \in Worker PROVE {"unborn", "done"} \subseteq Places(t)
  <2>1. t[1] \in {"control_reader", "serial_reader", "serial_writer", "fifo_writer"}
    BY DEF Worker
  <2> QED  BY <2>1 DEF Places
<1>4. ASSUME NEW k \in Captures
      PROVE  /\ "c_read" \in Places(Ctl(k))
             /\ RdPC \subseteq Places(Rd(k))
             /\ WrPC \subseteq Places(Wr(k))
             /\ FwPC \subseteq Places(Fw(k))
  BY DEF Places, Ctl, Rd, Wr, Fw, CtlPC
<1> QED  BY <1>1, <1>2, <1>3, <1>4

(* A thread begins where it may be.                                        *)
LEMMA FirstPlace ==
  ASSUME NEW t \in Worker
  PROVE  /\ First(t) \in Places(t)
         /\ First(t) \notin StopPC /\ First(t) \notin {"unborn", "done"}
<1>1. t[1] \in {"control_reader", "serial_reader", "serial_writer", "fifo_writer"}
  BY DEF Worker
<1> QED  BY <1>1 DEF First, Places, StopPC, CtlPC, RdPC, WrPC, FwPC

(* One thread goes on to a place where it may be.                          *)
LEMMA GotoType ==
  ASSUME PlacesOK, NEW x \in Thread, NEW l \in Places(x), Goto(x, l)
  PROVE  PlacesOK'
<1>1. pc \in [Thread -> PC]
  BY DEF PlacesOK, PC
<1>2. pc' = [pc EXCEPT ![x] = l]
  BY DEF Goto
<1>3. l \in PC
  BY DEF PC
<1>4. pc' \in [Thread -> PC]
  BY <1>1, <1>2, <1>3
<1>5. \A t \in Thread : pc'[t] \in Places(t)
  BY <1>1, <1>2 DEF PlacesOK
<1> QED  BY <1>4, <1>5 DEF PlacesOK, PC

(* What the types of the variables other than pc are.                      *)
SharedType == /\ running \in BOOLEAN
              /\ setup_done \in BOOLEAN
              /\ serial \in {"None", "open", "closed"}
              /\ serial_queue \in Seq(Cmd)
              /\ threads \in Seq(Worker)

OtherType == /\ command \in [Captures -> Cmd \cup {NoCmd}]
             /\ rest \in [Stopper -> Seq(Worker)]
             /\ alive_threads \in [Stopper -> Seq(Worker)]
             /\ attached \in BOOLEAN
             /\ listening \in BOOLEAN
             /\ capture \in 0..MaxCaptures
             /\ stoppers \subseteq Stopper
             /\ hasty \in BOOLEAN

StartType == /\ start \in {"idle", "append", "loop"}
             /\ starting \in Seq(Worker)

LEMMA TypeParts == TypeOK <=> SharedType /\ PlacesOK /\ StartType /\ OtherType
  BY DEF TypeOK, SharedType, StartType, OtherType

LEMMA SharedSame ==
  ASSUME SharedType, UNCHANGED shared PROVE SharedType'
  BY DEF SharedType, shared

LEMMA OtherSame ==
  ASSUME OtherType, UNCHANGED <<command, stopVars, env, history>> PROVE OtherType'
  BY DEF OtherType, stopVars, env, history

LEMMA StartSame ==
  ASSUME StartType, UNCHANGED startVars PROVE StartType'
  BY DEF StartType, startVars

(* The queue stays a queue of commands.                                    *)
LEMMA QueueType ==
  ASSUME serial_queue \in Seq(Cmd)
  PROVE  /\ Append(serial_queue, "sleep") \in Seq(Cmd)
         /\ Append(serial_queue, "receive") \in Seq(Cmd)
         /\ serial_queue # <<>> => /\ Head(serial_queue) \in Cmd
                                   /\ Tail(serial_queue) \in Seq(Cmd)
<1>1. "sleep" \in Cmd /\ "receive" \in Cmd
  BY DEF Cmd
<1> QED  BY <1>1, AppendProperties, HeadTailProperties

(* The members of the sequences that stop_sig_handler and extcap_capture   *)
(* make.                                                                   *)
LEMMA MembersOf ==
  ASSUME NEW S, NEW s \in Seq(S)
  PROVE  /\ Members(<<>>) = {}
         /\ Members(s) \subseteq S
         /\ s # <<>> => /\ Head(s) \in S /\ Tail(s) \in Seq(S)
                       /\ Members(s) = {Head(s)} \cup Members(Tail(s))
         /\ \A u \in S : /\ Append(s, u) \in Seq(S)
                             /\ Members(Append(s, u)) = Members(s) \cup {u}
<1>1. Members(<<>>) = {} /\ Members(s) \subseteq S
  BY ElementOfSeq, LenProperties DEF Members
<1>2. ASSUME s # <<>>
      PROVE  /\ Head(s) \in S /\ Tail(s) \in Seq(S)
             /\ Members(s) = {Head(s)} \cup Members(Tail(s))
  <2>1. /\ Head(s) \in S /\ Head(s) = s[1]
        /\ Tail(s) \in Seq(S) /\ Len(Tail(s)) = Len(s) - 1
        /\ \A i \in 1..Len(Tail(s)) : Tail(s)[i] = s[i + 1]
    BY <1>2, HeadTailProperties
  <2>2. Len(s) \in Nat \ {0} /\ DOMAIN s = 1..Len(s)
    BY <1>2, LenProperties, EmptySeq
  <2>3. DOMAIN Tail(s) = 1..(Len(s) - 1)
    BY <2>1, LenProperties
  <2>4. \A i \in 1..Len(s) : i = 1 \/ (i - 1 \in 1..(Len(s) - 1) /\ Tail(s)[i - 1] = s[i])
    BY <2>1, <2>2
  <2>5. 1 \in 1..Len(s) /\ \A i \in 1..(Len(s) - 1) : i + 1 \in 1..Len(s) /\ s[i + 1] = Tail(s)[i]
    BY <2>1, <2>2
  <2>6. ASSUME NEW i \in DOMAIN s PROVE s[i] \in {Head(s)} \cup Members(Tail(s))
    <3>1. CASE i = 1
      BY <2>1, <3>1
    <3>2. CASE i # 1
      <4>1. PICK j : j = i - 1
        OBVIOUS
      <4>2. j \in DOMAIN Tail(s) /\ Tail(s)[j] = s[i]
        BY <2>2, <2>3, <2>4, <3>2, <4>1
      <4> QED  BY <4>2 DEF Members
    <3> QED  BY <3>1, <3>2
  <2>7. ASSUME NEW j \in DOMAIN Tail(s) PROVE Tail(s)[j] \in Members(s)
    <3>1. PICK i : i = j + 1
      OBVIOUS
    <3>2. i \in DOMAIN s /\ s[i] = Tail(s)[j]
      BY <2>2, <2>3, <2>5, <3>1
    <3> QED  BY <3>2 DEF Members
  <2>8. Head(s) \in Members(s)
    BY <2>1, <2>2, <2>5 DEF Members
  <2>9. Members(s) = {Head(s)} \cup Members(Tail(s))
    BY <2>6, <2>7, <2>8 DEF Members
  <2> QED  BY <2>1, <2>9
<1>3. ASSUME NEW u \in S
      PROVE  /\ Append(s, u) \in Seq(S)
             /\ Members(Append(s, u)) = Members(s) \cup {u}
  <2>1. /\ Append(s, u) \in Seq(S) /\ Len(Append(s, u)) = Len(s) + 1
        /\ \A i \in 1..Len(s) : Append(s, u)[i] = s[i]
        /\ Append(s, u)[Len(s) + 1] = u
    BY AppendProperties
  <2>2. Len(s) \in Nat /\ DOMAIN s = 1..Len(s) /\ DOMAIN Append(s, u) = 1..(Len(s) + 1)
    BY <2>1, LenProperties
  <2> QED  BY <2>1, <2>2 DEF Members
<1> QED  BY <1>1, <1>2, <1>3

(* The threads a capture starts.                                           *)
LEMMA StartedThreads ==
  ASSUME NEW k \in Captures
  PROVE  /\ Started(k) \in Seq(Worker)
         /\ Members(Started(k)) = (IF Control THEN {Ctl(k)} ELSE {}) \cup {Rd(k), Wr(k), Fw(k)}
<1> DEFINE s == <<Rd(k), Wr(k), Fw(k)>>
<1>1. s \in Seq(Worker) /\ Members(s) = {Rd(k), Wr(k), Fw(k)}
  BY Threads DEF Members
<1>2. CASE Control
  <2> DEFINE c == <<Ctl(k)>>
  <2>1. c \in Seq(Worker) /\ Len(c) = 1 /\ c[1] = Ctl(k) /\ Len(s) = 3 /\ DOMAIN s = 1..3
    BY Threads
  <2>2. Started(k) = c \o s
    BY <1>2 DEF Started
  <2> HIDE DEF s, c
  <2>3. /\ c \o s \in Seq(Worker) /\ Len(c \o s) = Len(c) + Len(s)
        /\ \A i \in 1..(Len(c) + Len(s)) : (c \o s)[i] = IF i <= Len(c) THEN c[i] ELSE s[i - Len(c)]
    BY <1>1, <2>1, ConcatProperties
  <2>4. DOMAIN (c \o s) = 1..4
    BY <2>1, <2>3, LenProperties
  <2>5. /\ (c \o s)[1] = Ctl(k)
        /\ \A i \in 1..3 : i + 1 \in 1..4 /\ (c \o s)[i + 1] = s[i]
        /\ \A i \in 1..4 : i = 1 \/ (i - 1 \in 1..3 /\ (c \o s)[i] = s[i - 1])
    BY <2>1, <2>3
  <2>6. Members(c \o s) = {Ctl(k)} \cup Members(s)
    BY <2>1, <2>4, <2>5 DEF Members
  <2> QED  BY <1>1, <1>2, <2>2, <2>3, <2>6
<1>3. CASE ~Control
  <2>1. Started(k) = s
    BY <1>1, <1>3 DEF Started
  <2> QED  BY <1>1, <1>3, <2>1
<1> QED  BY <1>2, <1>3
-----------------------------------------------------------------------------
(* Type correctness. *)

LEMMA StepType ==
  ASSUME TypeOK, NEW x \in Thread, NEW l \in Places(x), Step(x, l)
  PROVE  TypeOK'
<1>1. PlacesOK'
  BY GotoType, TypeParts DEF Step
<1>2. SharedType' /\ StartType' /\ OtherType'
  BY SharedSame, StartSame, OtherSame, TypeParts DEF Step, shared, startVars, stopVars, env, history
<1> QED  BY <1>1, <1>2, TypeParts DEF TypeOK, SharedType, StartType, OtherType

LEMMA ReturnType ==
  ASSUME PlacesOK, NEW t \in Stopper, Return(t)
  PROVE  PlacesOK'
<1>1. (IF t = Main THEN "idle" ELSE "done") \in Places(t)
  BY Threads, PlacesOfThreads
<1> QED  BY <1>1, GotoType, Threads DEF Return

LEMMA InitType == Init => TypeOK
<1> SUFFICES ASSUME Init PROVE TypeOK
  OBVIOUS
<1>1. SharedType
  BY EmptySeq DEF Init, SharedType
<1>2. PlacesOK
  <2>1. \A t \in Thread : (IF t = Main THEN "idle" ELSE "unborn") \in Places(t)
    BY Threads, PlacesOfThreads DEF Thread
  <2> QED  BY <2>1 DEF Init, PlacesOK
<1>3. OtherType
  <2>1. command \in [Captures -> Cmd \cup {NoCmd}]
    BY DEF Init
  <2>2. <<>> \in Seq(Worker)
    BY EmptySeq
  <2>3. rest \in [Stopper -> Seq(Worker)] /\ alive_threads \in [Stopper -> Seq(Worker)]
    BY <2>2 DEF Init
  <2>4. capture \in 0..MaxCaptures
    BY SnifferAssumption DEF Init
  <2> QED  BY <2>1, <2>3, <2>4 DEF Init, OtherType
<1>4. StartType
  BY EmptySeq DEF Init, StartType
<1> QED  BY <1>1, <1>2, <1>3, <1>4, TypeParts

LEMMA StopType ==
  ASSUME TypeOK, NEW t \in Stopper, Stop(t)
  PROVE  TypeOK'
<1> USE DEF TypeOK, shared, startVars, stopVars, env, history
<1>1. t \in Thread /\ StopPC \subseteq Places(t)
  BY Threads, PlacesOfThreads
<1>2. CASE StopWait(t)
  <2>1. "s_check" \in Places(t)
    BY <1>1 DEF StopPC
  <2> QED  BY <1>1, <1>2, <2>1, StepType DEF StopWait
<1>3. CASE StopCheck(t)
  <2>1. {"s_clear", "s_serial"} \subseteq Places(t)
    BY <1>1 DEF StopPC
  <2>2. PlacesOK'
    BY <1>1, <1>3, <2>1, GotoType DEF StopCheck
  <2>3. serial_queue' \in Seq(Cmd)
    BY <1>3, QueueType DEF StopCheck
  <2> QED  BY <1>3, <2>2, <2>3 DEF StopCheck
<1>4. CASE StopClear(t)
  <2>1. "s_join" \in Places(t)
    BY <1>1 DEF StopPC
  <2>2. PlacesOK'
    BY <1>1, <1>4, <2>1, GotoType DEF StopClear
  <2>3. <<>> \in Seq(Worker)
    BY EmptySeq
  <2> QED  BY <1>4, <2>2, <2>3 DEF StopClear
<1>5. CASE StopJoin(t)
  <2>1. rest[t] \in Seq(Worker) /\ alive_threads[t] \in Seq(Worker) /\ rest[t] # <<>>
    BY <1>5 DEF StopJoin
  <2>2. Tail(rest[t]) \in Seq(Worker) /\ Append(alive_threads[t], Head(rest[t])) \in Seq(Worker)
    BY <2>1, MembersOf
  <2>3. rest' \in [Stopper -> Seq(Worker)] /\ alive_threads' \in [Stopper -> Seq(Worker)]
    BY <1>5, <2>2 DEF StopJoin
  <2>4. PlacesOK'
    BY <1>5 DEF StopJoin, PlacesOK
  <2> QED  BY <1>5, <2>3, <2>4 DEF StopJoin
<1>6. CASE StopThreads(t)
  <2>1. "s_serial" \in Places(t)
    BY <1>1 DEF StopPC
  <2>2. PlacesOK'
    BY <1>1, <1>6, <2>1, GotoType DEF StopThreads
  <2>3. <<>> \in Seq(Worker)
    BY EmptySeq
  <2> QED  BY <1>6, <2>2, <2>3 DEF StopThreads
<1>7. CASE StopSerial(t) \/ StopIsOpen(t) \/ StopClose(t) \/ StopNone(t)
  <2>1. {"s_open", "s_close", "s_none"} \subseteq Places(t)
    BY <1>1 DEF StopPC
  <2>2. PlacesOK'
    <3>1. CASE Return(t)
      BY <3>1, ReturnType
    <3>2. CASE Goto(t, "s_open") \/ Goto(t, "s_close") \/ Goto(t, "s_none")
      BY <1>1, <2>1, <3>2, GotoType
    <3> QED  BY <1>7, <3>1, <3>2 DEF StopSerial, StopIsOpen, StopClose, StopNone
  <2>3. serial' \in {"None", "open", "closed"}
    BY <1>7 DEF StopSerial, StopIsOpen, StopClose, StopNone
  <2>4. UNCHANGED <<running, setup_done, serial_queue, threads, startVars, command, stopVars, env, history>>
    BY <1>7 DEF StopSerial, StopIsOpen, StopClose, StopNone
  <2> QED  BY <2>2, <2>3, <2>4
<1> QED  BY <1>2, <1>3, <1>4, <1>5, <1>6, <1>7 DEF Stop

LEMMA CallStopType ==
  ASSUME TypeOK, NEW t \in Stopper, CallStop(t),
         UNCHANGED <<shared, startVars, command, stopVars, env, capture>>
  PROVE  TypeOK'
<1>1. t \in Thread /\ "s_wait" \in Places(t)
  BY Threads, PlacesOfThreads DEF StopPC
<1>2. PlacesOK'
  BY <1>1, GotoType, TypeParts DEF CallStop
<1> QED  BY <1>2 DEF TypeOK, CallStop, shared, startVars, stopVars, env

LEMMA StartingType ==
  ASSUME TypeOK, Start PROVE TypeOK'
<1> USE DEF TypeOK, shared, startVars, stopVars, env, history
<1>1. CASE StartCapture
  <2> DEFINE k == capture + 1
  <2>1. k \in Captures /\ k \in 0..MaxCaptures
    BY <1>1, SnifferAssumption DEF StartCapture, Captures
  <2>2. Started(k) \in Seq(Worker)
    BY <2>1, StartedThreads
  <2>3. PlacesOK'
    BY <1>1 DEF StartCapture, PlacesOK
  <2> QED  BY <1>1, <2>1, <2>2, <2>3 DEF StartCapture
<1>2. CASE StartAppend
  <2>1. Append(threads, Head(starting)) \in Seq(Worker) /\ Tail(starting) \in Seq(Worker)
    BY <1>2, MembersOf DEF StartAppend
  <2>2. PlacesOK'
    BY <1>2 DEF StartAppend, PlacesOK
  <2> QED  BY <1>2, <2>1, <2>2 DEF StartAppend
<1>3. CASE StartLoop
  <2>1. PlacesOK'
    BY <1>3 DEF StartLoop, PlacesOK
  <2> QED  BY <1>3, <2>1 DEF StartLoop, Loop
<1>4. CASE StartThread
  <2> DEFINE t == Head(starting)
  <2>1. /\ t \in Worker /\ Tail(starting) \in Seq(Worker) /\ <<>> \in Seq(Worker)
    BY <1>4, MembersOf, EmptySeq DEF StartThread
  <2>2. \/ Goto(t, First(t)) /\ Loop(Tail(starting))
        \/ UNCHANGED pc /\ Loop(<<>>)
    BY <1>4 DEF StartThread
  <2>3. UNCHANGED <<shared, command, stopVars, env, history>>
    BY <1>4 DEF StartThread
  <2> HIDE DEF t
  <2>4. PlacesOK'
    <3>1. CASE Goto(t, First(t))
      <4>1. t \in Thread /\ First(t) \in Places(t)
        BY <2>1, FirstPlace, Threads
      <4> QED  BY <3>1, <4>1, GotoType
    <3>2. CASE UNCHANGED pc
      BY <3>2 DEF PlacesOK
    <3> QED  BY <2>2, <3>1, <3>2
  <2>5. StartType'
    BY <2>1, <2>2 DEF Loop, StartType
  <2> QED  BY <2>3, <2>4, <2>5 DEF StartType
<1> QED  BY <1>1, <1>2, <1>3, <1>4 DEF Start

LEMMA ReaderType ==
  ASSUME TypeOK, NEW k \in Captures, Reader(k)
  PROVE  TypeOK'
<1> USE DEF TypeOK, shared, startVars, stopVars, env, history
<1>1. Rd(k) \in Thread /\ Rd(k) \in Stopper
  BY Threads
<1>2. RdPC \cup {"done"} \subseteq Places(Rd(k))
  BY Threads, PlacesOfThreads
<1>3. ASSUME NEW l \in RdPC \cup {"done"}, Goto(Rd(k), l) PROVE PlacesOK'
  BY <1>1, <1>2, <1>3, GotoType
<1>4. CASE RdLoop(k) \/ RdOpenFails(k) \/ RdCheck(k) \/ RdRead(k)
  <2>1. PICK l \in RdPC : Step(Rd(k), l)
    BY <1>4 DEF RdLoop, RdOpenFails, RdCheck, RdRead, RdPC
  <2> QED  BY <1>1, <1>2, <2>1, StepType
<1>5. CASE RdOpen(k) \/ RdOpenTimeout(k) \/ RdSetupDone(k) \/ RdFinal(k)
  <2>1. PICK l \in RdPC \cup {"done"} : Goto(Rd(k), l)
    BY <1>5 DEF RdOpen, RdOpenTimeout, RdSetupDone, RdFinal, RdPC
  <2>2. PlacesOK'
    BY <1>3, <2>1
  <2> QED  BY <1>5, <2>2 DEF RdOpen, RdOpenTimeout, RdSetupDone, RdFinal
<1>6. CASE RdBegin(k)
  <2>1. PICK l \in RdPC : Goto(Rd(k), l)
    BY <1>6 DEF RdBegin, RdPC
  <2>2. PlacesOK' /\ serial_queue' \in Seq(Cmd)
    BY <1>3, <1>6, <2>1, QueueType DEF RdBegin
  <2> QED  BY <1>6, <2>2 DEF RdBegin
<1>7. CASE RdReply(k)
  <2>1. PICK l \in RdPC : Goto(Rd(k), l)
    BY <1>7 DEF RdReply, RdPC
  <2>2. PlacesOK' /\ serial_queue' \in Seq(Cmd)
    BY <1>3, <1>7, <2>1, QueueType DEF RdReply
  <2>3. serial' \in {"None", "open", "closed"}
    BY <1>7 DEF RdReply
  <2> QED  BY <1>7, <2>2, <2>3 DEF RdReply
<1>8. CASE RdStop(k)
  <2>1. CASE CallStop(Rd(k))
    BY <1>1, <1>8, <2>1, CallStopType DEF RdStop
  <2>2. CASE Goto(Rd(k), "done") /\ UNCHANGED <<stoppers, hasty>>
    <3>1. PlacesOK'
      BY <1>3, <2>2
    <3> QED  BY <1>8, <2>2, <3>1 DEF RdStop
  <2> QED  BY <1>8, <2>1, <2>2 DEF RdStop
<1> QED  BY <1>4, <1>5, <1>6, <1>7, <1>8 DEF Reader

LEMMA WriterType ==
  ASSUME TypeOK, NEW k \in Captures, Writer(k) \/ FwEnd(k)
  PROVE  TypeOK'
<1> USE DEF TypeOK, shared, startVars, stopVars, env, history
<1>1. Wr(k) \in Thread /\ Fw(k) \in Thread
  BY Threads
<1>2. WrPC \cup {"done"} \subseteq Places(Wr(k)) /\ FwPC \cup {"done"} \subseteq Places(Fw(k))
  BY Threads, PlacesOfThreads
<1>3. CASE WrLoop(k) \/ WrEmpty(k)
  <2>1. PICK l \in WrPC \cup {"done"} : Step(Wr(k), l)
    BY <1>3 DEF WrLoop, WrEmpty, WrPC
  <2> QED  BY <1>1, <1>2, <2>1, StepType
<1>4. CASE FwEnd(k)
  <2>1. PICK l \in FwPC \cup {"done"} : Step(Fw(k), l)
    BY <1>4 DEF FwEnd, FwPC
  <2> QED  BY <1>1, <1>2, <2>1, StepType
<1>5. CASE WrGet(k) \/ WrWrite(k) \/ WrIOError(k) \/ WrNoSerial(k)
  <2>1. UNCHANGED pc \/ \E l \in WrPC \cup {"done"} : Goto(Wr(k), l)
    BY <1>5 DEF WrGet, WrWrite, WrIOError, WrNoSerial, AfterWrite, WrPC
  <2>2. PlacesOK'
    BY <1>1, <1>2, <2>1, GotoType DEF PlacesOK
  <2>3. CASE WrGet(k)
    <3>1. Head(serial_queue) \in Cmd /\ Tail(serial_queue) \in Seq(Cmd)
      BY <2>3, QueueType DEF WrGet
    <3> QED  BY <2>2, <2>3, <3>1 DEF WrGet
  <2>4. CASE WrWrite(k) \/ WrIOError(k) \/ WrNoSerial(k)
    <3>1. command' \in [Captures -> Cmd \cup {NoCmd}]
      BY <2>4 DEF WrWrite, WrIOError, WrNoSerial
    <3> QED  BY <2>2, <2>4, <3>1 DEF WrWrite, WrIOError, WrNoSerial
  <2> QED  BY <1>5, <2>3, <2>4
<1> QED  BY <1>3, <1>4, <1>5 DEF Writer

LEMMA NextType == TypeOK /\ [Next]_vars => TypeOK'
<1> SUFFICES ASSUME TypeOK, [Next]_vars PROVE TypeOK'
  OBVIOUS
<1>1. CASE Detach \/ Attach
  BY <1>1 DEF TypeOK, Detach, Attach, shared, startVars, stopVars, history, PlacesOK
<1>2. CASE Start
  BY <1>2, StartingType
<1>3. CASE MainStop
  BY <1>3, CallStopType, Threads DEF MainStop
<1>4. ASSUME NEW t \in Stopper, Stop(t) PROVE TypeOK'
  BY <1>4, StopType
<1>5. ASSUME NEW k \in Captures, ControlEnds(k) PROVE TypeOK'
  BY <1>5, CallStopType, Threads DEF ControlEnds
<1>6. ASSUME NEW k \in Captures, Reader(k) PROVE TypeOK'
  BY <1>6, ReaderType
<1>7. ASSUME NEW k \in Captures, Writer(k) \/ FwEnd(k) PROVE TypeOK'
  BY <1>7, WriterType
<1>8. CASE UNCHANGED vars
  BY <1>8 DEF TypeOK, vars, PlacesOK
<1> QED  BY <1>1, <1>2, <1>3, <1>4, <1>5, <1>6, <1>7, <1>8 DEF Next

(* The values of every attribute, of every thread's place and locals are   *)
(* those the code can give them.                                           *)
THEOREM SnifferTypeOK == Spec => []TypeOK
  BY InitType, NextType, PTL DEF Spec
-----------------------------------------------------------------------------
(* The object keeps track of its threads, as long as no stop has joined a  *)
(* thread that was not started yet.  ThreadsTracked alone is not           *)
(* inductive: a stopper replaces self.threads by the threads that its      *)
(* joins found alive, so while it joins, every thread that has not ended   *)
(* is one it has still to join or one it has found alive.  The same goes   *)
(* for a thread that extcap_capture is going to start: it is alive soon.   *)
(* A stopper that has replaced the list is itself no longer in it, and may *)
(* be overtaken by the next capture.                                       *)
After == {"s_serial", "s_open", "s_close", "s_none"}

Active(u) == pc[u] \notin {"done", "unborn"} /\ pc[u] \notin After

Live(u) == Active(u) \/ (start = "loop" /\ u \in Members(starting) /\ pc[u] = "unborn")

LiveTracked == \A u \in Worker : Live(u) => u \in Members(threads)

JoinsLive ==
  \A t \in Stopper : pc[t] = "s_join" =>
    \A u \in Worker : u # t /\ Live(u) => u \in Members(rest[t]) \cup Members(alive_threads[t])

Quiet == start = "append" => \A u \in Worker : ~Active(u)

Tracked == ~hasty => LiveTracked /\ JoinsLive /\ Quiet

LEMMA TrackedInit == Init => Tracked
<1> SUFFICES ASSUME Init PROVE Tracked
  OBVIOUS
<1>1. \A u \in Worker : pc[u] = "unborn"
  BY Threads DEF Init
<1>2. \A t \in Stopper : pc[t] # "s_join"
  BY Threads DEF Init
<1>3. start = "idle"
  BY DEF Init
<1> QED  BY <1>1, <1>2, <1>3 DEF Tracked, LiveTracked, JoinsLive, Quiet, Live, Active

(* Most steps leave the lists alone and take one thread on: one that was   *)
(* in the list, or to a place where it need not be.                        *)
LEMMA QuietTracked ==
  ASSUME Tracked, TypeOK, NEW x \in Thread, NEW l, Goto(x, l), l \notin {"s_join", "unborn"},
         x = Main \/ Live(x) \/ l \in After \cup {"done"},
         x # Main /\ l \notin After \cup {"done"} => Active(x) \/ start = "loop",
         UNCHANGED <<threads, start, starting, rest, alive_threads>>, hasty' = hasty
  PROVE  Tracked'
<1> SUFFICES ASSUME ~hasty PROVE (LiveTracked /\ JoinsLive /\ Quiet)'
  BY DEF Tracked
<1>1. pc' = [pc EXCEPT ![x] = l] /\ DOMAIN pc = Thread
  BY DEF Goto, TypeOK, PlacesOK
<1>2. ASSUME NEW u \in Worker, Live(u)' PROVE Live(u)
  BY <1>1, <1>2, Threads DEF Live, Active
<1>3. ASSUME NEW t \in Stopper, pc'[t] = "s_join" PROVE pc[t] = "s_join"
  BY <1>1, <1>3, Threads
<1>4. ASSUME NEW u \in Worker, Active(u)' PROVE Active(u) \/ start = "loop"
  BY <1>1, <1>4, Threads DEF Active
<1>5. LiveTracked'
  BY <1>2 DEF Tracked, LiveTracked
<1>6. JoinsLive'
  BY <1>2, <1>3 DEF Tracked, JoinsLive
<1>7. Quiet'
  BY <1>4 DEF Tracked, Quiet
<1> QED  BY <1>5, <1>6, <1>7

LEMMA SameTracked ==
  ASSUME Tracked, UNCHANGED <<pc, threads, start, starting, rest, alive_threads, hasty>>
  PROVE  Tracked'
  BY DEF Tracked, LiveTracked, JoinsLive, Quiet, Live, Active

(* While extcap_capture goes on, nobody joins before it starts threads.    *)
LEMMA NobodyJoins ==
  ASSUME \A u \in Worker : ~Active(u), At(Main, "idle"), NEW t \in Stopper
  PROVE  pc[t] # "s_join"
  BY Threads DEF Active, After, At

(* A capture is started only when no thread of an earlier one is active,   *)
(* and none becomes active while the list is filled.                       *)
LEMMA StartTracked ==
  ASSUME Tracked, TypeOK, Start PROVE Tracked'
<1> SUFFICES ASSUME ~hasty' PROVE (LiveTracked /\ JoinsLive /\ Quiet)'
  BY DEF Tracked
<1>1. hasty' = hasty /\ UNCHANGED <<rest, alive_threads>> /\ At(Main, "idle")
  BY DEF Start, StartCapture, StartAppend, StartLoop, StartThread, Starting, stopVars, history
<1>2. LiveTracked /\ JoinsLive /\ Quiet
  BY <1>1 DEF Tracked
<1>3. CASE StartCapture
  <2>1. /\ start = "idle" /\ start' = "append" /\ threads = <<>>
        /\ UNCHANGED <<pc, threads>>
    BY <1>3 DEF StartCapture, Starting
  <2>2. \A u \in Worker : ~Active(u)
    <3>1. Members(threads) = {}
      BY <2>1, MembersOf, EmptySeq
    <3> QED  BY <1>2, <3>1 DEF LiveTracked, Live
  <2>3. \A t \in Stopper : pc[t] # "s_join"
    BY <1>1, <2>2, NobodyJoins
  <2> QED  BY <2>1, <2>2, <2>3 DEF LiveTracked, JoinsLive, Quiet, Live, Active
<1>4. CASE StartAppend
  <2>1. /\ start = "append" /\ start' = "append" /\ UNCHANGED pc
    BY <1>4 DEF StartAppend, Starting
  <2>2. \A u \in Worker : ~Active(u)
    BY <1>2, <2>1 DEF Quiet
  <2>3. \A t \in Stopper : pc[t] # "s_join"
    BY <1>1, <2>2, NobodyJoins
  <2> QED  BY <2>1, <2>2, <2>3 DEF LiveTracked, JoinsLive, Quiet, Live, Active
<1>5. CASE StartLoop
  <2>1. /\ start = "append" /\ start' # "append" /\ starting' = threads /\ UNCHANGED <<pc, threads>>
    BY <1>5 DEF StartLoop, Loop, Starting, shared
  <2>2. \A u \in Worker : ~Active(u)
    BY <1>2, <2>1 DEF Quiet
  <2>3. \A t \in Stopper : pc[t] # "s_join"
    BY <1>1, <2>2, NobodyJoins
  <2> QED  BY <2>1, <2>2, <2>3 DEF LiveTracked, JoinsLive, Quiet, Live, Active
<1>6. CASE StartThread
  <2> DEFINE t == Head(starting)
  <2>1. /\ start = "loop" /\ starting # <<>> /\ threads' = threads
        /\ \/ pc[t] = "unborn" /\ Goto(t, First(t)) /\ Loop(Tail(starting))
           \/ UNCHANGED pc /\ Loop(<<>>)
    BY <1>6 DEF StartThread, Starting, shared, At
  <2>2. /\ t \in Worker /\ Members(starting) = {t} \cup Members(Tail(starting))
        /\ Members(<<>>) = {}
    BY <2>1, MembersOf, EmptySeq DEF TypeOK
  <2>3. start' # "append" /\ Members(starting') \subseteq Members(starting)
    BY <2>1, <2>2 DEF Loop
  <2>4. t \in Members(starting)
    BY <2>2
  <2> HIDE DEF t
  <2>5. \/ pc[t] = "unborn" /\ pc' = [pc EXCEPT ![t] = First(t)]
        \/ pc' = pc
    BY <2>1 DEF Goto
  <2>6. First(t) \notin StopPC /\ t \in Thread /\ DOMAIN pc = Thread
    BY <2>2, FirstPlace, Threads DEF TypeOK, PlacesOK
  <2>7. ASSUME NEW u \in Worker, Live(u)' PROVE Live(u)
    <3>1. CASE u = t /\ pc[t] = "unborn"
      BY <2>1, <2>4, <3>1 DEF Live
    <3>2. CASE ~(u = t /\ pc[t] = "unborn")
      <4>1. pc'[u] = pc[u]
        BY <2>5, <2>6, <3>2, Threads
      <4> QED  BY <2>1, <2>3, <2>7, <4>1 DEF Live, Active
    <3> QED  BY <3>1, <3>2
  <2>8. ASSUME NEW s \in Stopper, pc'[s] = "s_join" PROVE pc[s] = "s_join"
    BY <2>5, <2>6, <2>8, Threads DEF StopPC
  <2> QED  BY <1>1, <1>2, <2>1, <2>3, <2>7, <2>8 DEF LiveTracked, JoinsLive, Quiet
<1> QED  BY <1>3, <1>4, <1>5, <1>6 DEF Start

LEMMA StopTracked ==
  ASSUME Tracked, TypeOK, NEW t \in Stopper, Stop(t) PROVE Tracked'
<1>1. /\ t \in Thread
      /\ pc[t] \in {"s_wait", "s_check", "s_clear", "s_join"} => Active(t)
      /\ Active(t) => Live(t)
  BY Threads DEF Live, Active, After
<1>2. CASE StopWait(t)
  BY <1>1, <1>2, QuietTracked DEF StopWait, Step, At, shared, startVars, stopVars, history
<1>3. CASE StopCheck(t)
  <2>1. Goto(t, "s_clear") \/ Goto(t, "s_serial")
    BY <1>3 DEF StopCheck
  <2>2. UNCHANGED <<threads, start, starting, rest, alive_threads>> /\ hasty' = hasty /\ pc[t] = "s_check"
    BY <1>3 DEF StopCheck, startVars, stopVars, history, At
  <2> QED  BY <1>1, <2>1, <2>2, QuietTracked
<1>4. CASE StopClear(t)
  <2>1. /\ pc[t] = "s_clear" /\ pc' = [pc EXCEPT ![t] = "s_join"] /\ DOMAIN pc = Thread
        /\ rest' = [rest EXCEPT ![t] = threads]
        /\ alive_threads' = [alive_threads EXCEPT ![t] = <<>>]
        /\ UNCHANGED <<threads, start, starting>> /\ hasty' = hasty
    BY <1>4 DEF StopClear, At, Goto, startVars, history, TypeOK, PlacesOK
  <2>2. SUFFICES ASSUME LiveTracked, JoinsLive, Quiet PROVE (LiveTracked /\ JoinsLive /\ Quiet)'
    BY <2>1 DEF Tracked
  <2>3. \A u \in Worker : /\ Active(u)' => Active(u)
                          /\ Live(u)' => Live(u)
    BY <1>1, <2>1, Threads DEF Live, Active
  <2>4. ASSUME NEW s \in Stopper, pc'[s] = "s_join", NEW u \in Worker, u # s, Live(u)'
        PROVE  u \in Members(rest'[s]) \cup Members(alive_threads'[s])
    <3>1. Live(u)
      BY <2>3, <2>4
    <3>2. CASE s = t
      <4>1. rest'[s] = threads
        BY <2>1, <3>2 DEF TypeOK
      <4>2. u \in Members(threads)
        BY <2>2, <3>1 DEF LiveTracked
      <4> QED  BY <4>1, <4>2
    <3>3. CASE s # t
      <4>1. rest'[s] = rest[s] /\ alive_threads'[s] = alive_threads[s] /\ pc[s] = "s_join"
        BY <2>1, <2>4, <3>3, Threads DEF TypeOK
      <4> QED  BY <2>2, <2>4, <3>1, <4>1 DEF JoinsLive
    <3> QED  BY <3>2, <3>3
  <2> QED  BY <2>1, <2>2, <2>3, <2>4 DEF LiveTracked, JoinsLive, Quiet
<1>5. CASE StopJoin(t)
  <2> DEFINE joined == Head(rest[t])
  <2>1. /\ pc[t] = "s_join" /\ rest[t] # <<>> /\ UNCHANGED <<pc, threads, start, starting>>
        /\ rest' = [rest EXCEPT ![t] = Tail(rest[t])]
        /\ hasty' = (hasty \/ pc[joined] = "unborn")
    BY <1>5 DEF StopJoin, At, shared, startVars
  <2>2. \/ (joined = t \/ Ended(joined)) /\ alive_threads' = alive_threads
        \/ alive_threads' = [alive_threads EXCEPT ![t] = Append(alive_threads[t], joined)]
    BY <1>5 DEF StopJoin
  <2>3. rest[t] \in Seq(Worker) /\ alive_threads[t] \in Seq(Worker)
    BY DEF TypeOK
  <2>4. joined \in Worker /\ Members(rest[t]) = {joined} \cup Members(Tail(rest[t]))
    BY <2>1, <2>3, MembersOf
  <2> HIDE DEF joined
  <2>5. SUFFICES ASSUME LiveTracked, JoinsLive, Quiet, pc[joined] # "unborn"
                 PROVE  (LiveTracked /\ JoinsLive /\ Quiet)'
    BY <2>1 DEF Tracked
  <2>6. ASSUME NEW u \in Worker, u # t, Live(u)
        PROVE  u \in Members(rest'[t]) \cup Members(alive_threads'[t])
    <3>1. u \in {joined} \cup Members(Tail(rest[t])) \cup Members(alive_threads[t])
      BY <2>1, <2>4, <2>5, <2>6 DEF JoinsLive
    <3>2. rest'[t] = Tail(rest[t])
      BY <2>1 DEF TypeOK
    <3>3. CASE (joined = t \/ Ended(joined)) /\ alive_threads' = alive_threads
      <4>1. u # joined
        BY <2>5, <2>6, <3>3 DEF Ended, Live, Active
      <4> QED  BY <3>1, <3>2, <3>3, <4>1
    <3>4. CASE alive_threads' = [alive_threads EXCEPT ![t] = Append(alive_threads[t], joined)]
      <4>1. alive_threads'[t] = Append(alive_threads[t], joined)
        BY <3>4 DEF TypeOK
      <4>2. Members(Append(alive_threads[t], joined)) = Members(alive_threads[t]) \cup {joined}
        BY <2>3, <2>4, MembersOf
      <4> QED  BY <3>1, <3>2, <4>1, <4>2
    <3> QED  BY <2>2, <3>3, <3>4
  <2>7. \A s \in Stopper : s # t => rest'[s] = rest[s] /\ alive_threads'[s] = alive_threads[s]
    BY <2>1, <2>2 DEF TypeOK
  <2>8. LiveTracked' /\ Quiet'
    BY <2>1, <2>5 DEF LiveTracked, Quiet, Live, Active
  <2>9. JoinsLive'
    BY <2>1, <2>5, <2>6, <2>7 DEF JoinsLive, Live, Active
  <2> QED  BY <2>8, <2>9
<1>6. CASE StopThreads(t)
  <2>1. /\ pc[t] = "s_join" /\ pc' = [pc EXCEPT ![t] = "s_serial"] /\ DOMAIN pc = Thread
        /\ rest[t] = <<>> /\ threads' = alive_threads[t] /\ rest' = rest
        /\ alive_threads' = [alive_threads EXCEPT ![t] = <<>>]
        /\ UNCHANGED <<start, starting>> /\ hasty' = hasty
    BY <1>6 DEF StopThreads, At, Goto, startVars, history, TypeOK, PlacesOK
  <2>2. SUFFICES ASSUME LiveTracked, JoinsLive, Quiet PROVE (LiveTracked /\ JoinsLive /\ Quiet)'
    BY <2>1 DEF Tracked
  <2>3. \A u \in Worker : /\ Active(u)' => Active(u)
                          /\ Live(u)' => Live(u) /\ u # t
    BY <1>1, <2>1, Threads DEF Live, Active, After
  <2>4. Members(rest[t]) = {}
    BY <2>1, EmptySeq, MembersOf
  <2>5. LiveTracked'
    BY <2>1, <2>2, <2>3, <2>4 DEF JoinsLive, LiveTracked
  <2>6. ASSUME NEW s \in Stopper, pc'[s] = "s_join"
        PROVE  pc[s] = "s_join" /\ rest'[s] = rest[s] /\ alive_threads'[s] = alive_threads[s]
    BY <2>1, <2>6, Threads DEF TypeOK
  <2>7. JoinsLive'
    BY <2>2, <2>3, <2>6 DEF JoinsLive
  <2>8. Quiet'
    BY <2>1, <2>2, <2>3 DEF Quiet
  <2> QED  BY <2>5, <2>7, <2>8
<1>7. CASE StopSerial(t) \/ StopIsOpen(t) \/ StopClose(t) \/ StopNone(t)
  <2>1. UNCHANGED <<threads, start, starting, rest, alive_threads>> /\ hasty' = hasty
    BY <1>7 DEF StopSerial, StopIsOpen, StopClose, StopNone, shared, startVars, stopVars, history
  <2>2. Goto(t, "s_open") \/ Goto(t, "s_close") \/ Goto(t, "s_none") \/ Return(t)
    <3>1. serial \in {"None", "open", "closed"}
      BY DEF TypeOK
    <3> QED  BY <1>7, <3>1 DEF StopSerial, StopIsOpen, StopClose, StopNone
  <2>3. t # Main => t \in Worker
    BY Threads
  <2>4. CASE t # Main /\ Return(t)
    <3>1. Goto(t, "done")
      BY <2>4 DEF Return
    <3> QED  BY <1>1, <2>1, <3>1, QuietTracked
  <2>5. CASE t = Main /\ Return(t)
    <3>1. Goto(t, "idle")
      BY <2>5 DEF Return
    <3> QED  BY <1>1, <2>1, <2>5, <3>1, QuietTracked
  <2>6. CASE ~Return(t)
    BY <1>1, <2>1, <2>2, <2>6, QuietTracked DEF After
  <2> QED  BY <2>4, <2>5, <2>6
<1> QED  BY <1>2, <1>3, <1>4, <1>5, <1>6, <1>7 DEF Stop

LEMMA ReaderTracked ==
  ASSUME Tracked, TypeOK, NEW k \in Captures, Reader(k) PROVE Tracked'
<1>1. Rd(k) \in Thread
  BY Threads
<1>2. Active(Rd(k))
  BY DEF Reader, RdLoop, RdOpen, RdOpenFails, RdOpenTimeout, RdBegin, RdReply,
         RdSetupDone, RdCheck, RdRead, RdFinal, RdStop, At, Active, After
<1>3. UNCHANGED <<threads, start, starting, rest, alive_threads>> /\ hasty' = hasty
  <2>1. CASE RdLoop(k) \/ RdOpenFails(k) \/ RdCheck(k) \/ RdRead(k) \/ RdStop(k)
    BY <2>1 DEF RdLoop, RdOpenFails, RdCheck, RdRead, RdStop, CallStop, Step, shared, startVars,
                stopVars, history
  <2>2. CASE RdOpen(k) \/ RdOpenTimeout(k) \/ RdBegin(k) \/ RdReply(k) \/ RdSetupDone(k) \/ RdFinal(k)
    BY <2>2 DEF RdOpen, RdOpenTimeout, RdBegin, RdReply, RdSetupDone, RdFinal, startVars,
                stopVars, history
  <2> QED  BY <2>1, <2>2 DEF Reader
<1>4. PICK l \in RdPC \cup {"done", "s_wait"} : Goto(Rd(k), l)
  <2>1. CASE RdLoop(k) \/ RdOpenFails(k) \/ RdCheck(k) \/ RdRead(k) \/ RdStop(k)
    BY <2>1 DEF RdLoop, RdOpenFails, RdCheck, RdRead, RdStop, Step, CallStop, RdPC
  <2>2. CASE RdOpen(k) \/ RdOpenTimeout(k) \/ RdBegin(k) \/ RdReply(k) \/ RdSetupDone(k) \/ RdFinal(k)
    BY <2>2 DEF RdOpen, RdOpenTimeout, RdBegin, RdReply, RdSetupDone, RdFinal, RdPC
  <2> QED  BY <2>1, <2>2 DEF Reader
<1>5. l \notin {"s_join", "unborn"}
  BY DEF RdPC
<1> QED  BY <1>1, <1>2, <1>3, <1>4, <1>5, QuietTracked DEF Live

LEMMA WriterTracked ==
  ASSUME Tracked, TypeOK, NEW k \in Captures, Writer(k) \/ FwEnd(k) PROVE Tracked'
<1>1. Wr(k) \in Thread /\ Fw(k) \in Thread
  BY Threads
<1>2. UNCHANGED <<threads, start, starting, rest, alive_threads>> /\ hasty' = hasty
  BY DEF Writer, WrLoop, WrGet, WrEmpty, WrWrite, WrIOError, WrNoSerial, FwEnd,
         Step, shared, startVars, stopVars, history
<1>3. CASE Writer(k)
  <2>1. Active(Wr(k))
    BY <1>3 DEF Writer, WrLoop, WrGet, WrEmpty, WrWrite, WrIOError, WrNoSerial, Writing,
                At, Active, After
  <2>2. UNCHANGED pc \/ \E l \in WrPC \cup {"done"} : Goto(Wr(k), l)
    BY <1>3 DEF Writer, WrLoop, WrGet, WrEmpty, WrWrite, WrIOError, WrNoSerial, AfterWrite,
                Step, WrPC
  <2>3. CASE UNCHANGED pc
    BY <1>2, <2>3, SameTracked
  <2>4. ASSUME NEW l \in WrPC \cup {"done"}, Goto(Wr(k), l) PROVE Tracked'
    <3>1. l \notin {"s_join", "unborn"}
      BY DEF WrPC
    <3> QED  BY <1>1, <1>2, <2>1, <2>4, <3>1, QuietTracked DEF Live
  <2> QED  BY <2>2, <2>3, <2>4
<1>4. CASE FwEnd(k)
  BY <1>1, <1>2, <1>4, QuietTracked DEF FwEnd, Step
<1> QED  BY <1>3, <1>4

LEMMA TrackedNext == Tracked /\ TypeOK /\ [Next]_vars => Tracked'
<1> SUFFICES ASSUME Tracked, TypeOK, [Next]_vars PROVE Tracked'
  OBVIOUS
<1>1. CASE Detach \/ Attach
  <2>1. UNCHANGED <<pc, threads, start, starting, rest, alive_threads, hasty>>
    BY <1>1 DEF Detach, Attach, shared, startVars, stopVars, history
  <2> QED  BY <2>1, SameTracked
<1>2. CASE Start
  BY <1>2, StartTracked
<1>3. CASE MainStop
  <2>1. /\ Goto(Main, "s_wait") /\ hasty' = hasty
        /\ UNCHANGED <<threads, start, starting, rest, alive_threads>>
    BY <1>3 DEF MainStop, CallStop, shared, startVars, stopVars
  <2> QED  BY <2>1, QuietTracked, Threads
<1>4. ASSUME NEW t \in Stopper, Stop(t) PROVE Tracked'
  BY <1>4, StopTracked
<1>5. ASSUME NEW k \in Captures, ControlEnds(k) PROVE Tracked'
  <2>1. /\ Goto(Ctl(k), "s_wait") /\ Active(Ctl(k)) /\ hasty' = hasty
        /\ UNCHANGED <<threads, start, starting, rest, alive_threads>>
    BY <1>5 DEF ControlEnds, CallStop, shared, startVars, stopVars, At, Active, After
  <2> QED  BY <2>1, QuietTracked, Threads DEF Live
<1>6. ASSUME NEW k \in Captures, Reader(k) PROVE Tracked'
  BY <1>6, ReaderTracked
<1>7. ASSUME NEW k \in Captures, Writer(k) \/ FwEnd(k) PROVE Tracked'
  BY <1>7, WriterTracked
<1>8. CASE UNCHANGED vars
  BY <1>8, SameTracked DEF vars
<1> QED  BY <1>1, <1>2, <1>3, <1>4, <1>5, <1>6, <1>7, <1>8 DEF Next

THEOREM SnifferTracked == Spec => []Tracked
  BY InitType, NextType, TrackedInit, TrackedNext, PTL DEF Spec

(* A thread that is alive is in self.threads, or is in stop_sig_handler    *)
(* itself, as long as no stop has joined a thread before it was started:   *)
(* for any number of captures, with or without a control reader, signals   *)
(* and damaged lines.                                                      *)
THEOREM SnifferThreadsTracked == Spec => []ThreadsTracked
<1>1. Tracked => ThreadsTracked
  BY DEF Tracked, LiveTracked, ThreadsTracked, Live, Active, Ended, Stopping, After, StopPC
<1> QED  BY <1>1, SnifferTracked, PTL

(* Whenever extcap_capture is accepted and no stop has been hasty, every   *)
(* thread of the captures before has ended, but for those that are past    *)
(* the joins of their own stop: two captures never read or write the port  *)
(* side by side.                                                           *)
THEOREM SnifferOneCaptureAtATime ==
  Spec => [][StartCapture /\ ~hasty => \A u \in Worker : Ended(u) \/ pc[u] \in After]_vars
<1>1. TypeOK /\ Tracked /\ StartCapture /\ ~hasty => \A u \in Worker : Ended(u) \/ pc[u] \in After
  BY MembersOf, EmptySeq DEF StartCapture, Tracked, LiveTracked, Live, Active, Ended
<1> QED  BY <1>1, SnifferTypeOK, SnifferTracked, PTL DEF Spec
-----------------------------------------------------------------------------
(* The first capture leaves the firmware asleep.  FirmwareAsleep is far    *)
(* from inductive.  Its first half says where the threads of the first     *)
(* capture are: extcap_capture starts each of them once, whatever happens  *)
(* to self.threads meanwhile; a stop goes past its wait only once the      *)
(* reader has set setup_done, or once running is cleared.                  *)
Past == {"r_check", "r_read", "r_final", "r_stop", "done"} \cup StopPC

Before == {"unborn", "r_loop", "r_open", "r_begin", "r_reply"}

Cleared == {"s_join"} \cup After

Asking == {"s_clear", "s_join"}

FirstThreads == \A u \in Worker : u \notin {Ctl(1), Rd(1), Wr(1), Fw(1)} => pc[u] = "unborn"

SetUp == setup_done => pc[Rd(1)] \in Past

StopSetUp == \A t \in Stopper :
  (pc[t] = "s_check" /\ running) \/ pc[t] \in Asking => setup_done

StopCleared == \A t \in Stopper : pc[t] \in Cleared => ~running

StoppersKnown == \A t \in Stopper : Stopping(t) => t \in stoppers

Draining == pc[Wr(1)] \in {"w_drain", "w_last"} => ~running

NoDup(s) == \A i, j \in DOMAIN s : s[i] = s[j] => i = j

ListFilled == start = "append" => running /\ threads \o starting = Started(1)

NoneBorn == start = "append" => \A u \in Worker : pc[u] = "unborn"

LoopOnce == start = "loop" =>
  /\ NoDup(starting)
  /\ \A u \in Members(starting) : u \in Members(Started(1)) /\ pc[u] = "unborn"

LoopDone == start = "idle" => starting = <<>>

WrStarted == start # "append" /\ pc[Wr(1)] = "unborn" => Wr(1) \in Members(starting)

Lineup == ListFilled /\ NoneBorn /\ LoopOnce /\ LoopDone /\ WrStarted

FirstPlaces == /\ FirstThreads /\ SetUp /\ StopSetUp /\ StopCleared
               /\ StoppersKnown /\ Draining

(* The second half follows the commands.  Before the reader asks for it,   *)
(* nobody has told the firmware to receive; nor before the writer is       *)
(* there, for the reader waits for the echo of what it writes.  A firmware *)
(* that receives has power and an open port.  Once the only stopper has    *)
(* queued "sleep", nothing is queued behind it: it is the last in the      *)
(* queue, or in the writer's hand, or it has been written or is not needed *)
(* any more.  A hasty stop may lose a writer that is not started yet; then *)
(* there is nothing left that could wake the firmware.                     *)
Final(q) == q[Len(q)]

OneStopper == \A t, u \in stoppers : t = u

Asked == \E t \in Stopper : pc[t] \in Asking

NoReceive == ~listening /\ command[1] # "receive" /\ "receive" \notin Members(serial_queue)

Silent == pc[Rd(1)] \in Past /\ NoReceive

Gone == pc[Wr(1)] = "done" \/ Silent

Unasked == pc[Rd(1)] \in Before => NoReceive

Unheard == pc[Wr(1)] = "unborn" => NoReceive

InHand == command[1] # NoCmd => Writing(1)

Powered == listening => attached

PortOpen == OneStopper /\ (running \/ Asked) /\ listening => serial = "open"

NoWriter == OneStopper /\ (running \/ Asked) /\ pc[Wr(1)] = "done" => ~listening

LastSleep == OneStopper /\ Asked /\ pc[Wr(1)] # "done" =>
  \/ serial_queue # <<>> /\ Final(serial_queue) = "sleep"
  \/ serial_queue = <<>> /\ command[1] = "sleep"
  \/ serial_queue = <<>> /\ command[1] = NoCmd /\ ~listening

WrTracked == start # "append" => Wr(1) \in Members(threads) \/ Gone

WrJoins == \A t \in Stopper : pc[t] = "s_join" =>
  Wr(1) \in Members(rest[t]) \cup Members(alive_threads[t]) \/ Gone

WrKept == WrTracked /\ WrJoins

Emptied == OneStopper /\ start # "append" /\ threads = <<>> => ~listening

Commands == /\ Unasked /\ Unheard /\ InHand /\ Powered /\ PortOpen
            /\ NoWriter /\ LastSleep /\ Emptied

(* Until the first capture the script may only have called                 *)
(* stop_sig_handler, which finds nothing to stop.                          *)
Fresh == /\ ~running /\ ~setup_done /\ serial = "None"
         /\ serial_queue = <<>> /\ threads = <<>> /\ command[1] = NoCmd
         /\ ~listening /\ start = "idle" /\ starting = <<>>
         /\ \A u \in Worker : pc[u] = "unborn"
         /\ pc[Main] \in {"idle", "s_wait", "s_check", "s_serial"}

FirstInv == /\ capture = 0 => Fresh
            /\ capture = 1 => FirstPlaces /\ Lineup /\ Commands /\ WrKept

(* What appending to a queue, and taking from it, does to its last command *)
(* and to the commands in it.                                              *)
LEMMA QueueOf ==
  ASSUME NEW q \in Seq(Cmd)
  PROVE  /\ \A c \in Cmd : /\ Append(q, c) # <<>> /\ Final(Append(q, c)) = c
                           /\ Members(Append(q, c)) = Members(q) \cup {c}
         /\ q # <<>> =>
              /\ Head(q) \in Members(q) /\ Members(Tail(q)) \subseteq Members(q)
              /\ Tail(q) = <<>> => Head(q) = Final(q)
              /\ Tail(q) # <<>> => Final(Tail(q)) = Final(q)
<1>1. ASSUME NEW c \in Cmd
      PROVE  /\ Append(q, c) # <<>> /\ Final(Append(q, c)) = c
             /\ Members(Append(q, c)) = Members(q) \cup {c}
  <2>1. /\ Append(q, c) \in Seq(Cmd) /\ Len(Append(q, c)) = Len(q) + 1
        /\ Append(q, c)[Len(q) + 1] = c
    BY AppendProperties
  <2>2. Append(q, c) # <<>>
    BY AppendProperties
  <2> QED  BY <2>1, <2>2, MembersOf DEF Final
<1>2. ASSUME q # <<>>
      PROVE  /\ Head(q) \in Members(q) /\ Members(Tail(q)) \subseteq Members(q)
             /\ Tail(q) = <<>> => Head(q) = Final(q)
             /\ Tail(q) # <<>> => Final(Tail(q)) = Final(q)
  <2>1. /\ Head(q) = q[1] /\ Tail(q) \in Seq(Cmd) /\ Len(Tail(q)) = Len(q) - 1
        /\ \A i \in 1..Len(Tail(q)) : Tail(q)[i] = q[i + 1]
    BY <1>2, HeadTailProperties
  <2>2. Members(q) = {Head(q)} \cup Members(Tail(q))
    BY <1>2, MembersOf
  <2>3. Len(q) \in Nat /\ Len(Tail(q)) \in Nat /\ Len(Tail(q)) = Len(q) - 1
    BY <2>1, LenProperties
  <2>4. ASSUME Tail(q) = <<>> PROVE Head(q) = Final(q)
    <3>1. Len(Tail(q)) = 0
      BY <2>1, <2>4, EmptySeq
    <3>2. Len(q) = 1
      BY ONLY <2>3, <3>1
    <3> QED  BY <2>1, <3>2 DEF Final
  <2>5. ASSUME Tail(q) # <<>> PROVE Final(Tail(q)) = Final(q)
    <3>1. Len(Tail(q)) # 0
      BY <2>1, <2>5, EmptySeq
    <3>2. Len(Tail(q)) \in 1..Len(Tail(q)) /\ Len(Tail(q)) + 1 = Len(q)
      BY ONLY <2>3, <3>1
    <3> QED  BY <2>1, <3>2 DEF Final
  <2> QED  BY <2>2, <2>4, <2>5
<1> QED  BY <1>1, <1>2

LEMMA FirstCapture ==
  /\ 1 \in Captures
  /\ Rd(1) \in Thread /\ Rd(1) \in Stopper /\ Rd(1) \in Worker
  /\ Wr(1) \in Thread /\ Wr(1) \in Worker /\ Wr(1) \notin Stopper
  /\ \A k \in Captures : /\ Rd(k) = Rd(1) => k = 1
                         /\ Wr(k) = Wr(1) => k = 1
                         /\ Ctl(k) # Rd(1) /\ Ctl(k) # Wr(1)
                         /\ Rd(k) # Wr(1) /\ Wr(k) # Rd(1)
                         /\ Fw(k) # Rd(1) /\ Fw(k) # Wr(1)
                         /\ Wr(k) \notin Stopper /\ Fw(k) \notin Stopper
  /\ Main # Rd(1) /\ Main # Wr(1)
<1>1. 1 \in Captures
  BY SnifferAssumption DEF Captures
<1> QED  BY <1>1, Threads DEF Main, Stopper, Ctl, Rd, Wr, Fw

-----------------------------------------------------------------------------
(* A step of one thread, and what it must do for the first half.           *)
LEMMA MovePlaces ==
  ASSUME TypeOK, FirstPlaces, NEW x \in Thread, NEW l, Goto(x, l),
         pc[x] # "unborn" \/ x \in {Ctl(1), Rd(1), Wr(1), Fw(1)},
         running' => running,
         setup_done => setup_done',
         setup_done' => setup_done \/ (x = Rd(1) /\ l \in Past),
         x = Rd(1) /\ pc[x] \in Past => l \in Past,
         (l = "s_check" /\ running') \/ l \in Asking => setup_done',
         l \in Cleared => ~running',
         stoppers \subseteq stoppers', l \in StopPC => x \in stoppers',
         x = Wr(1) /\ l \in {"w_drain", "w_last"} => ~running'
  PROVE  FirstPlaces'
<1>1. pc' = [pc EXCEPT ![x] = l] /\ DOMAIN pc = Thread
  BY DEF Goto, TypeOK, PlacesOK
<1>2. FirstThreads'
  BY <1>1, Threads, FirstCapture DEF FirstPlaces, FirstThreads
<1>3. SetUp'
  BY <1>1, FirstCapture DEF FirstPlaces, SetUp
<1>4. StopSetUp'
  BY <1>1, Threads DEF FirstPlaces, StopSetUp
<1>5. StopCleared'
  BY <1>1, Threads DEF FirstPlaces, StopCleared
<1>6. StoppersKnown'
  BY <1>1, Threads DEF FirstPlaces, StoppersKnown, Stopping
<1>7. Draining'
  BY <1>1, FirstCapture DEF FirstPlaces, Draining
<1> QED  BY <1>2, <1>3, <1>4, <1>5, <1>6, <1>7 DEF FirstPlaces

(* The first half, step by step: every step of the first capture moves one *)
(* thread on, or none.                                                     *)
LEMMA SamePlaces ==
  ASSUME FirstPlaces, UNCHANGED <<pc, setup_done, stoppers>>, running' => running
  PROVE  FirstPlaces'
  BY DEF FirstPlaces, FirstThreads, SetUp, StopSetUp, StopCleared, StoppersKnown, Stopping, Draining

LEMMA CallStopPlaces ==
  ASSUME TypeOK, FirstPlaces, NEW t \in Stopper, CallStop(t), pc[t] # "unborn",
         UNCHANGED <<shared, startVars, command, stopVars, env, capture>>
  PROVE  FirstPlaces'
<1>1. /\ Goto(t, "s_wait") /\ stoppers' = stoppers \cup {t}
      /\ UNCHANGED <<running, setup_done>>
  BY DEF CallStop, shared
<1>2. "s_wait" \in Past /\ "s_wait" \notin Asking \cup Cleared
  BY DEF Past, StopPC, Asking, Cleared, After
<1> QED  BY <1>1, <1>2, MovePlaces, Threads

LEMMA StopPlaces ==
  ASSUME TypeOK, FirstPlaces, NEW t \in Stopper, Stop(t)
  PROVE  FirstPlaces'
<1>1. t \in Thread /\ t # Wr(1)
  BY Threads, FirstCapture
<1>2. pc[t] \in StopPC
  BY DEF Stop, StopWait, StopCheck, StopClear, StopJoin, StopThreads, StopSerial, StopIsOpen,
         StopClose, StopNone, At, StopPC
<1>3. t \in stoppers /\ pc[t] # "unborn" /\ StopPC \cup {"done"} \subseteq Past
  BY <1>2 DEF FirstPlaces, StoppersKnown, Stopping, StopPC, Past
<1>4. CASE StopWait(t)
  <2>1. /\ Goto(t, "s_check") /\ (~running \/ setup_done)
        /\ UNCHANGED <<running, setup_done, stoppers>>
    BY <1>4 DEF StopWait, Step, shared, history
  <2>2. "s_check" \in Past /\ "s_check" \notin Asking \cup Cleared
    BY DEF Past, StopPC, Asking, Cleared, After
  <2> QED  BY <1>1, <1>3, <2>1, <2>2, MovePlaces
<1>5. CASE StopCheck(t)
  <2>1. /\ pc[t] = "s_check" /\ UNCHANGED <<running, setup_done, stoppers>>
        /\ \/ running /\ Goto(t, "s_clear")
           \/ ~running /\ Goto(t, "s_serial")
    BY <1>5 DEF StopCheck, At, history
  <2>2. running => setup_done
    BY <2>1 DEF FirstPlaces, StopSetUp
  <2>3. CASE running /\ Goto(t, "s_clear")
    <3>1. "s_clear" \in Past /\ "s_clear" \notin Cleared
      BY DEF Past, StopPC, Cleared, After
    <3> QED  BY <1>1, <1>3, <2>1, <2>2, <2>3, <3>1, MovePlaces
  <2>4. CASE ~running /\ Goto(t, "s_serial")
    <3>1. "s_serial" \in Past /\ "s_serial" \notin Asking
      BY DEF Past, StopPC, Asking
    <3> QED  BY <1>1, <1>3, <2>1, <2>4, <3>1, MovePlaces
  <2> QED  BY <2>1, <2>3, <2>4
<1>6. CASE StopClear(t)
  <2>1. /\ pc[t] = "s_clear" /\ UNCHANGED <<setup_done, stoppers>>
        /\ ~running' /\ Goto(t, "s_join")
    BY <1>6 DEF StopClear, At, history
  <2>2. setup_done
    BY <2>1 DEF FirstPlaces, StopSetUp, Asking
  <2>3. "s_join" \in Past
    BY DEF Past, StopPC
  <2> QED  BY <1>1, <1>3, <2>1, <2>2, <2>3, MovePlaces
<1>7. CASE StopJoin(t)
  <2>1. UNCHANGED <<pc, running, setup_done, stoppers>>
    BY <1>7 DEF StopJoin, shared
  <2> QED  BY <2>1, SamePlaces
<1>8. CASE StopThreads(t)
  <2>1. /\ pc[t] = "s_join" /\ UNCHANGED <<running, setup_done, stoppers>>
        /\ Goto(t, "s_serial")
    BY <1>8 DEF StopThreads, At, history
  <2>2. ~running
    BY <2>1 DEF FirstPlaces, StopCleared, Cleared
  <2>3. "s_serial" \in Past /\ "s_serial" \notin Asking
    BY DEF Past, StopPC, Asking
  <2> QED  BY <1>1, <1>3, <2>1, <2>2, <2>3, MovePlaces
<1>9. CASE StopSerial(t) \/ StopIsOpen(t) \/ StopClose(t) \/ StopNone(t)
  <2>1. /\ pc[t] \in After /\ UNCHANGED <<running, setup_done, stoppers>>
    BY <1>9 DEF StopSerial, StopIsOpen, StopClose, StopNone, At, shared, history, After
  <2>2. PICK l \in {"s_open", "s_close", "s_none", "idle", "done"} : Goto(t, l) /\ (l = "idle" => t = Main)
    <3>1. serial \in {"None", "open", "closed"}
      BY DEF TypeOK
    <3> QED  BY <1>9, <3>1 DEF StopSerial, StopIsOpen, StopClose, StopNone, Return
  <2>3. ~running
    BY <2>1 DEF FirstPlaces, StopCleared, Cleared
  <2>4. l # "idle" => l \in Past
    BY DEF Past, StopPC
  <2>5. l \notin Asking /\ l # "s_check"
    BY DEF Asking
  <2> QED  BY <1>1, <1>3, <2>1, <2>2, <2>3, <2>4, <2>5, FirstCapture, MovePlaces
<1> QED  BY <1>4, <1>5, <1>6, <1>7, <1>8, <1>9 DEF Stop

LEMMA ReaderPlaces ==
  ASSUME TypeOK, FirstPlaces, NEW k \in Captures, Reader(k)
  PROVE  FirstPlaces'
<1>1. Rd(k) \in Thread /\ Rd(k) \in Stopper /\ Rd(k) # Wr(1)
  BY Threads, FirstCapture
<1>2. pc[Rd(k)] \in RdPC /\ pc[Rd(k)] # "unborn"
  BY DEF Reader, RdLoop, RdOpen, RdOpenFails, RdOpenTimeout, RdBegin, RdReply,
         RdSetupDone, RdCheck, RdRead, RdFinal, RdStop, At, RdPC
<1>3. CASE RdStop(k)
  <2>1. CASE CallStop(Rd(k))
    BY <1>1, <1>2, <1>3, <2>1, CallStopPlaces DEF RdStop
  <2>2. CASE Goto(Rd(k), "done") /\ UNCHANGED <<stoppers, hasty>>
    <3>1. UNCHANGED <<running, setup_done>>
      BY <1>3 DEF RdStop, shared
    <3>2. "done" \in Past /\ "done" \notin Asking \cup Cleared \cup StopPC
      BY DEF Past, Asking, Cleared, After, StopPC
    <3> QED  BY <1>1, <1>2, <2>2, <3>1, <3>2, MovePlaces
  <2> QED  BY <1>3, <2>1, <2>2 DEF RdStop
<1>4. CASE ~RdStop(k)
  <2>1. PICK l \in RdPC \cup {"done"} : Goto(Rd(k), l) /\ (pc[Rd(k)] \in Past => l \in Past)
    BY <1>4 DEF Reader, RdLoop, RdOpen, RdOpenFails, RdOpenTimeout, RdBegin, RdReply,
         RdSetupDone, RdCheck, RdRead, RdFinal, At, Step, RdPC, Past, StopPC
  <2>2. (running' => running) /\ UNCHANGED stoppers
    BY <1>4 DEF Reader, RdLoop, RdOpen, RdOpenFails, RdOpenTimeout, RdBegin, RdReply,
         RdSetupDone, RdCheck, RdRead, RdFinal, Step, shared, history
  <2>3. /\ setup_done => setup_done'
        /\ setup_done' => setup_done \/ Goto(Rd(k), "r_check") \/ Goto(Rd(k), "r_stop")
    BY <1>4 DEF Reader, RdLoop, RdOpen, RdOpenFails, RdOpenTimeout, RdBegin, RdReply,
         RdSetupDone, RdCheck, RdRead, RdFinal, Step, shared
  <2>4. k = 1
    BY <1>2, Threads, FirstCapture DEF FirstPlaces, FirstThreads, Ctl, Rd, Wr, Fw
  <2>5. setup_done' => setup_done \/ l \in Past
    <3>1. pc[Rd(k)]' = l
      BY <1>1, <2>1 DEF Goto, TypeOK, PlacesOK
    <3>2. Goto(Rd(k), "r_check") \/ Goto(Rd(k), "r_stop") => pc[Rd(k)]' \in Past
      BY <1>1 DEF Goto, TypeOK, PlacesOK, Past
    <3> QED  BY <2>3, <3>1, <3>2
  <2>6. l \notin Asking \cup Cleared \cup StopPC /\ l # "s_check"
    BY DEF Asking, Cleared, After, StopPC, RdPC
  <2> QED  BY <1>1, <1>2, <2>1, <2>2, <2>3, <2>4, <2>5, <2>6, MovePlaces
<1> QED  BY <1>3, <1>4

LEMMA WriterPlaces ==
  ASSUME TypeOK, FirstPlaces, NEW k \in Captures, Writer(k) \/ FwEnd(k)
  PROVE  FirstPlaces'
<1>1. /\ Wr(k) \in Thread /\ Fw(k) \in Thread /\ Wr(k) \notin Stopper /\ Fw(k) \notin Stopper
      /\ Wr(k) # Rd(1) /\ Fw(k) # Rd(1) /\ Fw(k) # Wr(1)
  BY Threads, FirstCapture
<1>2. UNCHANGED <<setup_done, stoppers>> /\ (running' => running)
  BY DEF Writer, WrLoop, WrGet, WrEmpty, WrWrite, WrIOError, WrNoSerial, FwEnd,
         Step, shared, history
<1>3. \A l \in WrPC \cup FwPC \cup {"done"} : l \notin Asking \cup Cleared \cup StopPC /\ l # "s_check"
  BY DEF WrPC, FwPC, Asking, Cleared, After, StopPC
<1>4. CASE Writer(k)
  <2>1. pc[Wr(k)] # "unborn"
    BY <1>4 DEF Writer, WrLoop, WrGet, WrEmpty, WrWrite, WrIOError, WrNoSerial, Writing, At
  <2> SUFFICES ASSUME pc' # pc PROVE FirstPlaces'
    BY <1>2, SamePlaces
  <2>2. PICK l \in WrPC \cup {"done"} :
          Goto(Wr(k), l) /\ (l \in {"w_drain", "w_last"} => ~running' \/ pc[Wr(k)] \in {"w_drain", "w_last"})
    BY <1>4 DEF Writer, WrLoop, WrGet, WrEmpty, WrWrite, WrIOError, WrNoSerial, AfterWrite,
                Writing, At, Step, WrPC, shared
  <2>3. Wr(k) = Wr(1) /\ l \in {"w_drain", "w_last"} => ~running'
    BY <1>2, <2>2 DEF FirstPlaces, Draining
  <2> QED  BY <1>1, <1>2, <1>3, <2>1, <2>2, <2>3, MovePlaces
<1>5. CASE FwEnd(k)
  <2>1. pc[Fw(k)] # "unborn"
    BY <1>5 DEF FwEnd, At
  <2>2. PICK l \in FwPC \cup {"done"} : Goto(Fw(k), l)
    BY <1>5 DEF FwEnd, Step, FwPC
  <2> QED  BY <1>1, <1>2, <1>3, <2>1, <2>2, MovePlaces
<1> QED  BY <1>4, <1>5

(* extcap_capture starts every thread of the first capture, and each once. *)
LEMMA NoDupStarted == NoDup(Started(1)) /\ Started(1) # <<>>
<1> DEFINE s == <<Rd(1), Wr(1), Fw(1)>>
           c == <<Ctl(1)>>
<1>1. Len(s) = 3 /\ s[1] = Rd(1) /\ s[2] = Wr(1) /\ s[3] = Fw(1) /\ s \in Seq(Worker) /\ DOMAIN s = 1..3
  BY FirstCapture, Threads
<1>2. Rd(1) # Wr(1) /\ Rd(1) # Fw(1) /\ Wr(1) # Fw(1) /\ Ctl(1) \notin {Rd(1), Wr(1), Fw(1)}
  BY DEF Ctl, Rd, Wr, Fw
<1>3. \A i, j \in 1..3 : s[i] = s[j] => i = j
  BY <1>1, <1>2
<1>4. CASE Control
  <2>1. c \in Seq(Worker) /\ Len(c) = 1 /\ c[1] = Ctl(1)
    BY FirstCapture, Threads
  <2>2. Started(1) = c \o s
    BY <1>4 DEF Started
  <2> HIDE DEF s, c
  <2>3. /\ c \o s \in Seq(Worker) /\ Len(c \o s) = Len(c) + Len(s)
        /\ \A i \in 1..(Len(c) + Len(s)) : (c \o s)[i] = IF i <= Len(c) THEN c[i] ELSE s[i - Len(c)]
    BY <1>1, <2>1, ConcatProperties
  <2>4. DOMAIN (c \o s) = 1..4 /\ c \o s # <<>>
    BY <1>1, <2>1, <2>3, LenProperties, EmptySeq
  <2>5. (c \o s)[1] = Ctl(1) /\ (c \o s)[2] = Rd(1) /\ (c \o s)[3] = Wr(1) /\ (c \o s)[4] = Fw(1)
    BY <1>1, <2>1, <2>3
  <2>6. PICK d : d = c \o s
    OBVIOUS
  <2>7. d[1] = Ctl(1) /\ d[2] = Rd(1) /\ d[3] = Wr(1) /\ d[4] = Fw(1)
    BY <2>5, <2>6
  <2>8. /\ d[1] # d[2] /\ d[1] # d[3] /\ d[1] # d[4]
        /\ d[2] # d[3] /\ d[2] # d[4] /\ d[3] # d[4]
    BY <1>2, <2>7
  <2>9. ASSUME NEW i \in 1..4, NEW j \in 1..4, d[i] = d[j] PROVE i = j
    <3>1. i \in {1, 2, 3, 4} /\ j \in {1, 2, 3, 4}
      BY SMT
    <3>2. CASE i = 1
      BY <2>8, <2>9, <3>1, <3>2
    <3>3. CASE i = 2
      BY <2>8, <2>9, <3>1, <3>3
    <3>4. CASE i = 3
      BY <2>8, <2>9, <3>1, <3>4
    <3>5. CASE i = 4
      BY <2>8, <2>9, <3>1, <3>5
    <3> QED  BY <3>1, <3>2, <3>3, <3>4, <3>5
  <2> QED  BY <2>2, <2>4, <2>6, <2>9 DEF NoDup
<1>5. CASE ~Control
  <2>1. Started(1) = s
    BY <1>1, <1>5 DEF Started
  <2> QED  BY <1>1, <1>3, <2>1 DEF NoDup
<1> QED  BY <1>4, <1>5

LEMMA NoDupTail ==
  ASSUME NEW s \in Seq(Worker), NoDup(s), s # <<>>
  PROVE  NoDup(Tail(s)) /\ Head(s) \notin Members(Tail(s))
<1>1. /\ Head(s) = s[1] /\ Tail(s) \in Seq(Worker) /\ Len(Tail(s)) = Len(s) - 1
      /\ \A i \in 1..Len(Tail(s)) : Tail(s)[i] = s[i + 1]
  BY HeadTailProperties
<1>2. Len(s) \in Nat \ {0} /\ DOMAIN s = 1..Len(s) /\ DOMAIN Tail(s) = 1..Len(Tail(s))
  BY <1>1, LenProperties, EmptySeq
<1>3. ASSUME NEW i \in DOMAIN Tail(s)
      PROVE  i \in Nat /\ i + 1 \in DOMAIN s /\ Tail(s)[i] = s[i + 1] /\ 1 \in DOMAIN s /\ i + 1 # 1
  BY <1>1, <1>2
<1>4. NoDup(Tail(s))
  <2>1. ASSUME NEW i \in DOMAIN Tail(s), NEW j \in DOMAIN Tail(s), Tail(s)[i] = Tail(s)[j]
        PROVE  i = j
    <3>1. i + 1 = j + 1
      BY <1>3, <2>1 DEF NoDup
    <3> QED  BY <1>3, <3>1
  <2> QED  BY <2>1 DEF NoDup
<1>5. Head(s) \notin Members(Tail(s))
  <2>1. ASSUME NEW i \in DOMAIN Tail(s), Tail(s)[i] = s[1] PROVE FALSE
    BY <1>3, <2>1 DEF NoDup
  <2> QED  BY <1>1, <2>1 DEF Members
<1> QED  BY <1>4, <1>5

LEMMA MoveLineup ==
  ASSUME TypeOK, Lineup, NEW x \in Thread, NEW l, Goto(x, l),
         pc[x] # "unborn", l # "unborn", UNCHANGED <<start, starting>>,
         x = Main => UNCHANGED <<running, threads>>
  PROVE  Lineup'
<1>1. pc' = [pc EXCEPT ![x] = l] /\ DOMAIN pc = Thread
  BY DEF Goto, TypeOK, PlacesOK
<1>2. start = "append" => x = Main
  BY Threads DEF Lineup, NoneBorn, Thread
<1>3. \A u \in Worker : pc'[u] = "unborn" <=> pc[u] = "unborn"
  BY <1>1, Threads
<1>4. Members(starting) \subseteq Worker
  BY MembersOf DEF TypeOK
<1>5. ListFilled' /\ NoneBorn'
  BY <1>2, <1>3 DEF Lineup, ListFilled, NoneBorn
<1>6. LoopOnce' /\ LoopDone' /\ WrStarted'
  BY <1>3, <1>4, FirstCapture DEF Lineup, LoopOnce, LoopDone, WrStarted
<1> QED  BY <1>5, <1>6 DEF Lineup

LEMMA SameLineup ==
  ASSUME Lineup, UNCHANGED <<pc, start, starting>>, start = "append" => UNCHANGED <<running, threads>>
  PROVE  Lineup'
  BY DEF Lineup, ListFilled, NoneBorn, LoopOnce, LoopDone, WrStarted

(* While extcap_capture fills the list of the first capture no stop goes   *)
(* on: setup_done is not set, and running is.                              *)
LEMMA AppendStill ==
  ASSUME FirstPlaces, Lineup, start = "append", NEW t \in Stopper, Stop(t)
  PROVE  FALSE
<1>1. running /\ ~setup_done
  BY FirstCapture DEF Lineup, ListFilled, NoneBorn, FirstPlaces, SetUp, Past, StopPC
<1>2. pc[t] \in {"s_check", "s_clear", "s_join"} \cup After
  BY <1>1 DEF Stop, StopWait, StopCheck, StopClear, StopJoin, StopThreads, StopSerial, StopIsOpen,
     StopClose, StopNone, At, After
<1> QED  BY <1>1, <1>2 DEF FirstPlaces, StopSetUp, StopCleared, Asking, Cleared

LEMMA StopLineup ==
  ASSUME TypeOK, FirstPlaces, Lineup, NEW t \in Stopper, Stop(t)
  PROVE  Lineup'
<1>1. start # "append" /\ t \in Thread
  BY AppendStill, Threads
<1>2. UNCHANGED <<start, starting>>
  BY DEF Stop, StopWait, StopCheck, StopClear, StopJoin, StopThreads, StopSerial, StopIsOpen,
     StopClose, StopNone, Step, startVars
<1>3. pc[t] # "unborn"
  BY DEF Stop, StopWait, StopCheck, StopClear, StopJoin, StopThreads, StopSerial, StopIsOpen,
     StopClose, StopNone, At
<1>4. UNCHANGED pc \/ \E l \in StopPC \cup {"idle", "done"} : Goto(t, l)
  <2>1. serial \in {"None", "open", "closed"}
    BY DEF TypeOK
  <2> QED  BY <2>1 DEF Stop, StopWait, StopCheck, StopClear, StopJoin, StopThreads, StopSerial, StopIsOpen,
           StopClose, StopNone, Step, Return, StopPC
<1>5. ASSUME NEW l \in StopPC \cup {"idle", "done"}, Goto(t, l) PROVE Lineup'
  <2>1. pc' = [pc EXCEPT ![t] = l] /\ DOMAIN pc = Thread /\ l # "unborn"
    BY <1>5 DEF Goto, TypeOK, PlacesOK, StopPC
  <2>2. \A u \in Worker : pc'[u] = "unborn" <=> pc[u] = "unborn"
    BY <1>3, <2>1, Threads
  <2>3. Members(starting) \subseteq Worker
    BY MembersOf DEF TypeOK
  <2> QED  BY <1>1, <1>2, <2>2, <2>3, FirstCapture
           DEF Lineup, ListFilled, NoneBorn, LoopOnce, LoopDone, WrStarted
<1> QED  BY <1>1, <1>2, <1>4, <1>5, SameLineup

LEMMA ReaderLineup ==
  ASSUME TypeOK, Lineup, NEW k \in Captures, Reader(k)
  PROVE  Lineup'
<1>1. Rd(k) \in Thread /\ Rd(k) # Main
  BY Threads
<1>2. pc[Rd(k)] # "unborn"
  BY DEF Reader, RdLoop, RdOpen, RdOpenFails, RdOpenTimeout, RdBegin, RdReply,
         RdSetupDone, RdCheck, RdRead, RdFinal, RdStop, At
<1>3. PICK l \in RdPC \cup {"done", "s_wait"} : Goto(Rd(k), l)
  BY DEF Reader, RdLoop, RdOpen, RdOpenFails, RdOpenTimeout, RdBegin, RdReply,
         RdSetupDone, RdCheck, RdRead, RdFinal, RdStop, Step, CallStop, RdPC
<1>4. UNCHANGED <<start, starting>> /\ l # "unborn"
  BY DEF Reader, RdLoop, RdOpen, RdOpenFails, RdOpenTimeout, RdBegin, RdReply,
         RdSetupDone, RdCheck, RdRead, RdFinal, RdStop, Step, startVars, RdPC
<1> QED  BY <1>1, <1>2, <1>3, <1>4, MoveLineup

LEMMA WriterLineup ==
  ASSUME TypeOK, Lineup, NEW k \in Captures, Writer(k) \/ FwEnd(k)
  PROVE  Lineup'
<1>1. /\ Wr(k) \in Worker /\ Fw(k) \in Worker
      /\ Wr(k) \in Thread /\ Fw(k) \in Thread /\ Wr(k) # Main /\ Fw(k) # Main
  BY Threads
<1>2. pc[Wr(k)] # "unborn" \/ pc[Fw(k)] # "unborn"
  BY DEF Writer, WrLoop, WrGet, WrEmpty, WrWrite, WrIOError, WrNoSerial, Writing, FwEnd, At
<1>3. start # "append"
  BY <1>1, <1>2 DEF Lineup, NoneBorn
<1>4. UNCHANGED <<start, starting>>
  BY DEF Writer, WrLoop, WrGet, WrEmpty, WrWrite, WrIOError, WrNoSerial, FwEnd, Step, startVars
<1>5. CASE Writer(k)
  <2>1. pc[Wr(k)] # "unborn"
    BY <1>5 DEF Writer, WrLoop, WrGet, WrEmpty, WrWrite, WrIOError, WrNoSerial, Writing, At
  <2>2. UNCHANGED pc \/ \E l \in WrPC \cup {"done"} : Goto(Wr(k), l)
    BY <1>5 DEF Writer, WrLoop, WrGet, WrEmpty, WrWrite, WrIOError, WrNoSerial, AfterWrite,
                Step, WrPC
  <2>3. \A l \in WrPC \cup {"done"} : l # "unborn"
    BY DEF WrPC
  <2> QED  BY <1>1, <1>3, <1>4, <2>1, <2>2, <2>3, MoveLineup, SameLineup
<1>6. CASE FwEnd(k)
  BY <1>1, <1>4, <1>6, MoveLineup DEF FwEnd, Step, At
<1> QED  BY <1>5, <1>6

(* What extcap_capture does after it has been accepted.                    *)
LEMMA StartPlaces ==
  ASSUME TypeOK, FirstPlaces, Lineup, StartAppend \/ StartLoop \/ StartThread
  PROVE  FirstPlaces' /\ Lineup'
<1>1. UNCHANGED <<running, setup_done, stoppers>>
  BY DEF StartAppend, StartLoop, StartThread, shared, history
<1>2. CASE StartAppend
  <2>1. /\ start = "append" /\ start' = "append" /\ starting # <<>> /\ UNCHANGED pc
        /\ threads' = Append(threads, Head(starting)) /\ starting' = Tail(starting)
    BY <1>2 DEF StartAppend, Starting
  <2>2. threads' \o starting' = threads \o starting
    <3>1. Append(threads, Head(starting)) = threads \o <<Head(starting)>>
      OBVIOUS
    <3>2. starting = <<Head(starting)>> \o Tail(starting)
      BY <2>1, HeadTailProperties DEF TypeOK
    <3>3. /\ threads \in Seq(Worker) /\ <<Head(starting)>> \in Seq(Worker) /\ Tail(starting) \in Seq(Worker)
      BY <2>1, MembersOf DEF TypeOK
    <3>4. (threads \o <<Head(starting)>>) \o Tail(starting) = threads \o (<<Head(starting)>> \o Tail(starting))
      BY <3>3, ConcatAssociative
    <3> QED  BY <2>1, <3>1, <3>2, <3>4
  <2>3. Lineup'
    BY <1>1, <2>1, <2>2 DEF Lineup, ListFilled, NoneBorn, LoopOnce, LoopDone, WrStarted
  <2> QED  BY <1>1, <2>1, <2>3, SamePlaces
<1>3. CASE StartLoop
  <2>1. /\ start = "append" /\ starting = <<>> /\ Loop(threads) /\ UNCHANGED pc
    BY <1>3 DEF StartLoop, Starting
  <2>2. threads = Started(1)
    BY <2>1, ConcatEmptySeq DEF Lineup, ListFilled, TypeOK
  <2>3. start' = "loop" /\ starting' = Started(1)
    BY <2>1, <2>2, NoDupStarted DEF Loop
  <2>4. /\ Wr(1) \in Members(Started(1)) /\ Members(Started(1)) \subseteq Worker
    BY StartedThreads, FirstCapture, Threads
  <2>5. \A u \in Worker : pc'[u] = "unborn"
    BY <2>1 DEF Lineup, NoneBorn
  <2>6. Lineup'
    BY <2>3, <2>4, <2>5, NoDupStarted DEF Lineup, ListFilled, NoneBorn, LoopOnce, LoopDone, WrStarted
  <2> QED  BY <1>1, <2>1, <2>6, SamePlaces
<1>4. CASE StartThread
  <2> DEFINE t == Head(starting)
  <2>1. start = "loop" /\ starting # <<>>
    BY <1>4 DEF StartThread, Starting
  <2>2. /\ t \in Worker /\ Members(starting) = {t} \cup Members(Tail(starting))
        /\ Tail(starting) \in Seq(Worker) /\ Members(Tail(starting)) \subseteq Worker
        /\ NoDup(Tail(starting)) /\ t \notin Members(Tail(starting))
    BY <2>1, MembersOf, NoDupTail DEF Lineup, LoopOnce, TypeOK
  <2>3. t \in Members(Started(1)) /\ pc[t] = "unborn"
    BY <2>1, <2>2 DEF Lineup, LoopOnce
  <2>4. Goto(t, First(t)) /\ Loop(Tail(starting))
    BY <1>4, <2>3 DEF StartThread, At
  <2>5. t \in {Ctl(1), Rd(1), Wr(1), Fw(1)}
    BY <2>3, StartedThreads, FirstCapture
  <2>6. First(t) \notin StopPC \cup {"unborn", "done", "w_drain", "w_last"} /\ t \in Thread
    BY <2>2, <2>5, FirstPlace, Threads DEF First, Ctl, Rd, Wr, Fw
  <2> HIDE DEF t
  <2>7. FirstPlaces'
    <3>1. First(t) \notin Asking \cup Cleared /\ First(t) # "s_check"
      BY <2>6 DEF Asking, Cleared, After, StopPC
    <3>2. ~(t = Rd(1) /\ pc[t] \in Past)
      BY <2>3 DEF Past, StopPC
    <3> QED  BY <1>1, <2>4, <2>5, <2>6, <3>1, <3>2, MovePlaces
  <2>8. /\ \A u \in Worker : u # t => pc'[u] = pc[u]
        /\ pc'[t] # "unborn"
    BY <2>4, <2>6, Threads DEF Goto, TypeOK, PlacesOK
  <2>9. /\ starting' = Tail(starting)
        /\ start' # "append" /\ (start' = "idle" => starting' = <<>>)
    BY <2>4 DEF Loop
  <2>10. LoopOnce'
    BY <2>1, <2>2, <2>8, <2>9 DEF Lineup, LoopOnce
  <2>11. WrStarted'
    BY <2>1, <2>2, <2>8, <2>9, FirstCapture DEF Lineup, WrStarted
  <2>12. Lineup'
    BY <2>9, <2>10, <2>11 DEF Lineup, ListFilled, NoneBorn, LoopDone
  <2> QED  BY <2>7, <2>12
<1> QED  BY <1>2, <1>3, <1>4
-----------------------------------------------------------------------------
(* The second half, step by step.  Most steps touch neither the commands   *)
(* nor the port.                                                           *)
LEMMA AskedBefore ==
  ASSUME TypeOK, NEW x \in Thread, NEW l, Goto(x, l), l \in Asking => pc[x] \in Asking, Asked'
  PROVE  Asked
<1>1. pc' = [pc EXCEPT ![x] = l] /\ DOMAIN pc = Thread
  BY DEF Goto, TypeOK, PlacesOK
<1> QED  BY <1>1, Threads DEF Asked

LEMMA QuietCommands ==
  ASSUME TypeOK, Commands, NEW x \in Thread, NEW l, Goto(x, l), pc[x] # "unborn", l # "unborn",
         l \in Asking => pc[x] \in Asking,
         x = Rd(1) /\ l \in Before => pc[x] \in Before,
         x = Wr(1) => /\ l \in {"w_write", "w_last"} <=> Writing(1)
                      /\ l # "done" /\ pc[x] # "done",
         UNCHANGED <<serial, serial_queue, threads, start, command, listening>>,
         attached' = attached, running' => running, stoppers \subseteq stoppers'
  PROVE  Commands'
<1>1. pc' = [pc EXCEPT ![x] = l] /\ DOMAIN pc = Thread
  BY DEF Goto, TypeOK, PlacesOK
<1>2. Asked' => Asked
  BY AskedBefore
<1>3. OneStopper' => OneStopper
  BY DEF OneStopper
<1>4. pc'[Rd(1)] \in Before => pc[Rd(1)] \in Before
  BY <1>1, FirstCapture
<1>5. /\ Writing(1)' <=> Writing(1)
      /\ pc'[Wr(1)] = "done" <=> pc[Wr(1)] = "done"
      /\ pc'[Wr(1)] = "unborn" <=> pc[Wr(1)] = "unborn"
  BY <1>1, FirstCapture DEF Writing
<1>6. Unasked' /\ Unheard' /\ InHand' /\ Powered'
  BY <1>4, <1>5 DEF Commands, Unasked, Unheard, NoReceive, InHand, Powered
<1>7. PortOpen' /\ NoWriter' /\ LastSleep' /\ Emptied'
  BY <1>2, <1>3, <1>5 DEF Commands, PortOpen, NoWriter, LastSleep, Emptied
<1> QED  BY <1>6, <1>7 DEF Commands

LEMMA SameCommands ==
  ASSUME Commands,
         UNCHANGED <<pc, serial, serial_queue, threads, start, command, listening, running, stoppers>>,
         listening' => attached'
  PROVE  Commands'
  BY DEF Commands, Unasked, Unheard, NoReceive, InHand, Powered, PortOpen, NoWriter, LastSleep,
         Emptied, OneStopper, Asked, Writing

(* Once the reader is past its setup, or the writer has ended, no step     *)
(* makes the firmware receive that did not.                                *)
LEMMA QuietGone ==
  ASSUME TypeOK, Gone, NEW x \in Thread, NEW l, Goto(x, l),
         x = Rd(1) /\ pc[x] \in Past => l \in Past,
         x = Wr(1) => pc[x] # "done",
         listening' => listening,
         command'[1] \in {command[1], NoCmd},
         UNCHANGED serial_queue
  PROVE  Gone'
<1>1. pc' = [pc EXCEPT ![x] = l] /\ DOMAIN pc = Thread
  BY DEF Goto, TypeOK, PlacesOK
<1> QED  BY <1>1, FirstCapture DEF Gone, Silent, NoReceive, NoCmd

LEMMA MoveKept ==
  ASSUME TypeOK, WrKept, Gone => Gone', NEW x \in Thread, NEW l, Goto(x, l), l # "s_join",
         UNCHANGED <<start, threads, rest, alive_threads>>
  PROVE  WrKept'
<1>1. pc' = [pc EXCEPT ![x] = l] /\ DOMAIN pc = Thread
  BY DEF Goto, TypeOK, PlacesOK
<1>2. WrTracked'
  BY DEF WrKept, WrTracked
<1>3. WrJoins'
  BY <1>1, Threads DEF WrKept, WrJoins
<1> QED  BY <1>2, <1>3 DEF WrKept

(* A stopper that closes the port is the only one, or nobody asks.         *)
LEMMA AfterAlone ==
  ASSUME FirstPlaces, OneStopper, NEW t \in Stopper, pc[t] \in After
  PROVE  ~running /\ ~Asked
<1>1. ~running /\ t \in stoppers
  BY DEF FirstPlaces, StopCleared, Cleared, StoppersKnown, Stopping, StopPC, After
<1>2. ASSUME Asked PROVE FALSE
  <2>1. PICK u \in Stopper : pc[u] \in Asking
    BY <1>2 DEF Asked
  <2>2. u \in stoppers
    BY <2>1 DEF FirstPlaces, StoppersKnown, Stopping, StopPC, Asking
  <2>3. u = t
    BY <1>1, <2>2 DEF OneStopper
  <2> QED  BY <2>1, <2>3 DEF Asking, After
<1> QED  BY <1>1, <1>2

(* Nobody asks before the reader has set setup_done.                       *)
LEMMA BeforeAsked ==
  ASSUME FirstPlaces, pc[Rd(1)] \in Before
  PROVE  ~Asked
<1>1. ~setup_done
  BY DEF FirstPlaces, SetUp, Past, Before, StopPC
<1> QED  BY <1>1 DEF FirstPlaces, StopSetUp, Asked

LEMMA StopCommands ==
  ASSUME TypeOK, FirstPlaces, Lineup, Commands, WrKept, NEW t \in Stopper, Stop(t)
  PROVE  Commands' /\ WrKept'
<1>1. t \in Thread /\ t # Wr(1)
  BY Threads, FirstCapture
<1>2. \A l \in StopPC \cup {"done"} : l \notin Before
  BY DEF StopPC, Before
<1>3. pc[t] \in StopPC
  BY DEF Stop, StopWait, StopCheck, StopClear, StopJoin, StopThreads, StopSerial, StopIsOpen,
         StopClose, StopNone, At, StopPC
<1>4. pc[t] # "unborn" /\ StopPC \cup {"done"} \subseteq Past
  BY <1>3 DEF StopPC, Past
<1>5. CASE StopWait(t)
  <2>1. /\ Goto(t, "s_check")
        /\ UNCHANGED <<serial, serial_queue, threads, start, command, listening, attached, running, stoppers>>
        /\ UNCHANGED <<rest, alive_threads>>
    BY <1>5 DEF StopWait, Step, shared, startVars, stopVars, env, history
  <2>2. "s_check" \notin Asking \cup Before /\ "s_check" \in Past
    BY DEF Asking, Before, Past, StopPC
  <2>3. Commands'
    BY <1>1, <1>4, <2>1, <2>2, QuietCommands
  <2>4. Gone => Gone'
    BY <1>1, <2>1, <2>2, QuietGone
  <2> QED  BY <1>1, <2>1, <2>3, <2>4, MoveKept
<1>6. CASE StopCheck(t) /\ running
  <2>1. /\ serial_queue' = Append(serial_queue, "sleep") /\ Goto(t, "s_clear") /\ pc[t] = "s_check"
        /\ UNCHANGED <<serial, threads, start, command, listening, attached, running, stoppers>>
        /\ UNCHANGED <<rest, alive_threads>>
    BY <1>6 DEF StopCheck, startVars, stopVars, env, history, At
  <2>2. pc' = [pc EXCEPT ![t] = "s_clear"] /\ DOMAIN pc = Thread
    BY <2>1 DEF Goto, TypeOK, PlacesOK
  <2>3. /\ serial_queue' # <<>> /\ Final(serial_queue') = "sleep"
        /\ Members(serial_queue') = Members(serial_queue) \cup {"sleep"}
    BY <2>1, QueueOf DEF TypeOK, Cmd
  <2>4. /\ pc'[Wr(1)] = pc[Wr(1)] /\ (pc'[Rd(1)] \in Before => pc[Rd(1)] \in Before)
        /\ pc[Rd(1)] \in Past => pc'[Rd(1)] \in Past
    BY <1>1, <2>2, FirstCapture DEF Before, Past, StopPC
  <2>5. Unasked' /\ Unheard' /\ InHand' /\ Powered'
    BY <2>1, <2>3, <2>4 DEF Commands, Unasked, Unheard, NoReceive, InHand, Powered, Writing
  <2>6. PortOpen' /\ NoWriter' /\ LastSleep' /\ Emptied'
    BY <1>6, <2>1, <2>3, <2>4 DEF Commands, PortOpen, NoWriter, LastSleep, Emptied, OneStopper
  <2>7. Gone => Gone'
    BY <2>1, <2>3, <2>4 DEF Gone, Silent, NoReceive
  <2>8. WrKept'
    BY <1>1, <2>1, <2>7, MoveKept
  <2> QED  BY <2>5, <2>6, <2>8 DEF Commands
<1>7. CASE StopCheck(t) /\ ~running
  <2>1. /\ Goto(t, "s_serial")
        /\ UNCHANGED <<serial, serial_queue, threads, start, command, listening, attached, running, stoppers>>
        /\ UNCHANGED <<rest, alive_threads>>
    BY <1>7 DEF StopCheck, startVars, stopVars, env, history
  <2>2. "s_serial" \notin Asking \cup Before /\ "s_serial" \in Past
    BY DEF Asking, Before, Past, StopPC
  <2>3. Commands'
    BY <1>1, <1>4, <2>1, <2>2, QuietCommands
  <2>4. Gone => Gone'
    BY <1>1, <2>1, <2>2, QuietGone
  <2> QED  BY <1>1, <2>1, <2>3, <2>4, MoveKept
<1>8. CASE StopClear(t)
  <2>1. /\ Goto(t, "s_join") /\ pc[t] = "s_clear" /\ ~running' /\ rest' = [rest EXCEPT ![t] = threads]
        /\ alive_threads' = [alive_threads EXCEPT ![t] = <<>>]
        /\ UNCHANGED <<serial, serial_queue, threads, start, command, listening, attached, stoppers>>
    BY <1>8 DEF StopClear, startVars, env, history, At
  <2>2. "s_join" \notin Before /\ pc[t] \in Asking /\ "s_join" \in Past
    BY <2>1 DEF Asking, Before, Past, StopPC
  <2>3. Commands'
    BY <1>1, <1>4, <2>1, <2>2, QuietCommands
  <2>4. Gone => Gone'
    BY <1>1, <2>1, <2>2, QuietGone
  <2>5. start # "append"
    BY <1>8, AppendStill DEF Stop
  <2>6. pc' = [pc EXCEPT ![t] = "s_join"] /\ DOMAIN pc = Thread
    BY <2>1 DEF Goto, TypeOK, PlacesOK
  <2>7. Wr(1) \in Members(threads) \/ Gone
    BY <2>5 DEF WrKept, WrTracked
  <2>8. rest'[t] = threads
    BY <2>1 DEF TypeOK
  <2>9. WrJoins'
    <3>1. ASSUME NEW s \in Stopper, pc'[s] = "s_join", ~Gone'
          PROVE  Wr(1) \in Members(rest'[s]) \cup Members(alive_threads'[s])
      <4>1. CASE s = t
        BY <2>4, <2>7, <2>8, <3>1, <4>1
      <4>2. CASE s # t
        <5>1. rest'[s] = rest[s] /\ alive_threads'[s] = alive_threads[s] /\ pc[s] = "s_join"
          BY <2>1, <2>6, <3>1, <4>2, Threads DEF TypeOK
        <5> QED  BY <2>4, <3>1, <5>1 DEF WrKept, WrJoins
      <4> QED  BY <4>1, <4>2
    <3> QED  BY <3>1 DEF WrJoins
  <2>10. WrTracked'
    BY <2>1, <2>4, <2>7 DEF WrTracked
  <2> QED  BY <2>3, <2>9, <2>10 DEF WrKept
<1>9. CASE StopJoin(t)
  <2> DEFINE joined == Head(rest[t])
  <2>1. /\ pc[t] = "s_join" /\ rest[t] # <<>>
        /\ rest' = [rest EXCEPT ![t] = Tail(rest[t])]
        /\ UNCHANGED <<pc, serial, serial_queue, threads, start, command, listening, attached, running, stoppers>>
    BY <1>9 DEF StopJoin, shared, startVars, env, At
  <2>2. \/ (joined = t \/ Ended(joined)) /\ alive_threads' = alive_threads
        \/ alive_threads' = [alive_threads EXCEPT ![t] = Append(alive_threads[t], joined)]
    BY <1>9 DEF StopJoin
  <2>3. Commands'
    BY <2>1, SameCommands DEF Commands, Powered
  <2>4. Gone' <=> Gone
    BY <2>1 DEF Gone, Silent, NoReceive
  <2>5. rest[t] \in Seq(Worker) /\ alive_threads[t] \in Seq(Worker)
    BY DEF TypeOK
  <2>6. joined \in Worker /\ Members(rest[t]) = {joined} \cup Members(Tail(rest[t]))
    BY <2>1, <2>5, MembersOf
  <2> HIDE DEF joined
  <2>7. pc[Wr(1)] = "unborn" => Gone
    <3>1. setup_done
      BY <2>1 DEF FirstPlaces, StopSetUp, Asking
    <3> QED  BY <3>1 DEF FirstPlaces, SetUp, Commands, Unheard, Gone, Silent
  <2>8. Wr(1) \in Members(rest'[t]) \cup Members(alive_threads'[t]) \/ Gone
    <3>1. Wr(1) \in {joined} \cup Members(Tail(rest[t])) \cup Members(alive_threads[t]) \/ Gone
      BY <2>1, <2>6 DEF WrKept, WrJoins
    <3>2. rest'[t] = Tail(rest[t])
      BY <2>1 DEF TypeOK
    <3>3. CASE (joined = t \/ Ended(joined)) /\ alive_threads' = alive_threads
      <4>1. joined = Wr(1) => Gone
        BY <1>1, <2>7, <3>3 DEF Ended, Gone
      <4> QED  BY <3>1, <3>2, <3>3, <4>1
    <3>4. CASE alive_threads' = [alive_threads EXCEPT ![t] = Append(alive_threads[t], joined)]
      <4>1. alive_threads'[t] = Append(alive_threads[t], joined)
        BY <3>4 DEF TypeOK
      <4>2. Members(Append(alive_threads[t], joined)) = Members(alive_threads[t]) \cup {joined}
        BY <2>5, <2>6, MembersOf
      <4> QED  BY <3>1, <3>2, <4>1, <4>2
    <3> QED  BY <2>2, <3>3, <3>4
  <2>9. \A s \in Stopper : s # t => rest'[s] = rest[s] /\ alive_threads'[s] = alive_threads[s]
    BY <2>1, <2>2 DEF TypeOK
  <2>10. WrJoins'
    BY <2>1, <2>4, <2>8, <2>9 DEF WrKept, WrJoins
  <2>11. WrTracked'
    BY <2>1, <2>4 DEF WrKept, WrTracked
  <2> QED  BY <2>3, <2>10, <2>11 DEF WrKept
<1>10. CASE StopThreads(t)
  <2>1. /\ Goto(t, "s_serial") /\ pc[t] = "s_join" /\ rest[t] = <<>> /\ threads' = alive_threads[t]
        /\ rest' = rest /\ alive_threads' = [alive_threads EXCEPT ![t] = <<>>]
        /\ UNCHANGED <<serial, serial_queue, start, command, listening, attached, running, stoppers>>
    BY <1>10 DEF StopThreads, startVars, env, history, At
  <2>2. pc' = [pc EXCEPT ![t] = "s_serial"] /\ DOMAIN pc = Thread
    BY <2>1 DEF Goto, TypeOK, PlacesOK
  <2>3. Asked /\ ~running
    BY <2>1 DEF Asked, Asking, FirstPlaces, StopCleared, Cleared
  <2>4. pc'[Wr(1)] = pc[Wr(1)] /\ (pc'[Rd(1)] \in Before => pc[Rd(1)] \in Before)
    BY <1>1, <2>2, FirstCapture DEF Before
  <2>5. OneStopper' => OneStopper
    BY <2>1 DEF OneStopper
  <2>6. Unasked' /\ Unheard' /\ InHand' /\ Powered'
    BY <2>1, <2>4 DEF Commands, Unasked, Unheard, NoReceive, InHand, Powered, Writing
  <2>7. PortOpen' /\ NoWriter' /\ LastSleep'
    BY <2>1, <2>3, <2>4, <2>5 DEF Commands, PortOpen, NoWriter, LastSleep
  <2>8. Members(rest[t]) = {}
    BY <2>1, EmptySeq, MembersOf
  <2>9. Wr(1) \in Members(threads') \/ Gone
    BY <2>1, <2>8 DEF WrKept, WrJoins
  <2>10. Emptied'
    <3>1. SUFFICES ASSUME OneStopper', threads' = <<>> PROVE ~listening
      BY <2>1 DEF Emptied
    <3>2. Members(threads') = {}
      BY <3>1, MembersOf, EmptySeq
    <3>3. Gone
      BY <2>9, <3>2
    <3> QED  BY <2>3, <2>5, <3>1, <3>3 DEF Commands, NoWriter, Gone, Silent, NoReceive
  <2>11. "s_serial" \in Past
    BY DEF Past, StopPC
  <2>12. Gone => Gone'
    BY <1>1, <2>1, <2>11, QuietGone
  <2>13. WrTracked'
    BY <2>9, <2>12 DEF WrTracked
  <2>14. ASSUME NEW s \in Stopper, pc'[s] = "s_join"
        PROVE  pc[s] = "s_join" /\ rest'[s] = rest[s] /\ alive_threads'[s] = alive_threads[s]
    BY <2>1, <2>2, <2>14, Threads DEF TypeOK
  <2>15. WrJoins'
    BY <2>12, <2>14 DEF WrKept, WrJoins
  <2> QED  BY <2>6, <2>7, <2>10, <2>13, <2>15 DEF Commands, WrKept
<1>11. CASE StopSerial(t) \/ StopIsOpen(t)
  <2>1. /\ UNCHANGED <<serial, serial_queue, threads, start, command, listening, attached, running, stoppers>>
        /\ UNCHANGED <<rest, alive_threads>>
    BY <1>11 DEF StopSerial, StopIsOpen, shared, startVars, stopVars, env, history
  <2>2. PICK l \in {"s_open", "s_close", "s_none", "idle", "done"} : Goto(t, l) /\ (l = "idle" => t = Main)
    <3>1. serial \in {"None", "open", "closed"}
      BY DEF TypeOK
    <3> QED  BY <1>11, <3>1 DEF StopSerial, StopIsOpen, Return
  <2>3. l \notin Asking \cup Before /\ l # "s_join" /\ l # "unborn"
    BY DEF Asking, Before
  <2>4. l # "idle" => l \in Past
    BY DEF Past, StopPC
  <2>5. Commands'
    BY <1>1, <1>4, <2>1, <2>2, <2>3, QuietCommands
  <2>6. Gone => Gone'
    BY <1>1, <2>1, <2>2, <2>4, QuietGone, FirstCapture
  <2> QED  BY <1>1, <2>1, <2>2, <2>3, <2>5, <2>6, MoveKept
<1>12. CASE StopClose(t) \/ StopNone(t)
  <2>1. /\ UNCHANGED <<serial_queue, threads, start, command, listening, attached, running, stoppers>>
        /\ UNCHANGED <<rest, alive_threads>> /\ pc[t] \in After
    BY <1>12 DEF StopClose, StopNone, startVars, stopVars, env, history, At, After
  <2>2. PICK l \in {"s_none", "idle", "done"} : Goto(t, l) /\ (l = "idle" => t = Main)
    BY <1>12 DEF StopClose, StopNone, Return
  <2>3. pc' = [pc EXCEPT ![t] = l] /\ DOMAIN pc = Thread /\ l \notin Asking \cup Before
    BY <2>2 DEF Goto, TypeOK, PlacesOK, Asking, Before
  <2>4. OneStopper' => OneStopper /\ ~running /\ ~Asked
    BY <2>1, AfterAlone DEF OneStopper
  <2>5. Asked' => Asked
    BY <1>1, <2>2, <2>3, AskedBefore
  <2>6. pc'[Wr(1)] = pc[Wr(1)] /\ (pc'[Rd(1)] \in Before => pc[Rd(1)] \in Before)
    BY <1>1, <2>3, FirstCapture
  <2>7. Unasked' /\ Unheard' /\ InHand' /\ Powered'
    BY <2>1, <2>6 DEF Commands, Unasked, Unheard, NoReceive, InHand, Powered, Writing
  <2>8. PortOpen' /\ NoWriter' /\ LastSleep'
    BY <2>1, <2>4, <2>5 DEF PortOpen, NoWriter, LastSleep
  <2>9. Emptied'
    BY <2>1, <2>4, <2>6 DEF Commands, Emptied
  <2>10. l # "idle" => l \in Past
    BY DEF Past, StopPC
  <2>11. Gone => Gone'
    BY <1>1, <2>1, <2>2, <2>10, QuietGone, FirstCapture
  <2>12. WrKept'
    BY <1>1, <2>1, <2>2, <2>11, MoveKept
  <2> QED  BY <2>7, <2>8, <2>9, <2>12 DEF Commands
<1> QED  BY <1>5, <1>6, <1>7, <1>8, <1>9, <1>10, <1>11, <1>12 DEF Stop, StopCheck

LEMMA CallStopCommands ==
  ASSUME TypeOK, Commands, WrKept, NEW t \in Stopper, CallStop(t), pc[t] # "unborn",
         UNCHANGED <<shared, startVars, command, stopVars, env, capture>>
  PROVE  Commands' /\ WrKept'
<1>1. /\ Goto(t, "s_wait") /\ stoppers \subseteq stoppers'
      /\ UNCHANGED <<serial, serial_queue, threads, start, command, listening, attached, running>>
      /\ UNCHANGED <<rest, alive_threads>>
  BY DEF CallStop, shared, startVars, stopVars, env
<1>2. "s_wait" \notin Asking \cup Before /\ "s_wait" \in Past /\ t \in Thread /\ t # Wr(1)
  BY Threads, FirstCapture DEF Asking, Before, Past, StopPC
<1>3. Commands'
  BY <1>1, <1>2, QuietCommands
<1>4. Gone => Gone'
  BY <1>1, <1>2, QuietGone
<1> QED  BY <1>1, <1>2, <1>3, <1>4, MoveKept

LEMMA ReaderCommands ==
  ASSUME TypeOK, FirstPlaces, Commands, WrKept, NEW k \in Captures, Reader(k)
  PROVE  Commands' /\ WrKept'
<1>1. Rd(k) \in Thread /\ Rd(k) \in Stopper /\ Rd(k) # Wr(1)
  BY Threads, FirstCapture
<1>2. pc[Rd(k)] # "unborn"
  BY DEF Reader, RdLoop, RdOpen, RdOpenFails, RdOpenTimeout, RdBegin, RdReply,
         RdSetupDone, RdCheck, RdRead, RdFinal, RdStop, At
<1>3. k = 1
  BY <1>1, <1>2, Threads, FirstCapture DEF FirstPlaces, FirstThreads, Ctl, Rd, Wr, Fw
<1>4. ASSUME NEW l \in RdPC \cup {"done"}, Goto(Rd(k), l)
      PROVE  /\ pc'[Rd(1)] = l /\ pc'[Wr(1)] = pc[Wr(1)] /\ (Asked' => Asked)
             /\ l \notin Asking /\ l # "s_join" /\ l # "unborn"
  <2>1. l \notin Asking /\ l # "s_join" /\ l # "unborn"
    BY DEF Asking, RdPC
  <2>2. pc' = [pc EXCEPT ![Rd(1)] = l] /\ DOMAIN pc = Thread
    BY <1>3, <1>4 DEF Goto, TypeOK, PlacesOK
  <2> QED  BY <1>1, <1>3, <1>4, <2>1, <2>2, AskedBefore, FirstCapture
<1>5. CASE RdLoop(k) \/ RdOpenFails(k) \/ RdCheck(k) \/ RdRead(k)
             \/ RdOpenTimeout(k) \/ RdSetupDone(k) \/ RdFinal(k)
  <2>1. PICK l \in RdPC \cup {"done"} : /\ Goto(Rd(k), l) /\ (l \in Before => pc[Rd(k)] \in Before)
                                        /\ pc[Rd(k)] \in Past => l \in Past
    BY <1>5 DEF RdLoop, RdOpenFails, RdCheck, RdRead, RdOpenTimeout, RdSetupDone,
                RdFinal, Step, At, RdPC, Before, Past, StopPC
  <2>2. /\ UNCHANGED <<serial, serial_queue, threads, start, command, listening, attached, stoppers>>
        /\ UNCHANGED <<rest, alive_threads>>
        /\ running' => running
    BY <1>5 DEF RdLoop, RdOpenFails, RdCheck, RdRead, RdOpenTimeout, RdSetupDone,
                RdFinal, Step, shared, startVars, stopVars, env, history
  <2>3. Commands'
    BY <1>1, <1>2, <1>3, <1>4, <2>1, <2>2, QuietCommands
  <2>4. Gone => Gone'
    BY <1>1, <2>1, <2>2, QuietGone
  <2> QED  BY <1>1, <1>4, <2>1, <2>2, <2>3, <2>4, MoveKept
<1>6. CASE RdOpen(k)
  <2>1. /\ pc[Rd(1)] = "r_open" /\ Goto(Rd(k), "r_begin")
        /\ UNCHANGED <<serial_queue, threads, start, command, listening, attached, running, stoppers>>
        /\ UNCHANGED <<rest, alive_threads>>
    BY <1>3, <1>6 DEF RdOpen, At, startVars, stopVars, env, history
  <2>2. pc[Rd(1)] \in Before /\ pc[Rd(1)] \notin Past
    BY <2>1 DEF Before, Past, StopPC
  <2>3. NoReceive /\ ~Asked
    BY <2>2, BeforeAsked DEF Commands, Unasked
  <2>4. pc'[Wr(1)] = pc[Wr(1)] /\ ~Asked'
    BY <1>4, <2>1, <2>3 DEF RdPC
  <2>5. Unasked' /\ Unheard' /\ InHand' /\ Powered' /\ PortOpen' /\ NoWriter' /\ LastSleep'
    BY <2>1, <2>3, <2>4
       DEF Commands, Unasked, Unheard, NoReceive, InHand, Powered, PortOpen, NoWriter, LastSleep, Writing
  <2>6. Emptied'
    BY <2>1, <2>4 DEF Commands, Emptied, OneStopper
  <2>7. Gone => Gone'
    BY <1>1, <1>3, <2>1, <2>2, QuietGone
  <2>8. WrKept'
    BY <1>1, <2>1, <2>7, MoveKept
  <2> QED  BY <2>5, <2>6, <2>8 DEF Commands
<1>7. CASE RdBegin(k) \/ RdReply(k)
  <2>1. pc[Rd(1)] \in Before /\ pc[Rd(1)] \notin Past
    BY <1>3, <1>7 DEF RdBegin, RdReply, At, Before, Past, StopPC
  <2>2. NoReceive /\ ~Asked
    BY <2>1, BeforeAsked DEF Commands, Unasked
  <2>3. PICK l \in {"r_reply", "r_final", "r_set"} :
          /\ Goto(Rd(k), l)
          /\ l = "r_reply" => serial_queue' = Append(serial_queue, "sleep")
          /\ l = "r_final" => serial_queue' = serial_queue
          /\ l = "r_set" => pc[Wr(1)] # "unborn"
    BY <1>3, <1>7 DEF RdBegin, RdReply, At
  <2>4. /\ UNCHANGED <<threads, start, command, listening, attached, running, stoppers>>
        /\ UNCHANGED <<rest, alive_threads>>
    BY <1>7 DEF RdBegin, RdReply, startVars, stopVars, env, history
  <2>5. pc'[Rd(1)] = l /\ pc'[Wr(1)] = pc[Wr(1)] /\ ~Asked' /\ l # "s_join"
    BY <1>4, <2>2, <2>3 DEF RdPC
  <2>6. l # "r_set" => NoReceive'
    <3>1. Members(Append(serial_queue, "sleep")) = Members(serial_queue) \cup {"sleep"}
      BY QueueOf DEF TypeOK, Cmd
    <3>2. CASE serial_queue' = Append(serial_queue, "sleep")
      BY <2>2, <2>4, <3>1, <3>2 DEF NoReceive
    <3>3. CASE serial_queue' = serial_queue
      BY <2>2, <2>4, <3>3 DEF NoReceive
    <3> QED  BY <2>3, <3>2, <3>3
  <2>7. Unasked' /\ Unheard'
    BY <2>3, <2>5, <2>6 DEF Unasked, Unheard, Before
  <2>8. InHand' /\ Powered' /\ PortOpen' /\ NoWriter' /\ LastSleep'
    BY <2>2, <2>4, <2>5 DEF Commands, NoReceive, InHand, Powered, PortOpen, NoWriter, LastSleep, Writing
  <2>9. Emptied'
    BY <2>2, <2>4, <2>5 DEF NoReceive, Emptied
  <2>10. Gone => Gone'
    BY <2>1, <2>5 DEF Gone, Silent
  <2>11. WrKept'
    BY <1>1, <2>3, <2>4, <2>5, <2>10, MoveKept
  <2> QED  BY <2>7, <2>8, <2>9, <2>11 DEF Commands
<1>8. CASE RdStop(k)
  <2>1. CASE CallStop(Rd(k))
    BY <1>1, <1>2, <1>8, <2>1, CallStopCommands DEF RdStop
  <2>2. CASE Goto(Rd(k), "done") /\ UNCHANGED <<stoppers, hasty>>
    <3>1. /\ UNCHANGED <<serial, serial_queue, threads, start, command, listening, attached, running>>
          /\ UNCHANGED <<rest, alive_threads>>
          /\ "done" \notin Before /\ "done" \in Past
      BY <1>8 DEF RdStop, shared, startVars, stopVars, env, Before, Past
    <3>2. Commands'
      BY <1>1, <1>2, <1>3, <1>4, <2>2, <3>1, QuietCommands
    <3>3. Gone => Gone'
      BY <1>1, <2>2, <3>1, QuietGone
    <3> QED  BY <1>1, <2>2, <3>1, <3>2, <3>3, MoveKept
  <2> QED  BY <1>8, <2>1, <2>2 DEF RdStop
<1> QED  BY <1>5, <1>6, <1>7, <1>8 DEF Reader

LEMMA WriterCommands ==
  ASSUME TypeOK, FirstPlaces, Commands, WrKept, NEW k \in Captures, Writer(k) \/ FwEnd(k)
  PROVE  Commands' /\ WrKept'
<1>1. /\ Wr(k) \in Thread /\ Fw(k) \in Thread /\ Wr(k) \notin Stopper /\ Fw(k) \notin Stopper
      /\ Wr(k) # Rd(1) /\ Fw(k) # Rd(1) /\ Fw(k) # Wr(1)
  BY Threads, FirstCapture
<1>2. \A l \in WrPC \cup FwPC \cup {"done"} :
        l \notin Asking \cup Before /\ l # "s_join" /\ l # "unborn"
  BY DEF WrPC, FwPC, Asking, Before
<1>3. CASE FwEnd(k)
  <2>1. Goto(Fw(k), "done") /\ pc[Fw(k)] # "unborn"
    BY <1>3 DEF FwEnd, Step, At
  <2>2. /\ UNCHANGED <<serial, serial_queue, threads, start, command, listening, attached, running, stoppers>>
        /\ UNCHANGED <<rest, alive_threads>>
    BY <1>3 DEF FwEnd, Step, shared, startVars, stopVars, env, history
  <2>3. Commands'
    BY <1>1, <1>2, <2>1, <2>2, QuietCommands
  <2>4. Gone => Gone'
    BY <1>1, <2>1, <2>2, QuietGone
  <2> QED  BY <1>1, <1>2, <2>1, <2>2, <2>3, <2>4, MoveKept
<1>4. SUFFICES ASSUME Writer(k) PROVE Commands' /\ WrKept'
  BY <1>3
<1>5. pc[Wr(k)] \in WrPC
  BY <1>4 DEF Writer, WrLoop, WrGet, WrEmpty, WrWrite, WrIOError, WrNoSerial, Writing, At, WrPC
<1>6. k = 1
  <2>1. pc[Wr(k)] # "unborn"
    BY <1>5 DEF WrPC
  <2> QED  BY <2>1, Threads, FirstCapture DEF FirstPlaces, FirstThreads, Ctl, Rd, Wr, Fw
<1>7. pc[Wr(1)] # "done" /\ pc[Wr(1)] # "unborn"
  BY <1>5, <1>6 DEF WrPC
<1>8. ASSUME NEW l \in WrPC \cup {"done"}, Goto(Wr(k), l)
      PROVE  /\ pc'[Wr(1)] = l /\ pc'[Rd(1)] = pc[Rd(1)] /\ (Asked' => Asked)
             /\ \A t \in Stopper : pc'[t] = pc[t]
  <2>1. pc' = [pc EXCEPT ![Wr(1)] = l] /\ DOMAIN pc = Thread
    BY <1>6, <1>8 DEF Goto, TypeOK, PlacesOK
  <2> QED  BY <1>1, <1>2, <1>6, <1>8, <2>1, AskedBefore, FirstCapture, Threads
<1>9. /\ UNCHANGED <<serial, threads, start, attached, stoppers, rest, alive_threads>>
      /\ running' => running
  BY <1>4 DEF Writer, WrLoop, WrGet, WrEmpty, WrWrite, WrIOError, WrNoSerial, Step, shared,
              startVars, stopVars, env, history
<1>10. OneStopper' => OneStopper
  BY <1>9 DEF OneStopper
<1>11. ASSUME Gone => Gone', \A t \in Stopper : pc'[t] = pc[t] PROVE WrKept'
  BY <1>9, <1>11 DEF WrKept, WrTracked, WrJoins
<1>12. CASE WrLoop(k) \/ (WrEmpty(k) /\ At(Wr(k), "w_get"))
  <2>1. PICK l \in {"w_get", "w_drain", "w_loop"} : Goto(Wr(k), l)
    BY <1>12 DEF WrLoop, WrEmpty, Step
  <2>2. UNCHANGED <<serial_queue, command, listening>>
    BY <1>12 DEF WrLoop, WrEmpty, Step, shared, env
  <2>3. ~Writing(k) /\ l \in WrPC
    BY <1>12 DEF WrLoop, At, Writing, WrPC
  <2>4. Commands'
    BY <1>1, <1>2, <1>6, <1>7, <1>9, <2>1, <2>2, <2>3, QuietCommands
  <2>5. Gone => Gone'
    BY <1>1, <1>6, <1>7, <2>1, <2>2, QuietGone
  <2> QED  BY <1>8, <1>11, <2>1, <2>3, <2>4, <2>5
<1>13. CASE WrEmpty(k) /\ ~At(Wr(k), "w_get")
  <2>1. /\ Goto(Wr(k), "done") /\ pc[Wr(1)] = "w_drain" /\ serial_queue = <<>>
        /\ UNCHANGED <<serial_queue, command, listening>>
    BY <1>6, <1>13 DEF WrEmpty, Step, At, shared, env
  <2>2. pc'[Wr(1)] = "done" /\ pc'[Rd(1)] = pc[Rd(1)] /\ (Asked' => Asked)
    BY <1>8, <2>1
  <2>3. ~running /\ command[1] = NoCmd
    BY <2>1 DEF FirstPlaces, Draining, Commands, InHand, Writing
  <2>4. Unasked' /\ Unheard' /\ InHand' /\ Powered' /\ PortOpen' /\ LastSleep'
    BY <1>9, <1>10, <2>1, <2>2, <2>3
       DEF Commands, Unasked, Unheard, NoReceive, InHand, Powered, PortOpen, LastSleep, Writing
  <2>5. OneStopper /\ Asked => ~listening
    BY <2>1, <2>3 DEF Commands, LastSleep, NoCmd
  <2>6. NoWriter' /\ Emptied'
    BY <1>9, <1>10, <2>1, <2>2, <2>3, <2>5 DEF Commands, NoWriter, Emptied
  <2>7. Gone'
    BY <2>2 DEF Gone
  <2> QED  BY <1>8, <1>11, <2>1, <2>4, <2>6, <2>7 DEF Commands
<1>14. CASE WrGet(k)
  <2>1. /\ serial_queue # <<>> /\ serial_queue' = Tail(serial_queue)
        /\ command' = [command EXCEPT ![1] = Head(serial_queue)]
        /\ pc[Wr(1)] \in {"w_get", "w_drain"} /\ UNCHANGED <<listening, running>>
    BY <1>6, <1>14 DEF WrGet, env
  <2>2. PICK l \in {"w_write", "w_last"} : Goto(Wr(k), l)
    BY <1>14 DEF WrGet
  <2>3. /\ pc'[Wr(1)] \in {"w_write", "w_last"} /\ pc'[Rd(1)] = pc[Rd(1)] /\ (Asked' => Asked)
        /\ \A t \in Stopper : pc'[t] = pc[t]
    BY <1>8, <2>2 DEF WrPC
  <2>4. /\ Head(serial_queue) \in Members(serial_queue)
        /\ Members(serial_queue') \subseteq Members(serial_queue)
        /\ serial_queue' = <<>> => Head(serial_queue) = Final(serial_queue)
        /\ serial_queue' # <<>> => Final(serial_queue') = Final(serial_queue)
    BY <2>1, QueueOf DEF TypeOK
  <2>5. command'[1] = Head(serial_queue) /\ command'[1] # NoCmd
    <3>1. Head(serial_queue) \in Cmd
      BY <2>1, QueueType DEF TypeOK
    <3> QED  BY <2>1, <3>1, FirstCapture DEF TypeOK, Cmd, NoCmd
  <2>6. NoReceive => NoReceive'
    BY <2>1, <2>4, <2>5 DEF NoReceive
  <2>7. Unasked' /\ Unheard' /\ InHand' /\ Powered' /\ PortOpen' /\ NoWriter' /\ Emptied'
    BY <1>9, <1>10, <2>1, <2>3, <2>6
       DEF Commands, Unasked, Unheard, InHand, Powered, PortOpen, NoWriter, Emptied, Writing
  <2>8. OneStopper' /\ Asked' => Final(serial_queue) = "sleep"
    BY <1>10, <2>1, <2>3 DEF Commands, LastSleep
  <2>9. LastSleep'
    BY <2>4, <2>5, <2>8 DEF LastSleep
  <2>10. Gone => Gone'
    BY <1>7, <2>3, <2>6 DEF Gone, Silent
  <2> QED  BY <1>11, <2>3, <2>7, <2>9, <2>10 DEF Commands
<1>15. CASE WrWrite(k) \/ WrIOError(k) \/ WrNoSerial(k)
  <2>1. /\ pc[Wr(1)] \in {"w_write", "w_last"}
        /\ command' = [command EXCEPT ![1] = NoCmd] /\ UNCHANGED serial_queue
    BY <1>6, <1>15 DEF WrWrite, WrIOError, WrNoSerial, Writing, shared
  <2>2. command'[1] = NoCmd /\ NoCmd # "receive" /\ NoCmd # "sleep"
    BY <2>1, FirstCapture DEF TypeOK, NoCmd
  <2>3. /\ pc'[Rd(1)] = pc[Rd(1)] /\ (Asked' => Asked) /\ \A t \in Stopper : pc'[t] = pc[t]
        /\ pc'[Wr(1)] \in WrPC \cup {"done"}
        /\ pc'[Wr(1)] = "done" => serial = "None" /\ UNCHANGED listening
    <3>1. CASE UNCHANGED pc
      BY <1>5, <1>6, <1>7, <3>1 DEF Asked
    <3>2. CASE pc' # pc
      <4>1. PICK l \in {"w_loop", "w_drain", "done"} :
              Goto(Wr(k), l) /\ (l = "done" => serial = "None" /\ UNCHANGED listening)
        BY <1>15, <3>2 DEF WrWrite, WrIOError, WrNoSerial, AfterWrite, env
      <4>2. l \in WrPC \cup {"done"}
        BY DEF WrPC
      <4> QED  BY <1>8, <4>1, <4>2
    <3> QED  BY <3>1, <3>2
  <2>4. pc'[Wr(1)] # "unborn"
    BY <2>3 DEF WrPC
  <2>5. \/ serial = "open" /\ attached /\ command[1] # NoCmd /\ (listening' <=> command[1] = "receive")
        \/ serial = "open" /\ attached /\ command[1] = NoCmd /\ (listening' <=> listening)
        \/ (serial # "open" \/ ~attached) /\ (listening' <=> listening)
    BY <1>6, <1>15 DEF WrWrite, WrIOError, WrNoSerial, env
  <2>6. NoReceive => NoReceive'
    BY <2>1, <2>2, <2>5 DEF NoReceive
  <2>7. Unasked' /\ Unheard' /\ InHand' /\ Powered'
    BY <1>9, <2>2, <2>3, <2>4, <2>5, <2>6
       DEF Commands, Unasked, Unheard, InHand, Powered
  <2>8. PortOpen'
    BY <1>9, <1>10, <2>3, <2>5 DEF Commands, PortOpen
  <2>9. NoWriter'
    BY <1>9, <1>10, <2>3 DEF Commands, PortOpen, NoWriter
  <2>10. LastSleep'
    <3>1. SUFFICES ASSUME OneStopper', Asked', serial_queue = <<>> \/ Final(serial_queue) # "sleep"
                   PROVE  serial_queue = <<>> /\ ~listening'
      BY <2>1, <2>2 DEF LastSleep
    <3>2. /\ serial_queue = <<>>
          /\ command[1] = "sleep" \/ (command[1] = NoCmd /\ ~listening)
      BY <1>7, <1>10, <2>3, <3>1 DEF Commands, LastSleep
    <3>3. serial # "open" \/ ~attached => ~listening
      BY <1>10, <2>3, <3>1 DEF Commands, PortOpen, Powered
    <3> QED  BY <2>5, <3>2, <3>3 DEF NoCmd
  <2>11. Emptied'
    <3>1. SUFFICES ASSUME OneStopper, start # "append", threads = <<>> PROVE ~listening'
      BY <1>9, <1>10 DEF Emptied
    <3>2. Members(threads) = {}
      BY <3>1, MembersOf, EmptySeq
    <3>3. Gone
      BY <3>1, <3>2 DEF WrKept, WrTracked
    <3>4. NoReceive
      BY <1>7, <3>3 DEF Gone, Silent
    <3> QED  BY <2>6, <3>4 DEF NoReceive
  <2>12. Gone => Gone'
    BY <1>7, <2>3, <2>6 DEF Gone, Silent
  <2> QED  BY <1>11, <2>3, <2>7, <2>8, <2>9, <2>10, <2>11, <2>12 DEF Commands
<1> QED  BY <1>4, <1>12, <1>13, <1>14, <1>15 DEF Writer

LEMMA DongleFirst ==
  ASSUME FirstInv, Detach \/ Attach
  PROVE  FirstInv'
<1>1. /\ UNCHANGED <<running, setup_done, serial, serial_queue, threads, pc, command, stoppers, capture>>
      /\ UNCHANGED <<start, starting, rest, alive_threads>>
  BY DEF Detach, Attach, shared, startVars, stopVars, history
<1>2. (listening' => listening) /\ (listening' => attached')
  BY DEF Detach, Attach, FirstInv
<1>3. Fresh => Fresh'
  BY <1>1, <1>2 DEF Fresh
<1>4. (FirstPlaces => FirstPlaces') /\ (Lineup => Lineup')
  BY <1>1, SamePlaces, SameLineup
<1>5. Commands => Commands'
  BY <1>1, <1>2 DEF Commands, Unasked, Unheard, NoReceive, InHand, Powered, PortOpen, NoWriter,
                    LastSleep, Emptied, OneStopper, Asked, Writing
<1>6. WrKept => WrKept'
  BY <1>1, <1>2 DEF WrKept, WrTracked, WrJoins, Gone, Silent, NoReceive
<1> QED  BY <1>1, <1>3, <1>4, <1>5, <1>6 DEF FirstInv

(* The first capture starts from a fresh object, the others are not the    *)
(* first.                                                                  *)
LEMMA StartFirst ==
  ASSUME TypeOK, FirstInv, Start
  PROVE  FirstInv'
<1>1. capture \in Nat
  BY DEF TypeOK
<1>2. CASE StartCapture /\ capture # 0
  <2>1. capture' = capture + 1
    BY <1>2 DEF StartCapture
  <2> QED  BY <1>1, <1>2, <2>1 DEF FirstInv
<1>3. CASE StartCapture /\ capture = 0
  <2>1. Fresh
    BY <1>3 DEF FirstInv
  <2>2. /\ capture' = 1 /\ pc[Main] = "idle" /\ stoppers' = {} /\ running' = TRUE
        /\ start' = "append" /\ starting' = Started(1) /\ threads = <<>>
        /\ UNCHANGED <<pc, threads, setup_done, serial, serial_queue, command, listening>>
    BY <1>3 DEF StartCapture, Starting, At, env
  <2>3. \A u \in Worker : pc[u] = "unborn"
    BY <2>1 DEF Fresh
  <2>4. \A t \in Stopper : pc[t] \notin StopPC
    BY <2>2, <2>3, Threads DEF StopPC
  <2>5. "s_check" \in StopPC /\ Asking \cup Cleared \subseteq StopPC
    BY DEF StopPC, Asking, Cleared, After
  <2>6. FirstPlaces'
    BY <2>1, <2>2, <2>3, <2>4, <2>5, FirstCapture
       DEF FirstPlaces, FirstThreads, SetUp, StopSetUp, StopCleared, StoppersKnown, Stopping, Draining,
           Fresh
  <2>7. threads \o Started(1) = Started(1)
    BY <2>2, StartedThreads, FirstCapture, ConcatEmptySeq
  <2>8. Lineup'
    BY <2>2, <2>3, <2>7 DEF Lineup, ListFilled, NoneBorn, LoopOnce, LoopDone, WrStarted
  <2>9. NoReceive' /\ command[1] = NoCmd /\ ~listening
    BY <2>1, <2>2, EmptySeq, MembersOf DEF Fresh, NoReceive, NoCmd
  <2>10. Commands'
    BY <2>2, <2>4, <2>5, <2>9
       DEF Commands, Unasked, Unheard, InHand, Powered, PortOpen, NoWriter, LastSleep, Emptied, Asked
  <2>11. WrKept'
    BY <2>2, <2>4 DEF WrKept, WrTracked, WrJoins, StopPC
  <2> QED  BY <2>2, <2>6, <2>8, <2>10, <2>11 DEF FirstInv
<1>4. CASE StartAppend \/ StartLoop \/ StartThread
  <2>1. capture' = capture /\ start # "idle"
    BY <1>4 DEF StartAppend, StartLoop, StartThread, Starting, history
  <2>2. ASSUME capture = 1 PROVE FirstPlaces' /\ Lineup' /\ Commands' /\ WrKept'
    <3>1. FirstPlaces /\ Lineup /\ Commands /\ WrKept
      BY <2>2 DEF FirstInv
    <3>2. FirstPlaces' /\ Lineup'
      BY <1>4, <3>1, StartPlaces
    <3>3. /\ UNCHANGED <<running, setup_done, serial, serial_queue, command, listening, attached, stoppers>>
          /\ UNCHANGED <<rest, alive_threads>>
      BY <1>4 DEF StartAppend, StartLoop, StartThread, shared, stopVars, env, history
    <3>4. CASE StartAppend
      <4>1. start = "append" /\ start' = "append" /\ UNCHANGED pc
        BY <1>4, <3>4 DEF StartAppend, Starting
      <4>2. Commands'
        BY <3>1, <3>3, <4>1
           DEF Commands, Unasked, Unheard, NoReceive, InHand, Powered, PortOpen, NoWriter, LastSleep,
               Emptied, OneStopper, Asked, Writing
      <4>3. WrKept'
        BY <3>1, <3>3, <4>1 DEF WrKept, WrTracked, WrJoins, Gone, Silent, NoReceive
      <4> QED  BY <3>2, <4>2, <4>3
    <3>5. CASE StartLoop
      <4>1. start = "append" /\ starting = <<>> /\ UNCHANGED <<pc, threads>>
        BY <3>5 DEF StartLoop, Starting, shared
      <4>2. threads = Started(1)
        BY <3>1, <4>1, ConcatEmptySeq DEF Lineup, ListFilled, TypeOK
      <4>3. pc[Rd(1)] = "unborn"
        BY <3>1, <4>1, FirstCapture DEF Lineup, NoneBorn
      <4>4. ~listening /\ Wr(1) \in Members(threads)
        BY <3>1, <4>2, <4>3, StartedThreads, FirstCapture DEF Commands, Unasked, NoReceive, Before
      <4>5. Commands'
        BY <3>1, <3>3, <4>1, <4>4
           DEF Commands, Unasked, Unheard, NoReceive, InHand, Powered, PortOpen, NoWriter, LastSleep,
               Emptied, OneStopper, Asked, Writing
      <4>6. WrKept'
        BY <3>1, <3>3, <4>1, <4>4 DEF WrKept, WrTracked, WrJoins, Gone, Silent, NoReceive
      <4> QED  BY <3>2, <4>5, <4>6
    <3>6. CASE StartThread
      <4> DEFINE t == Head(starting)
      <4>1. start = "loop" /\ starting # <<>> /\ threads' = threads
        BY <3>6 DEF StartThread, Starting, shared
      <4>2. t \in Members(starting) /\ t \in Worker
        BY <4>1, MembersOf DEF TypeOK
      <4>3. pc[t] = "unborn"
        BY <3>1, <4>1, <4>2 DEF Lineup, LoopOnce
      <4>4. Goto(t, First(t)) /\ start' # "append"
        BY <3>6, <4>3 DEF StartThread, At, Loop
      <4>5. First(t) \notin StopPC \cup {"unborn", "done"} /\ t \in Thread
        BY <4>2, FirstPlace, Threads
      <4>6. t = Wr(1) => First(t) = "w_loop"
        BY DEF First, Wr
      <4>7. t = Rd(1) => First(t) = "r_loop"
        BY DEF First, Rd
      <4> HIDE DEF t
      <4>8. pc' = [pc EXCEPT ![t] = First(t)] /\ DOMAIN pc = Thread
        BY <4>4 DEF Goto, TypeOK, PlacesOK
      <4>9. /\ pc'[Rd(1)] \in Before => pc[Rd(1)] \in Before
            /\ pc[Rd(1)] \in Past => pc'[Rd(1)] \in Past
            /\ pc[Wr(1)] = "done" <=> pc'[Wr(1)] = "done"
            /\ pc'[Wr(1)] = "unborn" => pc[Wr(1)] = "unborn"
            /\ Writing(1) => Writing(1)'
        BY <4>3, <4>5, <4>6, <4>7, <4>8, FirstCapture DEF Before, Past, StopPC, Writing
      <4>10. Asked' => Asked
        <5>1. First(t) \notin Asking
          BY <4>5 DEF Asking, StopPC
        <5> QED  BY <4>4, <4>5, <5>1, AskedBefore
      <4>11. Commands'
        BY <3>1, <3>3, <4>1, <4>9, <4>10
           DEF Commands, Unasked, Unheard, NoReceive, InHand, Powered, PortOpen, NoWriter, LastSleep,
               Emptied, OneStopper
      <4>12. Gone => Gone'
        BY <3>3, <4>9 DEF Gone, Silent, NoReceive
      <4>13. \A s \in Stopper : pc'[s] = "s_join" => pc[s] = "s_join"
        BY <4>5, <4>8, Threads DEF StopPC
      <4>14. WrKept'
        BY <3>1, <3>3, <4>1, <4>12, <4>13 DEF WrKept, WrTracked, WrJoins
      <4> QED  BY <3>2, <4>11, <4>14
    <3> QED  BY <1>4, <3>4, <3>5, <3>6
  <2>3. capture # 0
    BY <2>1 DEF FirstInv, Fresh
  <2> QED  BY <2>1, <2>2, <2>3 DEF FirstInv
<1> QED  BY <1>2, <1>3, <1>4 DEF Start

(* Before the first capture only Main takes steps.                         *)
LEMMA FreshStop ==
  ASSUME TypeOK, Fresh, NEW t \in Stopper, Stop(t)
  PROVE  Fresh'
<1>1. pc[t] \in StopPC
  BY DEF Stop, StopWait, StopCheck, StopClear, StopJoin, StopThreads, StopSerial, StopIsOpen,
         StopClose, StopNone, At, StopPC
<1>2. t = Main
  BY <1>1, Threads DEF Fresh, StopPC
<1>3. StopWait(t) \/ StopCheck(t) \/ StopSerial(t)
  BY <1>2 DEF Stop, StopClear, StopJoin, StopThreads, StopIsOpen, StopClose, StopNone, At, Fresh
<1>4. PICK l \in {"idle", "s_check", "s_serial"} : Goto(Main, l)
  BY <1>2, <1>3 DEF StopWait, StopCheck, StopSerial, Step, Return, Fresh
<1>5. UNCHANGED <<running, setup_done, serial, serial_queue, threads, start, starting, command, listening>>
  BY <1>3 DEF StopWait, StopCheck, StopSerial, Step, Fresh, shared, startVars, env
<1>6. pc' = [pc EXCEPT ![Main] = l] /\ DOMAIN pc = Thread
  BY <1>4 DEF Goto, TypeOK, PlacesOK
<1>7. pc'[Main] = l /\ \A u \in Worker : pc'[u] = pc[u]
  BY <1>6, Threads
<1> QED  BY <1>5, <1>7 DEF Fresh

LEMMA FirstInit == Init => FirstInv
<1> SUFFICES ASSUME Init PROVE FirstInv
  OBVIOUS
<1>1. \A u \in Worker : pc[u] = "unborn"
  BY Threads DEF Init
<1>2. pc[Main] = "idle" /\ command[1] = NoCmd
  BY Threads, FirstCapture DEF Init
<1> QED  BY <1>1, <1>2 DEF Init, FirstInv, Fresh

LEMMA FirstNext == TypeOK /\ FirstInv /\ [Next]_vars => FirstInv'
<1> SUFFICES ASSUME TypeOK, FirstInv, [Next]_vars PROVE FirstInv'
  OBVIOUS
<1>1. CASE Detach \/ Attach
  BY <1>1, DongleFirst
<1>2. CASE Start
  BY <1>2, StartFirst
<1>3. ASSUME NEW t \in Stopper, CallStop(t), pc[t] # "unborn",
             UNCHANGED <<shared, startVars, command, stopVars, env, capture>>
      PROVE  capture = 1 => FirstInv'
  <2>1. /\ FirstPlaces => FirstPlaces'
        /\ Commands /\ WrKept => Commands' /\ WrKept'
    BY <1>3, CallStopPlaces, CallStopCommands
  <2>2. Lineup => Lineup'
    <3>1. /\ Goto(t, "s_wait") /\ UNCHANGED <<start, starting, running, threads>>
      BY <1>3 DEF CallStop, startVars, shared
    <3> QED  BY <1>3, <3>1, Threads, MoveLineup
  <2> QED  BY <1>3, <2>1, <2>2 DEF FirstInv
<1>4. CASE MainStop
  <2>1. /\ Goto(Main, "s_wait") /\ CallStop(Main) /\ pc[Main] = "idle"
        /\ UNCHANGED <<shared, startVars, command, stopVars, env, capture>>
    BY <1>4 DEF MainStop, CallStop, At
  <2>2. ASSUME Fresh PROVE Fresh'
    <3>1. pc' = [pc EXCEPT ![Main] = "s_wait"] /\ DOMAIN pc = Thread
      BY <2>1 DEF Goto, TypeOK, PlacesOK
    <3>2. pc'[Main] = "s_wait" /\ \A u \in Worker : pc'[u] = pc[u]
      BY <3>1, Threads
    <3> QED  BY <2>1, <2>2, <3>2 DEF Fresh, shared, startVars, env
  <2>3. capture = 1 => FirstInv'
    BY <1>3, <2>1, Threads
  <2> QED  BY <2>1, <2>2, <2>3 DEF FirstInv
<1>5. ASSUME NEW t \in Stopper, Stop(t) PROVE FirstInv'
  <2>1. capture' = capture
    BY <1>5 DEF Stop, StopWait, StopCheck, StopClear, StopJoin, StopThreads, StopSerial, StopIsOpen,
                StopClose, StopNone, Step, history
  <2> QED  BY <1>5, <2>1, FreshStop, StopPlaces, StopLineup, StopCommands DEF FirstInv
<1>6. ASSUME NEW k \in Captures, ControlEnds(k) PROVE FirstInv'
  <2>1. /\ CallStop(Ctl(k)) /\ pc[Ctl(k)] = "c_read"
        /\ UNCHANGED <<shared, startVars, command, stopVars, env, capture>>
    BY <1>6 DEF ControlEnds, At
  <2>2. ~Fresh
    BY <2>1, Threads DEF Fresh
  <2>3. capture = 1 => FirstInv'
    BY <1>3, <2>1, Threads
  <2> QED  BY <2>1, <2>2, <2>3 DEF FirstInv
<1>7. ASSUME NEW k \in Captures, Reader(k) PROVE FirstInv'
  <2>1. capture' = capture
    BY <1>7 DEF Reader, RdLoop, RdOpen, RdOpenFails, RdOpenTimeout, RdBegin, RdReply,
                RdSetupDone, RdCheck, RdRead, RdFinal, RdStop, Step, history
  <2>2. pc[Rd(k)] # "unborn"
    BY <1>7 DEF Reader, RdLoop, RdOpen, RdOpenFails, RdOpenTimeout, RdBegin, RdReply,
                RdSetupDone, RdCheck, RdRead, RdFinal, RdStop, At
  <2>3. ~Fresh
    BY <2>2, Threads DEF Fresh
  <2> QED  BY <1>7, <2>1, <2>3, ReaderPlaces, ReaderLineup, ReaderCommands DEF FirstInv
<1>8. ASSUME NEW k \in Captures, Writer(k) \/ FwEnd(k) PROVE FirstInv'
  <2>1. capture' = capture
    BY <1>8 DEF Writer, WrLoop, WrGet, WrEmpty, WrWrite, WrIOError, WrNoSerial, FwEnd,
                Step, history
  <2>2. pc[Wr(k)] # "unborn" \/ pc[Fw(k)] # "unborn"
    BY <1>8 DEF Writer, WrLoop, WrGet, WrEmpty, WrWrite, WrIOError, WrNoSerial, FwEnd,
                Writing, At
  <2>3. ~Fresh
    BY <2>2, Threads DEF Fresh
  <2> QED  BY <1>8, <2>1, <2>3, WriterPlaces, WriterLineup, WriterCommands DEF FirstInv
<1>9. CASE UNCHANGED vars
  <2>1. (FirstPlaces => FirstPlaces') /\ (Lineup => Lineup')
    BY <1>9, SamePlaces, SameLineup DEF vars
  <2>2. Commands => Commands'
    BY <1>9, SameCommands DEF vars, Commands, Powered
  <2>3. WrKept => WrKept'
    BY <1>9 DEF vars, WrKept, WrTracked, WrJoins, Gone, Silent, NoReceive
  <2> QED  BY <1>9, <2>1, <2>2, <2>3 DEF vars, FirstInv, Fresh
<1> QED  BY <1>1, <1>2, <1>4, <1>5, <1>6, <1>7, <1>8, <1>9 DEF Next

LEMMA OneOf ==
  ASSUME TypeOK, Cardinality(stoppers) = 1 PROVE OneStopper
<1>1. IsFiniteSet(Captures)
  BY SnifferAssumption, FS_Interval DEF Captures
<1>2. IsFiniteSet({Main}) /\ IsFiniteSet({"control_reader"}) /\ IsFiniteSet({"serial_reader"})
  BY FS_Singleton
<1>3. IsFiniteSet({"control_reader", "serial_reader"})
  <2>1. IsFiniteSet({"control_reader"} \cup {"serial_reader"})
    BY <1>2, FS_Union
  <2>2. {"control_reader"} \cup {"serial_reader"} = {"control_reader", "serial_reader"}
    OBVIOUS
  <2> QED  BY <2>1, <2>2
<1>4. IsFiniteSet({"control_reader", "serial_reader"} \X Captures)
  BY <1>1, <1>3, FS_Product
<1>5. IsFiniteSet(Stopper)
  BY <1>2, <1>4, FS_Union DEF Stopper
<1>6. IsFiniteSet(stoppers)
  BY <1>5, FS_Subset DEF TypeOK
<1>7. PICK t : stoppers = {t}
  BY <1>6, FS_Singleton
<1> QED  BY <1>7 DEF OneStopper

(* The first capture, stopped by one thread only, whichever it is, leaves  *)
(* the firmware asleep: with or without a control reader, a timeout or a   *)
(* named pipe, and wherever the dongle is unplugged on the way.            *)
THEOREM SnifferFirmwareAsleep == Spec => []FirmwareAsleep
<1>1. TypeOK /\ FirstInv => FirmwareAsleep
  BY OneOf DEF FirstInv, Commands, Emptied, FirmwareAsleep, Starting
<1>2. Spec => []FirstInv
  BY InitType, NextType, FirstInit, FirstNext, PTL DEF Spec
<1> QED  BY <1>1, <1>2, SnifferTypeOK, PTL
-----------------------------------------------------------------------------
(* The port is let go of in the first two captures.  When the script's     *)
(* stop returns, self.serial is None, so what is to be shown is that no    *)
(* reader opens the port afterwards, unless another stopper has still to   *)
(* close it.  A reader about to open the port has read running before; if  *)
(* running is cleared under its hands, a stopper is about to join it, for  *)
(* the writer clears running only on an IOError: it must have a command    *)
(* and a port.  In the first capture it has no command before the reader   *)
(* has opened the port, whatever a hasty stop does to self.threads.  A     *)
(* later capture may find commands that an earlier one left in             *)
(* serial_queue, and a port that a stopper of it has still to close; the   *)
(* first capture does not leave both to the second.                        *)
Opening == {"r_loop", "r_open"}

Current(s) == \A u \in Members(s) : u[2] = capture

JoinsCurrent == \A t \in Stopper : pc[t] = "s_join" =>
  Current(rest[t]) /\ Current(alive_threads[t])

CurrentLists == /\ \A u \in Worker : Active(u) => u[2] = capture
                /\ Current(threads) /\ Current(starting) /\ JoinsCurrent

CurrentOnly == ~hasty \/ capture = 1 => CurrentLists

MainStopped == Main \in stoppers /\ pc[Main] \in Cleared \cup {"idle"} => ~running

HandKept == \A k \in Captures : command[k] # NoCmd => Writing(k)

FirstOpening == pc[Rd(1)] \in Opening \cup {"r_begin", "unborn"} =>
  /\ running /\ serial_queue = <<>> /\ command[1] = NoCmd
  /\ pc[Wr(1)] \in {"unborn", "w_loop", "w_get"}

FirstLeft == pc[Wr(1)] = "done" =>
  /\ running => serial = "None"
  /\ ~hasty => (Asked \/ threads = <<>> => serial_queue = <<>> \/ serial = "None")

(* A stopper is about to join the reader of the k-th capture.              *)
Joining(t, k) == \/ pc[t] = "s_clear"
                 \/ pc[t] = "s_join" /\ Rd(k) \in Members(rest[t])

Joined(k) == \E t \in Stopper : Joining(t, k)

(* The reader of the k-th capture is still to be started.                  *)
Due(k) == /\ pc[Rd(k)] = "unborn"
          /\ start = "append" \/ (start = "loop" /\ Rd(k) \in Members(starting))

SecondOpening ==
  /\ pc[Rd(2)] \in Opening \/ Due(2) =>
       \/ serial = "None" \/ (serial_queue = <<>> /\ ~Writing(2)) \/ Joined(2)
       \/ Due(2) /\ pc[Main] \in Asking \cup After
  /\ pc[Rd(2)] = "r_open" => running \/ Joined(2)

Claimed == At(Main, "idle") /\ Main \in stoppers /\ serial # "None" =>
  \E t \in Stopper : pc[t] \in Asking \cup After

PortInv == /\ CurrentOnly /\ MainStopped /\ HandKept
           /\ capture = 1 => FirstOpening /\ FirstLeft
           /\ capture = 2 /\ ~hasty => SecondOpening
           /\ capture = 1 \/ (capture = 2 /\ ~hasty) => Claimed

(* A stopper that is about to join a reader stays so until the reader is   *)
(* in a stop itself or has ended.                                          *)
LEMMA JoinedMove ==
  ASSUME TypeOK, NEW k \in Captures, Joined(k), UNCHANGED rest,
         NEW x \in Thread, NEW l, Goto(x, l), pc[x] \notin Asking
  PROVE  Joined(k)'
<1>1. pc' = [pc EXCEPT ![x] = l] /\ DOMAIN pc = Thread
  BY DEF Goto, TypeOK, PlacesOK
<1> QED  BY <1>1, Threads DEF Joined, Joining, Asking

(* What a step of a stop may do.                                           *)
LEMMA StopMoves ==
  ASSUME TypeOK, NEW t \in Stopper, Stop(t)
  PROVE  \E l \in StopPC \cup {"idle", "done"} :
           /\ Goto(t, l)
           /\ t = Main \/ Active(t) \/ l \in After \cup {"done"}
           /\ l \in Cleared \cup {"idle"} => ~running' \/ pc[t] \in Cleared
           /\ l \in Asking => pc[t] \in Asking \/ running
           /\ pc[t] \in Asking \cup After => l \in Asking \cup After \cup {"idle", "done"}
           /\ l \in {"idle", "done"} => serial' = "None"
           /\ serial = "None" => serial' = "None"
           /\ UNCHANGED serial_queue \/ (running /\ pc[t] = "s_check" /\ l = "s_clear")
           /\ UNCHANGED running \/ (pc[t] = "s_clear" /\ ~running')
           /\ UNCHANGED threads \/ pc[t] = "s_join"
           /\ hasty => hasty'
           /\ UNCHANGED <<capture, stoppers, command, start, starting>>
<1>1. /\ t \in Thread /\ serial \in {"None", "open", "closed"} /\ DOMAIN pc = Thread
      /\ UNCHANGED startVars => UNCHANGED <<start, starting>>
  BY Threads DEF TypeOK, PlacesOK, startVars
<1>2. CASE StopWait(t)
  BY <1>1, <1>2 DEF StopWait, Step, At, StopPC, Active, After, Cleared, Asking, shared, history
<1>3. CASE StopCheck(t)
  BY <1>1, <1>3 DEF StopCheck, At, StopPC, Active, After, Cleared, Asking, history
<1>4. CASE StopClear(t)
  BY <1>1, <1>4 DEF StopClear, At, StopPC, Active, After, Cleared, Asking, history
<1>5. CASE StopJoin(t)
  <2>1. /\ pc' = pc /\ pc[t] = "s_join" /\ (hasty => hasty')
        /\ UNCHANGED <<running, serial, serial_queue, threads, capture, stoppers, command>>
        /\ UNCHANGED startVars
    BY <1>5 DEF StopJoin, At, shared
  <2>2. Goto(t, "s_join")
    BY <1>1, <2>1 DEF Goto, TypeOK, PlacesOK
  <2> QED  BY <1>1, <2>1, <2>2 DEF StopPC, Active, After, Cleared, Asking
<1>6. CASE StopThreads(t)
  BY <1>1, <1>6 DEF StopThreads, At, StopPC, Active, After, Cleared, Asking, history
<1>7. CASE StopSerial(t)
  BY <1>1, <1>7 DEF StopSerial, Return, At, StopPC, Active, After, Cleared, Asking, shared, history
<1>8. CASE StopIsOpen(t)
  BY <1>1, <1>8 DEF StopIsOpen, Return, At, StopPC, Active, After, Cleared, Asking, shared, history
<1>9. CASE StopClose(t)
  BY <1>1, <1>9 DEF StopClose, Return, At, StopPC, Active, After, Cleared, Asking, history
<1>10. CASE StopNone(t)
  BY <1>1, <1>10 DEF StopNone, Return, At, StopPC, Active, After, Cleared, Asking, history
<1> QED  BY <1>2, <1>3, <1>4, <1>5, <1>6, <1>7, <1>8, <1>9, <1>10 DEF Stop

(* The reader may be one that extcap_capture is going to start: a stop     *)
(* that joins it before is hasty.                                          *)
LEMMA JoinedStop ==
  ASSUME TypeOK, Tracked, ~hasty, ~hasty', NEW k \in Captures, Live(Rd(k)),
         pc[Rd(k)] \in RdPC \cup {"unborn"}, Joined(k), NEW s \in Stopper, Stop(s)
  PROVE  Joined(k)'
<1>1. PICK t \in Stopper : Joining(t, k)
  BY DEF Joined
<1>2. s \in Thread /\ t \in Thread /\ Rd(k) \in Worker
  BY Threads
<1>3. CASE s # t
  <2>1. pc'[t] = pc[t]
    <3>1. PICK l \in StopPC \cup {"idle", "done"} : Goto(s, l)
      BY StopMoves
    <3> QED  BY <1>2, <1>3, <3>1 DEF Goto, TypeOK, PlacesOK
  <2>2. rest'[t] = rest[t]
    BY <1>3 DEF Stop, StopWait, StopCheck, StopClear, StopJoin, StopThreads,
                StopSerial, StopIsOpen, StopClose, StopNone, Step, stopVars, TypeOK
  <2> QED  BY <1>1, <2>1, <2>2 DEF Joining, Joined
<1>4. CASE s = t /\ StopClear(t)
  <2>1. pc' = [pc EXCEPT ![t] = "s_join"] /\ rest'[t] = threads
    BY <1>4 DEF StopClear, Goto, TypeOK
  <2>2. pc'[t] = "s_join"
    BY <1>2, <2>1 DEF TypeOK, PlacesOK
  <2>3. Rd(k) \in Members(threads)
    BY <1>2 DEF Tracked, LiveTracked
  <2> QED  BY <2>1, <2>2, <2>3 DEF Joining, Joined
<1>5. CASE s = t /\ StopJoin(t)
  <2>1. /\ pc[t] = "s_join" /\ pc' = pc /\ rest[t] # <<>> /\ rest'[t] = Tail(rest[t])
        /\ Head(rest[t]) = t \/ Ended(Head(rest[t])) \/ Stuck(Head(rest[t]))
        /\ pc[Head(rest[t])] # "unborn"
    BY <1>5 DEF StopJoin, At, shared, TypeOK
  <2>2. Rd(k) \in Members(rest[t])
    BY <1>1, <2>1 DEF Joining
  <2>3. Members(rest[t]) = {Head(rest[t])} \cup Members(Tail(rest[t]))
    BY <2>1, MembersOf DEF TypeOK
  <2>4. Rd(k) # Head(rest[t])
    BY <2>1 DEF RdPC, Ended, Stuck, Blocked
  <2> QED  BY <2>1, <2>2, <2>3, <2>4 DEF Joining, Joined
<1>6. CASE s = t /\ ~StopClear(t) /\ ~StopJoin(t)
  <2>1. pc[t] = "s_join" /\ rest[t] = <<>>
    BY <1>1, <1>6 DEF Joining, Stop, StopWait, StopCheck, StopThreads, StopSerial, StopIsOpen,
                      StopClose, StopNone, At, StopClear
  <2> QED  BY <1>1, <2>1, MembersOf, EmptySeq DEF Joining
<1> QED  BY <1>3, <1>4, <1>5, <1>6

LEMMA CurrentKept ==
  ASSUME TypeOK, CurrentOnly, hasty => hasty',
         UNCHANGED <<capture, threads, starting, rest, alive_threads>>,
         NEW x \in Thread, NEW l, Goto(x, l), l # "s_join",
         x = Main \/ Active(x) \/ l \in After \cup {"done"}
  PROVE  CurrentOnly'
<1>1. pc' = [pc EXCEPT ![x] = l] /\ DOMAIN pc = Thread
  BY DEF Goto, TypeOK, PlacesOK
<1>2. ASSUME NEW u \in Worker, Active(u)' PROVE Active(u)
  BY <1>1, <1>2, Threads DEF Active
<1>3. ASSUME NEW t \in Stopper, pc'[t] = "s_join" PROVE pc[t] = "s_join"
  BY <1>1, <1>3, Threads
<1> QED  BY <1>2, <1>3 DEF CurrentOnly, CurrentLists, JoinsCurrent, Current

LEMMA StopCurrent ==
  ASSUME TypeOK, CurrentOnly, NEW t \in Stopper, Stop(t) PROVE CurrentOnly'
<1>1. PICK l \in StopPC \cup {"idle", "done"} :
           /\ Goto(t, l)
           /\ t = Main \/ Active(t) \/ l \in After \cup {"done"}
           /\ hasty => hasty'
           /\ UNCHANGED <<capture, starting>>
  BY StopMoves
<1>2. t \in Thread
  BY Threads
<1>3. CASE ~StopClear(t) /\ ~StopJoin(t) /\ ~StopThreads(t)
  <2>1. UNCHANGED <<threads, rest, alive_threads>>
    BY <1>3 DEF Stop, StopWait, StopCheck, StopSerial, StopIsOpen, StopClose, StopNone, Step,
                shared, stopVars
  <2>2. \E m : Goto(t, m) /\ m # "s_join" /\ (t = Main \/ Active(t) \/ m \in After \cup {"done"})
    <3>1. pc'[t] # "s_join"
      BY <1>2, <1>3 DEF Stop, StopWait, StopCheck, StopSerial, StopIsOpen, StopClose, StopNone,
                        Step, Return, Goto, TypeOK, PlacesOK
    <3>2. pc'[t] = l
      BY <1>1, <1>2 DEF Goto, TypeOK, PlacesOK
    <3> QED  BY <1>1, <3>1, <3>2
  <2> QED  BY <1>1, <1>2, <2>1, <2>2, CurrentKept
<1> SUFFICES ASSUME CurrentLists, StopClear(t) \/ StopJoin(t) \/ StopThreads(t)
             PROVE  CurrentLists'
  BY <1>1, <1>3 DEF CurrentOnly
<1>4. /\ pc[t] \in {"s_clear", "s_join"} /\ t \in Thread /\ DOMAIN pc = Thread
      /\ DOMAIN rest = Stopper /\ DOMAIN alive_threads = Stopper
  BY <1>2 DEF StopClear, StopJoin, StopThreads, At, TypeOK, PlacesOK
<1>5. \A u \in Thread : u # t => pc'[u] = pc[u]
  BY <1>1, <1>2 DEF Goto, TypeOK, PlacesOK
<1>6. \A s \in Stopper : s # t => rest'[s] = rest[s] /\ alive_threads'[s] = alive_threads[s]
  BY <1>4 DEF StopClear, StopJoin, StopThreads
<1>7. \A u \in Worker : Active(u)' => u[2] = capture
  <2>1. ASSUME NEW u \in Worker, Active(u)' PROVE Active(u)
    BY <1>4, <1>5, <2>1, Threads DEF Active, After
  <2> QED  BY <2>1 DEF CurrentLists
<1>8. ASSUME NEW s \in Stopper, s # t, pc'[s] = "s_join"
      PROVE  Current(rest'[s]) /\ Current(alive_threads'[s])
  BY <1>5, <1>6, <1>8, Threads DEF CurrentLists, JoinsCurrent
<1>9. Current(<<>>)
  BY MembersOf, EmptySeq DEF Current
<1>10. CASE StopClear(t)
  <2>1. threads' = threads /\ rest'[t] = threads /\ alive_threads'[t] = <<>>
    BY <1>4, <1>10 DEF StopClear
  <2>2. \A s \in Stopper : pc'[s] = "s_join" => Current(rest'[s]) /\ Current(alive_threads'[s])
    BY <1>8, <1>9, <2>1 DEF CurrentLists
  <2> QED  BY <1>1, <1>7, <2>1, <2>2 DEF CurrentLists, JoinsCurrent, Current
<1>11. CASE StopJoin(t)
  <2> DEFINE joined == Head(rest[t])
  <2>1. /\ threads' = threads /\ pc[t] = "s_join" /\ rest[t] # <<>> /\ rest'[t] = Tail(rest[t])
        /\ alive_threads'[t] = alive_threads[t] \/ alive_threads'[t] = Append(alive_threads[t], joined)
    BY <1>4, <1>11 DEF StopJoin, shared, At
  <2>2. rest[t] \in Seq(Worker) /\ alive_threads[t] \in Seq(Worker)
    BY DEF TypeOK
  <2>3. joined \in Worker /\ Members(rest[t]) = {joined} \cup Members(Tail(rest[t]))
    BY <2>1, <2>2, MembersOf
  <2>4. Members(Append(alive_threads[t], joined)) = Members(alive_threads[t]) \cup {joined}
    BY <2>2, <2>3, MembersOf
  <2>5. Current(rest[t]) /\ Current(alive_threads[t])
    BY <2>1 DEF CurrentLists, JoinsCurrent
  <2> HIDE DEF joined
  <2>6. Current(rest'[t]) /\ Current(alive_threads'[t])
    BY <2>1, <2>3, <2>4, <2>5 DEF Current
  <2>7. \A s \in Stopper : pc'[s] = "s_join" => Current(rest'[s]) /\ Current(alive_threads'[s])
    BY <1>8, <2>6
  <2> QED  BY <1>1, <1>7, <2>1, <2>7 DEF CurrentLists, JoinsCurrent, Current
<1>12. CASE StopThreads(t)
  <2>1. threads' = alive_threads[t] /\ pc[t] = "s_join" /\ pc'[t] # "s_join"
    BY <1>4, <1>12 DEF StopThreads, At, Goto
  <2>2. Current(threads')
    BY <2>1 DEF CurrentLists, JoinsCurrent
  <2>3. \A s \in Stopper : pc'[s] = "s_join" => Current(rest'[s]) /\ Current(alive_threads'[s])
    BY <1>8, <2>1
  <2> QED  BY <1>1, <1>7, <2>2, <2>3 DEF CurrentLists, JoinsCurrent, Current
<1> QED  BY <1>10, <1>11, <1>12

LEMMA HandOther ==
  ASSUME TypeOK, HandKept, UNCHANGED command, NEW x \in Thread, NEW l, Goto(x, l),
         \A k \in Captures : x # Wr(k)
  PROVE  HandKept'
<1>1. pc' = [pc EXCEPT ![x] = l] /\ DOMAIN pc = Thread
  BY DEF Goto, TypeOK, PlacesOK
<1> QED  BY <1>1, Threads DEF HandKept, Writing

LEMMA StopPort ==
  ASSUME TypeOK, Tracked, FirstInv, PortInv, NEW t \in Stopper, Stop(t)
  PROVE  PortInv'
<1>1. PICK l \in StopPC \cup {"idle", "done"} :
           /\ Goto(t, l)
           /\ t = Main \/ Active(t) \/ l \in After \cup {"done"}
           /\ l \in Cleared \cup {"idle"} => ~running' \/ pc[t] \in Cleared
           /\ l \in Asking => pc[t] \in Asking \/ running
           /\ pc[t] \in Asking \cup After => l \in Asking \cup After \cup {"idle", "done"}
           /\ l \in {"idle", "done"} => serial' = "None"
           /\ serial = "None" => serial' = "None"
           /\ UNCHANGED serial_queue \/ (running /\ pc[t] = "s_check" /\ l = "s_clear")
           /\ UNCHANGED running \/ (pc[t] = "s_clear" /\ ~running')
           /\ UNCHANGED threads \/ pc[t] = "s_join"
           /\ hasty => hasty'
           /\ UNCHANGED <<capture, stoppers, command, start, starting>>
  BY StopMoves
<1>2. t \in Thread /\ \A k \in Captures : t # Wr(k)
  BY Threads, FirstCapture
<1>3. /\ pc'[t] = l
      /\ \A u \in Thread : u # t => pc'[u] = pc[u]
      /\ \A k \in Captures : pc'[Wr(k)] = pc[Wr(k)]
  BY <1>1, <1>2, Threads DEF Goto, TypeOK, PlacesOK
<1>4. l \notin RdPC \cup {"unborn"}
  BY DEF StopPC, RdPC
<1>5. CurrentOnly'
  BY StopCurrent DEF PortInv
<1>6. MainStopped'
  BY <1>1, <1>2, <1>3, Threads DEF PortInv, MainStopped
<1>7. HandKept'
  BY <1>1, <1>2, HandOther DEF PortInv
<1>8. ASSUME capture = 1 PROVE FirstOpening' /\ FirstLeft'
  <2>1. /\ FirstPlaces /\ FirstOpening /\ FirstLeft
    BY <1>8 DEF FirstInv, PortInv
  <2>2. FirstOpening'
    <3>1. SUFFICES ASSUME pc'[Rd(1)] \in Opening \cup {"r_begin", "unborn"}
                   PROVE  /\ running' /\ serial_queue' = <<>> /\ command'[1] = NoCmd
                          /\ pc'[Wr(1)] \in {"unborn", "w_loop", "w_get"}
      BY DEF FirstOpening
    <3>2. t # Rd(1) /\ pc[Rd(1)] \in Opening \cup {"r_begin", "unborn"}
      BY <1>3, <1>4, <3>1, FirstCapture DEF Opening, RdPC
    <3>3. ~setup_done
      BY <2>1, <3>2 DEF FirstPlaces, SetUp, Past, StopPC, Opening
    <3>4. ~(running /\ pc[t] = "s_check") /\ pc[t] # "s_clear"
      BY <2>1, <3>3 DEF FirstPlaces, StopSetUp, Asking
    <3> QED  BY <1>1, <1>3, <2>1, <3>2, <3>4, FirstCapture DEF FirstOpening
  <2>3. Asked' => Asked \/ running
    BY <1>1, <1>3, Threads DEF Asked
  <2>4. pc[t] = "s_join" => Asked
    BY DEF Asked, Asking
  <2>5. FirstLeft'
    <3>1. SUFFICES ASSUME pc[Wr(1)] = "done", serial' # "None"
                   PROVE  /\ ~running'
                          /\ ~hasty' => (Asked' \/ threads' = <<>> => serial_queue' = <<>>)
      BY <1>3, FirstCapture DEF FirstLeft
    <3>2. serial # "None" /\ ~running
      BY <1>1, <2>1, <3>1 DEF FirstLeft
    <3>3. UNCHANGED serial_queue /\ ~running'
      BY <1>1, <3>2
    <3> QED  BY <1>1, <2>1, <2>3, <2>4, <3>1, <3>2, <3>3 DEF FirstLeft
  <2> QED  BY <2>2, <2>5
<1>9. ASSUME capture = 2, ~hasty' PROVE SecondOpening'
  <2>1. SecondOpening /\ 2 \in Captures /\ ~hasty
    BY <1>1, <1>9, SnifferAssumption DEF PortInv, TypeOK, Captures
  <2>2. Due(2)' => Due(2)
    BY <1>1, <1>3, <1>4, <2>1, Threads DEF Due
  <2>3. pc'[Rd(2)] \in Opening \cup {"unborn"} =>
          t # Rd(2) /\ pc[Rd(2)] = pc'[Rd(2)] /\ pc[Rd(2)] \in RdPC \cup {"unborn"}
    BY <1>3, <1>4, <2>1, Threads DEF Opening, RdPC
  <2>4. l = "s_clear" => Joined(2)'
    BY <1>3 DEF Joined, Joining
  <2>5. pc[t] = "s_clear" => Joined(2)
    BY DEF Joined, Joining
  <2>6. Joined(2) /\ pc'[Rd(2)] \in Opening => Joined(2)'
    <3>1. ASSUME pc'[Rd(2)] \in Opening PROVE Live(Rd(2))
      BY <2>3, <3>1 DEF Opening, Live, Active, After
    <3> QED  BY <1>9, <2>1, <2>3, <3>1, JoinedStop
  <2>7. ASSUME Due(2), Due(2)', Joined(2) PROVE Joined(2)' \/ pc[Main] \in Asking
    <3>1. CASE start = "append"
      <4>1. PICK u \in Stopper : Joining(u, 2)
        BY <2>7 DEF Joined
      <4>2. u = Main
        BY <2>1, <3>1, <4>1, Threads DEF Tracked, Quiet, Active, After, Joining
      <4> QED  BY <4>1, <4>2 DEF Joining, Asking
    <3>2. CASE start = "loop" /\ Rd(2) \in Members(starting)
      <4>1. Live(Rd(2)) /\ pc[Rd(2)] = "unborn"
        BY <2>7, <3>2 DEF Due, Live
      <4> QED  BY <1>9, <2>1, <2>7, <4>1, JoinedStop
    <3> QED  BY <2>7, <3>1, <3>2 DEF Due
  <2>8. pc[Main] \in Asking \cup After =>
          pc'[Main] \in Asking \cup After \/ serial' = "None"
    BY <1>1, <1>3, Threads
  <2>9. ASSUME pc'[Rd(2)] \in Opening \/ Due(2)'
        PROVE  \/ serial' = "None" \/ (serial_queue' = <<>> /\ ~Writing(2)') \/ Joined(2)'
               \/ Due(2)' /\ pc'[Main] \in Asking \cup After
    <3>1. pc[Rd(2)] \in Opening \/ Due(2)
      BY <2>2, <2>3, <2>9
    <3>2. CASE serial = "None"
      BY <1>1, <3>2
    <3>3. CASE serial_queue = <<>> /\ ~Writing(2)
      BY <1>1, <1>3, <2>1, <2>4, <3>3 DEF Writing
    <3>4. CASE Joined(2)
      <4>1. CASE pc'[Rd(2)] \in Opening
        BY <2>6, <3>4, <4>1
      <4>2. CASE Due(2)'
        BY <2>2, <2>7, <2>8, <3>4, <4>2
      <4> QED  BY <2>9, <4>1, <4>2
    <3>5. CASE Due(2) /\ pc[Main] \in Asking \cup After
      <4>1. pc'[Rd(2)] \notin Opening
        BY <2>3, <3>5 DEF Due, Opening
      <4> QED  BY <2>8, <2>9, <3>5, <4>1
    <3> QED  BY <2>1, <3>1, <3>2, <3>3, <3>4, <3>5 DEF SecondOpening
  <2>10. pc'[Rd(2)] = "r_open" => running' \/ Joined(2)'
    <3>1. SUFFICES ASSUME pc'[Rd(2)] = "r_open" PROVE running' \/ Joined(2)'
      OBVIOUS
    <3>2. pc[Rd(2)] = "r_open" /\ pc'[Rd(2)] \in Opening
      BY <2>3, <3>1 DEF Opening
    <3>3. running \/ Joined(2)
      BY <2>1, <3>2 DEF SecondOpening
    <3> QED  BY <1>1, <2>5, <2>6, <3>2, <3>3
  <2> QED  BY <2>9, <2>10 DEF SecondOpening
<1>10. ASSUME Claimed PROVE Claimed'
  <2>1. SUFFICES ASSUME pc'[Main] = "idle", Main \in stoppers, serial' # "None"
                 PROVE  \E u \in Stopper : pc'[u] \in Asking \cup After
    BY <1>1 DEF Claimed, At
  <2>2. t # Main /\ pc[Main] = "idle" /\ serial # "None"
    BY <1>1, <1>3, <2>1, Threads
  <2>3. PICK u \in Stopper : pc[u] \in Asking \cup After
    BY <1>10, <2>1, <2>2 DEF Claimed, At
  <2>4. pc'[u] \in Asking \cup After
    BY <1>1, <1>3, <2>1, <2>3, Threads
  <2> QED  BY <2>4
<1> QED  BY <1>1, <1>5, <1>6, <1>7, <1>8, <1>9, <1>10 DEF PortInv

LEMMA CallStopPort ==
  ASSUME TypeOK, PortInv, NEW t \in Stopper, CallStop(t), t = Main \/ Active(t),
         pc[t] \notin StopPC, UNCHANGED <<shared, startVars, command, stopVars, env, capture>>
  PROVE  PortInv'
<1>1. /\ Goto(t, "s_wait") /\ stoppers' = stoppers \cup {t} /\ t \in Thread
      /\ \A k \in Captures : t # Wr(k)
      /\ UNCHANGED <<running, serial, serial_queue, threads, start, starting, command,
                     rest, alive_threads, capture, hasty>>
  BY Threads, FirstCapture DEF CallStop, shared, startVars, stopVars
<1>2. "s_wait" \notin RdPC \cup Asking \cup After \cup Cleared /\ pc[t] \notin Asking \cup After
  BY DEF RdPC, Asking, After, Cleared, StopPC
<1>3. /\ pc'[t] = "s_wait"
      /\ \A u \in Thread : u # t => pc'[u] = pc[u]
      /\ \A k \in Captures : pc'[Wr(k)] = pc[Wr(k)]
  BY <1>1, Threads DEF Goto, TypeOK, PlacesOK
<1>4. CurrentOnly' /\ HandKept'
  BY <1>1, CurrentKept, HandOther DEF PortInv
<1>5. MainStopped'
  BY <1>1, <1>2, <1>3, Threads DEF PortInv, MainStopped
<1>6. Asked' => Asked
  BY <1>1, <1>2, AskedBefore
<1>7. ASSUME FirstOpening, FirstLeft PROVE FirstOpening' /\ FirstLeft'
  <2>1. pc'[Rd(1)] \in Opening \cup {"r_begin", "unborn"} =>
          pc[Rd(1)] \in Opening \cup {"r_begin", "unborn"}
    BY <1>3, FirstCapture DEF Opening
  <2>2. FirstOpening'
    BY <1>1, <1>3, <1>7, <2>1, FirstCapture DEF FirstOpening
  <2>3. FirstLeft'
    BY <1>1, <1>3, <1>6, <1>7, FirstCapture DEF FirstLeft
  <2> QED  BY <2>2, <2>3
<1>8. ASSUME SecondOpening, capture = 2 PROVE SecondOpening'
  <2>1. 2 \in Captures
    BY <1>8, SnifferAssumption DEF TypeOK, Captures
  <2>2. pc'[Rd(2)] \in Opening \cup {"unborn"} => pc[Rd(2)] = pc'[Rd(2)]
    BY <1>3, <2>1, Threads DEF Opening
  <2>3. Joined(2) => Joined(2)'
    BY <1>1, <1>2, <2>1, JoinedMove
  <2>4. Due(2)' <=> Due(2)
    <3>1. pc[Rd(2)] = "unborn" => t # Rd(2)
      BY <1>8, <2>1, Threads DEF Active, Main, Rd
    <3> QED  BY <1>1, <1>3, <2>1, <3>1, Threads DEF Due
  <2>5. pc[Main] \in Asking \cup After => pc'[Main] = pc[Main]
    BY <1>2, <1>3, Threads
  <2>6. Writing(2)' <=> Writing(2)
    BY <1>3, <2>1 DEF Writing
  <2>7. pc'[Rd(2)] \in Opening => pc[Rd(2)] \in Opening
    BY <2>2 DEF Opening
  <2>8. pc'[Rd(2)] = "r_open" => pc[Rd(2)] = "r_open"
    BY <2>2 DEF Opening
  <2> QED  BY <1>1, <1>8, <2>3, <2>4, <2>5, <2>6, <2>7, <2>8 DEF SecondOpening
<1>9. ASSUME Claimed PROVE Claimed'
  <2>1. SUFFICES ASSUME pc'[Main] = "idle", Main \in stoppers', serial' # "None"
                 PROVE  \E u \in Stopper : pc'[u] \in Asking \cup After
    BY DEF Claimed, At
  <2>2. pc[Main] = "idle" /\ Main \in stoppers
    BY <1>1, <1>3, <2>1, Threads
  <2>3. PICK u \in Stopper : pc[u] \in Asking \cup After
    BY <1>1, <1>9, <2>1, <2>2 DEF Claimed, At
  <2>4. pc'[u] \in Asking \cup After
    BY <1>2, <1>3, <2>3, Threads
  <2> QED  BY <2>4
<1> QED  BY <1>1, <1>4, <1>5, <1>7, <1>8, <1>9 DEF PortInv

(* What a step of a reader that does not call stop_sig_handler may do.     *)
LEMMA ReaderMoves ==
  ASSUME TypeOK, NEW k \in Captures, Reader(k), ~CallStop(Rd(k))
  PROVE  \E l \in RdPC \cup {"done"} :
           /\ Goto(Rd(k), l) /\ pc[Rd(k)] \in RdPC
           /\ l \in Opening \cup {"r_begin"} => pc[Rd(k)] \in Opening /\ UNCHANGED <<running, serial_queue>>
           /\ l \in Opening => UNCHANGED serial
           /\ l = "r_open" => running
           /\ running' => running
           /\ UNCHANGED serial_queue \/ pc[Rd(k)] \in Before
           /\ serial = "None" => serial' = "None" \/ pc[Rd(k)] = "r_open"
           /\ UNCHANGED <<capture, stoppers, hasty, command, threads, startVars, stopVars>>
<1>1. Rd(k) \in Thread
  BY Threads
<1>2. CASE RdLoop(k) \/ RdOpenFails(k) \/ RdCheck(k)
  <2>1. /\ UNCHANGED <<running, serial, serial_queue, capture, stoppers, hasty, command, threads>>
        /\ UNCHANGED <<startVars, stopVars>>
    BY <1>2 DEF RdLoop, RdOpenFails, RdCheck, Step, shared, history
  <2>2. PICK l \in RdPC :
           /\ Goto(Rd(k), l) /\ pc[Rd(k)] \in RdPC
           /\ l \in Opening \cup {"r_begin"} => pc[Rd(k)] \in Opening
           /\ l = "r_open" => running
    BY <1>2 DEF RdLoop, RdOpenFails, RdCheck, Step, At, RdPC, Opening
  <2> QED  BY <2>1, <2>2
<1>3. CASE RdOpen(k) \/ RdOpenTimeout(k)
  <2>1. /\ UNCHANGED <<serial_queue, capture, stoppers, hasty, command, threads, startVars, stopVars>>
        /\ pc[Rd(k)] = "r_open"
    BY <1>3 DEF RdOpen, RdOpenTimeout, At, history
  <2>2. \/ Goto(Rd(k), "r_begin") /\ UNCHANGED running
        \/ Goto(Rd(k), "done") /\ ~running'
    BY <1>3 DEF RdOpen, RdOpenTimeout
  <2> QED  BY <2>1, <2>2 DEF RdPC, Opening
<1>4. CASE RdBegin(k) \/ RdReply(k)
  <2>1. /\ UNCHANGED <<running, capture, stoppers, hasty, command, threads, startVars, stopVars>>
        /\ pc[Rd(k)] \in {"r_begin", "r_reply"} /\ (serial = "None" => serial' = "None")
    BY <1>4 DEF RdBegin, RdReply, At, history
  <2>2. PICK l \in {"r_reply", "r_final", "r_set"} : Goto(Rd(k), l)
    BY <1>4 DEF RdBegin, RdReply
  <2> QED  BY <2>1, <2>2 DEF RdPC, Opening, Before
<1>5. CASE RdSetupDone(k) \/ RdFinal(k) \/ RdRead(k)
  <2>1. /\ UNCHANGED <<running, serial, serial_queue, capture, stoppers, hasty, command, threads>>
        /\ UNCHANGED <<startVars, stopVars>> /\ pc[Rd(k)] \in {"r_set", "r_final", "r_read"}
    BY <1>5 DEF RdSetupDone, RdFinal, RdRead, Step, shared, At, history
  <2>2. PICK l \in {"r_check", "r_stop", "r_final"} : Goto(Rd(k), l)
    BY <1>5 DEF RdSetupDone, RdFinal, RdRead, Step
  <2> QED  BY <2>1, <2>2 DEF RdPC, Opening
<1>6. CASE RdStop(k)
  <2>1. /\ UNCHANGED <<running, serial, serial_queue, capture, command, threads, startVars, stopVars>>
        /\ pc[Rd(k)] = "r_stop" /\ Goto(Rd(k), "done") /\ UNCHANGED <<stoppers, hasty>>
    BY <1>6 DEF RdStop, At, shared
  <2> QED  BY <2>1 DEF RdPC, Opening
<1> QED  BY <1>2, <1>3, <1>4, <1>5, <1>6 DEF Reader

LEMMA ReaderPort ==
  ASSUME TypeOK, Tracked, FirstInv, PortInv, NEW k \in Captures, Reader(k), ~CallStop(Rd(k))
  PROVE  PortInv'
<1>1. PICK l \in RdPC \cup {"done"} :
           /\ Goto(Rd(k), l) /\ pc[Rd(k)] \in RdPC
           /\ l \in Opening \cup {"r_begin"} => pc[Rd(k)] \in Opening /\ UNCHANGED <<running, serial_queue>>
           /\ l \in Opening => UNCHANGED serial
           /\ l = "r_open" => running
           /\ running' => running
           /\ UNCHANGED serial_queue \/ pc[Rd(k)] \in Before
           /\ serial = "None" => serial' = "None" \/ pc[Rd(k)] = "r_open"
           /\ UNCHANGED <<capture, stoppers, hasty, command, threads, startVars, stopVars>>
  BY ReaderMoves
<1>2. /\ Rd(k) \in Thread /\ Rd(k) \in Worker /\ Rd(k) \in Stopper /\ Rd(k) # Main
      /\ \A j \in Captures : Rd(k) # Wr(j)
      /\ UNCHANGED <<start, starting, rest, alive_threads>>
  BY <1>1, Threads, FirstCapture DEF Rd, Wr, startVars, stopVars
<1>3. /\ Active(Rd(k)) /\ pc[Rd(k)] \notin Asking \cup After \cup {"unborn"}
      /\ l \notin Asking \cup {"unborn", "s_join"}
  BY <1>1 DEF Active, After, Asking, RdPC
<1>4. ASSUME ~hasty \/ capture = 1 PROVE k = capture
  <2>1. Rd(k)[2] = capture
    BY <1>2, <1>3, <1>4 DEF PortInv, CurrentOnly, CurrentLists
  <2> QED  BY <2>1 DEF Rd
<1>5. /\ pc'[Rd(k)] = l
      /\ \A u \in Thread : u # Rd(k) => pc'[u] = pc[u]
      /\ \A j \in Captures : pc'[Wr(j)] = pc[Wr(j)]
  BY <1>1, <1>2, Threads DEF Goto, TypeOK, PlacesOK
<1>6. CurrentOnly' /\ HandKept'
  BY <1>1, <1>2, <1>3, CurrentKept, HandOther DEF PortInv
<1>7. MainStopped'
  BY <1>1, <1>2, <1>5, Threads DEF PortInv, MainStopped
<1>8. Asked' => Asked
  BY <1>1, <1>2, <1>3, AskedBefore
<1>9. ASSUME capture = 1 PROVE FirstOpening' /\ FirstLeft'
  <2>1. FirstPlaces /\ FirstOpening /\ FirstLeft /\ k = 1
    BY <1>4, <1>9 DEF FirstInv, PortInv
  <2>2. FirstOpening'
    BY <1>1, <1>3, <1>5, <2>1, FirstCapture DEF FirstOpening
  <2>3. ~hasty => threads # <<>>
    <3>1. ~hasty => Rd(k) \in Members(threads)
      BY <1>2, <1>3 DEF Tracked, LiveTracked, Live
    <3> QED  BY <3>1, MembersOf, EmptySeq
  <2>4. pc[Rd(1)] \in Before => ~Asked
    BY <2>1, BeforeAsked
  <2>5. pc[Rd(1)] = "r_open" => pc[Wr(1)] # "done"
    BY <2>1 DEF FirstOpening, Opening
  <2>6. FirstLeft'
    <3>1. SUFFICES ASSUME pc[Wr(1)] = "done"
                   PROVE  /\ running' => serial' = "None"
                          /\ ~hasty => (Asked' \/ threads = <<>> =>
                                          serial_queue' = <<>> \/ serial' = "None")
      BY <1>1, <1>5, FirstCapture DEF FirstLeft
    <3>2. serial = "None" => serial' = "None"
      BY <1>1, <2>1, <2>5, <3>1
    <3> QED  BY <1>1, <1>8, <2>1, <2>3, <2>4, <3>1, <3>2 DEF FirstLeft
  <2> QED  BY <2>2, <2>6
<1>10. ASSUME capture = 2, ~hasty PROVE SecondOpening'
  <2>1. SecondOpening /\ k = 2
    BY <1>4, <1>10 DEF PortInv
  <2>2. Joined(2) => Joined(2)'
    BY <1>1, <1>2, <1>3, <2>1, JoinedMove
  <2>3. ~Due(2) /\ ~Due(2)'
    BY <1>3, <1>5, <2>1 DEF Due
  <2>4. Writing(2)' <=> Writing(2)
    BY <1>5, <2>1 DEF Writing
  <2>5. SUFFICES ASSUME l \in Opening
                 PROVE  /\ serial' = "None" \/ (serial_queue' = <<>> /\ ~Writing(2)') \/ Joined(2)'
                        /\ l = "r_open" => running' \/ Joined(2)'
    BY <1>5, <2>1, <2>3 DEF SecondOpening, Opening
  <2> QED  BY <1>1, <2>1, <2>2, <2>3, <2>4, <2>5 DEF SecondOpening
<1>11. ASSUME capture = 1 \/ (capture = 2 /\ ~hasty) PROVE Claimed'
  <2>1. SUFFICES ASSUME pc[Main] = "idle", Main \in stoppers, serial' # "None"
                 PROVE  \E u \in Stopper : pc'[u] \in Asking \cup After
    BY <1>1, <1>2, <1>5, Threads DEF Claimed, At
  <2>2. \E u \in Stopper : pc[u] \in Asking \cup After
    <3>1. CASE serial # "None"
      BY <1>11, <2>1, <3>1 DEF PortInv, Claimed, At
    <3>2. CASE serial = "None"
      <4>1. pc[Rd(k)] = "r_open" /\ ~running
        BY <1>1, <2>1, <3>2 DEF PortInv, MainStopped
      <4>2. capture = 2 /\ ~hasty
        BY <1>4, <1>11, <4>1 DEF PortInv, FirstOpening, Opening
      <4>3. Joined(2)
        BY <1>4, <4>1, <4>2 DEF PortInv, SecondOpening
      <4> QED  BY <4>3 DEF Joined, Joining, Asking
    <3> QED  BY <3>1, <3>2
  <2>3. PICK u \in Stopper : pc[u] \in Asking \cup After
    BY <2>2
  <2>4. pc'[u] = pc[u]
    BY <1>3, <1>5, <2>3, Threads
  <2> QED  BY <2>3, <2>4
<1> QED  BY <1>1, <1>6, <1>7, <1>9, <1>10, <1>11 DEF PortInv

LEMMA WriterPort ==
  ASSUME TypeOK, FirstInv, PortInv, NEW k \in Captures, Writer(k)
  PROVE  PortInv'
<1>1. /\ UNCHANGED <<serial, threads, stoppers, hasty, start, starting, rest, alive_threads, capture>>
      /\ (running' => running) /\ pc[Wr(k)] \in WrPC
  BY DEF Writer, WrLoop, WrGet, WrEmpty, WrWrite, WrIOError, WrNoSerial, Writing, At, Step,
         shared, startVars, stopVars, history, WrPC
<1>2. /\ Wr(k) \in Thread /\ Wr(k) \in Worker /\ Wr(k) # Main /\ Wr(k) \notin Stopper
      /\ Wr(k)[2] = k /\ \A j \in Captures : /\ Wr(k) # Rd(j)
                                             /\ Wr(k) = Wr(j) => j = k
      /\ DOMAIN pc = Thread
  BY Threads, FirstCapture DEF Rd, Wr, TypeOK, PlacesOK
<1>3. PICK l \in WrPC \cup {"done"} : Goto(Wr(k), l)
  <2>1. CASE WrWrite(k) /\ UNCHANGED pc
    <3>1. Goto(Wr(k), pc[Wr(k)])
      BY <1>2, <2>1 DEF Goto, TypeOK, PlacesOK
    <3> QED  BY <1>1, <3>1
  <2>2. CASE ~(WrWrite(k) /\ UNCHANGED pc)
    BY <2>2 DEF Writer, WrLoop, WrGet, WrEmpty, WrWrite, WrIOError, WrNoSerial, AfterWrite, Step, WrPC
  <2> QED  BY <2>1, <2>2
<1>4. Active(Wr(k)) /\ pc[Wr(k)] \notin Asking /\ l \notin Asking \cup {"s_join"}
  BY <1>1, <1>3 DEF Active, After, Asking, WrPC
<1>5. ASSUME ~hasty \/ capture = 1 PROVE k = capture
  BY <1>2, <1>4, <1>5 DEF PortInv, CurrentOnly, CurrentLists
<1>6. /\ pc'[Wr(k)] = l
      /\ \A u \in Thread : u # Wr(k) => pc'[u] = pc[u]
  BY <1>2, <1>3 DEF Goto
<1>7. CurrentOnly'
  BY <1>1, <1>2, <1>3, <1>4, CurrentKept DEF PortInv
<1>8. MainStopped'
  BY <1>1, <1>2, <1>6, Threads DEF PortInv, MainStopped
<1>9. \/ /\ pc[Wr(k)] \in {"w_loop", "w_get", "w_drain"} /\ l \in {"w_loop", "w_get", "w_drain", "done"}
         /\ UNCHANGED <<running, serial_queue, command>>
         /\ l = "w_drain" => ~running
         /\ l = "done" => pc[Wr(k)] = "w_drain" /\ serial_queue = <<>>
      \/ /\ pc[Wr(k)] \in {"w_get", "w_drain"} /\ l \in {"w_write", "w_last"} /\ UNCHANGED running
         /\ serial_queue # <<>> /\ command' = [command EXCEPT ![k] = Head(serial_queue)]
      \/ /\ Writing(k) /\ UNCHANGED serial_queue
         /\ command' = [command EXCEPT ![k] = NoCmd]
         /\ UNCHANGED running \/ serial # "None"
         /\ l = "done" => serial = "None"
  <2>1. CASE WrLoop(k) \/ WrEmpty(k)
    <3>1. UNCHANGED <<running, serial_queue, command>> /\ pc[Wr(k)] \in {"w_loop", "w_get", "w_drain"}
      BY <2>1 DEF WrLoop, WrEmpty, At, Step, shared
    <3>2. pc'[Wr(k)] \in {"w_loop", "w_get", "w_drain", "done"}
      BY <1>2, <2>1 DEF WrLoop, WrEmpty, Step, Goto
    <3>3. pc'[Wr(k)] = "w_drain" => ~running
      BY <1>2, <2>1 DEF WrLoop, WrEmpty, Step, Goto
    <3>4. pc'[Wr(k)] = "done" => pc[Wr(k)] = "w_drain" /\ serial_queue = <<>>
      BY <1>2, <2>1 DEF WrLoop, WrEmpty, Step, Goto, At
    <3> QED  BY <1>6, <3>1, <3>2, <3>3, <3>4
  <2>2. CASE WrGet(k)
    <3>1. pc'[Wr(k)] \in {"w_write", "w_last"}
      BY <1>2, <2>2 DEF WrGet, Goto
    <3> QED  BY <1>6, <2>2, <3>1 DEF WrGet
  <2>3. CASE WrWrite(k) \/ WrIOError(k) \/ WrNoSerial(k)
    <3>1. Writing(k) /\ UNCHANGED serial_queue /\ command' = [command EXCEPT ![k] = NoCmd]
      BY <2>3 DEF WrWrite, WrIOError, WrNoSerial, shared
    <3>2. UNCHANGED running \/ serial # "None"
      BY <2>3 DEF WrWrite, WrIOError, WrNoSerial, shared
    <3>3. l = "done" => serial = "None"
      <4>1. CASE WrNoSerial(k)
        BY <4>1 DEF WrNoSerial
      <4>2. CASE WrIOError(k) \/ (WrWrite(k) /\ ~UNCHANGED pc)
        BY <1>2, <1>6, <4>2 DEF WrWrite, WrIOError, AfterWrite, Goto
      <4>3. CASE UNCHANGED pc
        BY <1>1, <1>6, <4>3 DEF WrPC
      <4> QED  BY <2>3, <4>1, <4>2, <4>3
    <3> QED  BY <3>1, <3>2, <3>3
  <2> QED  BY <2>1, <2>2, <2>3 DEF Writer
<1>10. HandKept'
  <2>1. ASSUME NEW j \in Captures, j # k PROVE (command[j] # NoCmd => Writing(j))'
    <3>1. pc'[Wr(j)] = pc[Wr(j)]
      BY <1>2, <1>6, <2>1, Threads
    <3>2. command'[j] = command[j]
      BY <1>9, <2>1 DEF TypeOK
    <3> QED  BY <3>1, <3>2 DEF PortInv, HandKept, Writing
  <2>2. (command[k] # NoCmd => Writing(k))'
    <3>1. command[k] # NoCmd => Writing(k)
      BY DEF PortInv, HandKept
    <3>2. command \in [Captures -> Cmd \cup {NoCmd}]
      BY DEF TypeOK
    <3> QED  BY <1>6, <1>9, <3>1, <3>2 DEF Writing
  <2> QED  BY <2>1, <2>2 DEF HandKept
<1>11. ASSUME capture = 1 PROVE FirstOpening' /\ FirstLeft'
  <2>1. FirstPlaces /\ FirstOpening /\ FirstLeft /\ k = 1
    BY <1>5, <1>11 DEF FirstInv, PortInv
  <2>2. pc'[Rd(1)] = pc[Rd(1)]
    BY <1>2, <1>6, FirstCapture
  <2>3. FirstOpening'
    BY <1>6, <1>9, <2>1, <2>2 DEF FirstOpening, Writing
  <2>4. FirstLeft'
    <3>1. SUFFICES ASSUME l = "done"
                   PROVE  (~running /\ serial_queue' = <<>>) \/ serial = "None"
      BY <1>1, <1>6, <2>1 DEF FirstLeft
    <3> QED  BY <1>9, <2>1, <3>1 DEF FirstPlaces, Draining
  <2> QED  BY <2>3, <2>4
<1>12. ASSUME capture = 2, ~hasty PROVE SecondOpening'
  <2>1. SecondOpening /\ k = 2
    BY <1>5, <1>12 DEF PortInv
  <2>2. pc'[Rd(2)] = pc[Rd(2)] /\ pc'[Main] = pc[Main]
    BY <1>2, <1>6, <2>1, Threads
  <2>3. Joined(2) => Joined(2)'
    BY <1>1, <1>2, <1>3, <1>4, <2>1, JoinedMove
  <2>4. Due(2)' <=> Due(2)
    BY <1>1, <2>2 DEF Due
  <2>5. serial_queue = <<>> /\ ~Writing(2) => serial_queue' = <<>> /\ ~Writing(2)' /\ UNCHANGED running
    BY <1>6, <1>9, <2>1 DEF Writing
  <2>6. serial = "None" => UNCHANGED running
    BY <1>9
  <2>7. pc[Rd(2)] = "r_open" => pc[Rd(2)] \in Opening /\ ~Due(2)
    BY DEF Opening, Due
  <2> QED  BY <1>1, <2>1, <2>2, <2>3, <2>4, <2>5, <2>6, <2>7 DEF SecondOpening
<1>13. ASSUME Claimed PROVE Claimed'
  <2>1. pc'[Main] = pc[Main] /\ \A u \in Stopper : pc'[u] = pc[u]
    BY <1>2, <1>6, Threads
  <2> QED  BY <1>1, <1>13, <2>1 DEF Claimed, At
<1> QED  BY <1>1, <1>7, <1>8, <1>10, <1>11, <1>12, <1>13 DEF PortInv

LEMMA FifoPort ==
  ASSUME TypeOK, PortInv, NEW k \in Captures, FwEnd(k)
  PROVE  PortInv'
<1>1. /\ Goto(Fw(k), "done") /\ pc[Fw(k)] = "f_loop"
      /\ UNCHANGED <<running, serial, serial_queue, threads, start, starting, command, rest,
                     alive_threads, stoppers, hasty, capture>>
  BY DEF FwEnd, At, Step, shared, startVars, stopVars, history
<1>2. /\ Fw(k) \in Thread /\ Fw(k) # Main /\ Fw(k) \notin Stopper
      /\ \A j \in Captures : Fw(k) # Rd(j) /\ Fw(k) # Wr(j)
  BY Threads, FirstCapture DEF Rd, Wr, Fw
<1>3. \A u \in Thread : u # Fw(k) => pc'[u] = pc[u]
  BY <1>1, <1>2 DEF Goto, TypeOK, PlacesOK
<1>4. Active(Fw(k)) /\ pc[Fw(k)] \notin Asking
  BY <1>1 DEF Active, After, Asking
<1>5. CurrentOnly' /\ HandKept'
  BY <1>1, <1>2, <1>4, CurrentKept, HandOther DEF PortInv
<1>6. /\ pc'[Main] = pc[Main]
      /\ \A t \in Stopper : pc'[t] = pc[t]
      /\ \A j \in Captures : pc'[Rd(j)] = pc[Rd(j)] /\ pc'[Wr(j)] = pc[Wr(j)]
  BY <1>2, <1>3, Threads
<1>7. MainStopped' /\ (Claimed => Claimed')
  BY <1>1, <1>6 DEF PortInv, MainStopped, Claimed, At
<1>8. FirstOpening /\ FirstLeft => FirstOpening' /\ FirstLeft'
  BY <1>1, <1>6, FirstCapture DEF FirstOpening, FirstLeft, Asked
<1>9. ASSUME SecondOpening, capture = 2 PROVE SecondOpening'
  <2>1. 2 \in Captures
    BY <1>9, SnifferAssumption DEF TypeOK, Captures
  <2>2. Joined(2) => Joined(2)'
    BY <1>1, <1>2, <1>4, <2>1, JoinedMove
  <2> QED  BY <1>1, <1>6, <1>9, <2>1, <2>2 DEF SecondOpening, Due, Writing
<1> QED  BY <1>1, <1>5, <1>7, <1>8, <1>9 DEF PortInv

LEMMA SamePort ==
  ASSUME PortInv,
         UNCHANGED <<running, serial, serial_queue, threads, pc, start, starting, command, rest,
                     alive_threads, stoppers, hasty, capture>>
  PROVE  PortInv'
<1>1. CurrentOnly' /\ MainStopped' /\ HandKept'
  BY DEF PortInv, CurrentOnly, CurrentLists, JoinsCurrent, Current, Active, MainStopped, HandKept,
         Writing
<1>2. (FirstOpening => FirstOpening') /\ (FirstLeft => FirstLeft')
  BY DEF FirstOpening, FirstLeft, Asked
<1>3. (SecondOpening => SecondOpening') /\ (Claimed => Claimed')
  BY DEF SecondOpening, Due, Writing, Joined, Joining, Claimed, At
<1> QED  BY <1>1, <1>2, <1>3 DEF PortInv

(* What the first capture leaves to the second.                            *)
LEMMA StartCapturePort ==
  ASSUME TypeOK, Tracked, FirstInv, PortInv, StartCapture
  PROVE  PortInv'
<1> DEFINE k == capture + 1
<1>1. capture \in Nat /\ k \in Captures
  BY SnifferAssumption DEF TypeOK, StartCapture, Captures
<1>2. /\ capture' = k /\ running' = TRUE /\ stoppers' = {} /\ threads = <<>>
      /\ starting' = Started(k) /\ start = "idle" /\ start' = "append" /\ pc[Main] = "idle"
      /\ UNCHANGED <<serial, serial_queue, command, pc, threads, hasty, rest, alive_threads>>
  BY DEF StartCapture, Starting, At, stopVars
<1> HIDE DEF k
<1>3. ASSUME ~hasty \/ k = 1 PROVE \A u \in Worker : ~Active(u)
  <2>1. CASE ~hasty
    <3>1. Members(threads) = {}
      BY <1>2, MembersOf, EmptySeq
    <3> QED  BY <2>1, <3>1 DEF Tracked, LiveTracked, Live
  <2>2. CASE k = 1
    <3>1. Fresh
      BY <1>1, <2>2 DEF FirstInv, k
    <3> QED  BY <3>1 DEF Fresh, Active
  <2> QED  BY <1>3, <2>1, <2>2
<1>4. CurrentOnly'
  <2>1. SUFFICES ASSUME ~hasty \/ k = 1 PROVE CurrentLists'
    BY <1>2 DEF CurrentOnly
  <2>2. \A u \in Worker : Active(u)' => u[2] = k
    BY <1>2, <1>3, <2>1 DEF Active
  <2>3. Current(threads)'
    BY <1>2, MembersOf, EmptySeq DEF Current
  <2>4. Current(starting)'
    <3>1. Members(Started(k)) \subseteq {Ctl(k), Rd(k), Wr(k), Fw(k)}
      BY <1>1, StartedThreads
    <3> QED  BY <1>2, <3>1 DEF Current, Ctl, Rd, Wr, Fw
  <2>5. JoinsCurrent'
    <3>1. \A t \in Stopper : pc[t] # "s_join"
      BY <1>2, <1>3, <2>1, NobodyJoins DEF At
    <3> QED  BY <1>2, <3>1 DEF JoinsCurrent
  <2> QED  BY <1>2, <2>2, <2>3, <2>4, <2>5 DEF CurrentLists
<1>5. MainStopped' /\ Claimed'
  BY <1>2 DEF MainStopped, Claimed
<1>6. HandKept'
  BY <1>2 DEF PortInv, HandKept, Writing
<1>7. ASSUME k = 1 PROVE FirstOpening' /\ FirstLeft'
  <2>1. Fresh
    BY <1>1, <1>7 DEF FirstInv, k
  <2>2. pc[Wr(1)] = "unborn"
    BY <2>1, FirstCapture DEF Fresh
  <2> QED  BY <1>2, <2>1, <2>2 DEF FirstOpening, FirstLeft, Fresh
<1>8. ASSUME k = 2, ~hasty PROVE SecondOpening'
  <2>1. FirstLeft /\ Lineup
    BY <1>1, <1>8 DEF PortInv, FirstInv, k
  <2>2. pc[Wr(1)] # "unborn"
    <3>1. starting = <<>>
      BY <1>2, <2>1 DEF Lineup, LoopDone
    <3> QED  BY <1>2, <2>1, <3>1, MembersOf, EmptySeq DEF Lineup, WrStarted
  <2>3. pc[Wr(1)] = "done"
    <3>1. pc[Wr(1)] \in WrPC \cup {"unborn", "done"}
      BY FirstCapture DEF TypeOK, PlacesOK, Places, Wr
    <3> QED  BY <1>3, <1>8, <2>2, <3>1, FirstCapture DEF Active, After, WrPC
  <2>4. serial = "None" \/ serial_queue = <<>>
    BY <1>2, <1>8, <2>1, <2>3 DEF FirstLeft
  <2>5. ~Active(Rd(2)) /\ ~Active(Wr(2))
    BY <1>1, <1>3, <1>8, Threads
  <2>6. pc[Rd(2)] # "r_open" /\ ~Writing(2)
    BY <2>5 DEF Active, After, Writing
  <2> QED  BY <1>2, <2>4, <2>6 DEF SecondOpening, Writing
<1> QED  BY <1>2, <1>4, <1>5, <1>6, <1>7, <1>8 DEF PortInv

(* To start a thread takes it from where nobody counts on it.              *)
LEMMA StartPort ==
  ASSUME TypeOK, Tracked, FirstInv, PortInv, Start
  PROVE  PortInv'
<1>1. CASE StartCapture
  BY <1>1, StartCapturePort
<1>2. CASE StartAppend
  <2>1. /\ start = "append" /\ UNCHANGED <<running, serial, serial_queue, pc, start, command, rest,
                                           alive_threads, stoppers, hasty, capture>>
        /\ starting # <<>> /\ starting' = Tail(starting) /\ threads' = Append(threads, Head(starting))
    BY <1>2 DEF StartAppend, Starting, stopVars, history
  <2>2. /\ Members(threads') = Members(threads) \cup {Head(starting)} /\ threads' # <<>>
        /\ Members(starting) = {Head(starting)} \cup Members(starting')
    <3>1. Head(starting) \in Worker /\ Members(starting) = {Head(starting)} \cup Members(Tail(starting))
      BY <2>1, MembersOf DEF TypeOK
    <3>2. Append(threads, Head(starting)) # <<>>
      BY <3>1, AppendProperties DEF TypeOK
    <3> QED  BY <2>1, <3>1, <3>2, MembersOf DEF TypeOK
  <2>3. CurrentOnly'
    BY <2>1, <2>2 DEF PortInv, CurrentOnly, CurrentLists, JoinsCurrent, Current, Active
  <2>4. MainStopped' /\ HandKept'
    BY <2>1 DEF PortInv, MainStopped, HandKept, Writing
  <2>5. (FirstOpening => FirstOpening') /\ (FirstLeft => FirstLeft')
    BY <2>1, <2>2 DEF FirstOpening, FirstLeft, Asked
  <2>6. (SecondOpening => SecondOpening') /\ (Claimed => Claimed')
    BY <2>1 DEF SecondOpening, Due, Writing, Joined, Joining, Claimed, At
  <2> QED  BY <2>1, <2>3, <2>4, <2>5, <2>6 DEF PortInv
<1>3. CASE StartLoop
  <2>1. /\ start = "append" /\ start' # "append" /\ starting' = threads
        /\ UNCHANGED <<running, serial, serial_queue, threads, pc, command, rest,
                       alive_threads, stoppers, hasty, capture>>
    BY <1>3 DEF StartLoop, Starting, Loop, shared, stopVars, history
  <2>2. CurrentOnly'
    BY <2>1 DEF PortInv, CurrentOnly, CurrentLists, JoinsCurrent, Current, Active
  <2>3. MainStopped' /\ HandKept'
    BY <2>1 DEF PortInv, MainStopped, HandKept, Writing
  <2>4. (FirstOpening => FirstOpening') /\ (FirstLeft => FirstLeft')
    BY <2>1 DEF FirstOpening, FirstLeft, Asked
  <2>5. pc[Main] \notin Asking \cup After
    BY <1>3 DEF StartLoop, Starting, At, Asking, After
  <2>6. (SecondOpening => SecondOpening') /\ (Claimed => Claimed')
    BY <2>1, <2>5 DEF SecondOpening, Due, Writing, Joined, Joining, Claimed, At
  <2> QED  BY <2>1, <2>2, <2>3, <2>4, <2>6 DEF PortInv
<1>4. CASE StartThread
  <2> DEFINE t == Head(starting)
  <2>1. /\ start = "loop" /\ starting # <<>> /\ pc[Main] = "idle"
        /\ UNCHANGED <<running, serial, serial_queue, threads, command, rest,
                       alive_threads, stoppers, hasty, capture>>
        /\ \/ pc[t] = "unborn" /\ Goto(t, First(t)) /\ Loop(Tail(starting))
           \/ UNCHANGED pc /\ Loop(<<>>)
    BY <1>4 DEF StartThread, Starting, shared, stopVars, history, At
  <2>2. /\ t \in Worker /\ Members(starting) = {t} \cup Members(Tail(starting))
        /\ Members(<<>>) = {}
    BY <2>1, MembersOf, EmptySeq DEF TypeOK
  <2>3. start' # "append" /\ Members(starting') \subseteq Members(starting) /\ t \in Members(starting)
    BY <2>1, <2>2 DEF Loop
  <2> HIDE DEF t
  <2>4. /\ First(t) \notin StopPC \cup {"unborn", "done"} /\ t \in Thread /\ DOMAIN pc = Thread
        /\ t # Main
    BY <2>2, FirstPlace, Threads DEF TypeOK, PlacesOK
  <2>5. \A u \in Thread : pc'[u] = pc[u] \/ (u = t /\ pc[u] = "unborn" /\ pc'[u] = First(t))
    BY <2>1, <2>4 DEF Goto
  <2>6. \A u \in Thread : pc'[u] \in StopPC \cup {"unborn", "done", "idle"} => pc'[u] = pc[u]
    <3>1. First(t) # "idle"
      BY <2>2 DEF First, Worker
    <3> QED  BY <2>4, <2>5, <3>1
  <2>7. \A u \in Thread : pc[u] # "unborn" => pc'[u] = pc[u]
    BY <2>5
  <2>8. CurrentOnly'
    <3>1. SUFFICES ASSUME CurrentLists PROVE CurrentLists'
      BY <2>1 DEF PortInv, CurrentOnly
    <3>2. ASSUME NEW u \in Worker, Active(u)' PROVE u[2] = capture
      <4>1. CASE pc'[u] = pc[u]
        BY <3>1, <3>2, <4>1 DEF CurrentLists, Active
      <4>2. CASE u = t
        BY <2>3, <3>1, <4>2 DEF CurrentLists, Current
      <4> QED  BY <2>5, <4>1, <4>2, Threads
    <3>3. JoinsCurrent'
      BY <2>1, <2>6, <3>1, Threads DEF CurrentLists, JoinsCurrent, Current, StopPC
    <3> QED  BY <2>1, <2>3, <3>1, <3>2, <3>3 DEF CurrentLists, Current
  <2>9. pc'[Main] = pc[Main]
    BY <2>1, <2>7, Threads
  <2>10. MainStopped'
    BY <2>1, <2>9 DEF PortInv, MainStopped
  <2>11. \A j \in Captures : Writing(j) <=> Writing(j)'
    <3>1. ASSUME NEW j \in Captures PROVE Writing(j) <=> Writing(j)'
      <4>1. CASE pc'[Wr(j)] = pc[Wr(j)]
        BY <4>1 DEF Writing
      <4>2. CASE Wr(j) = t /\ pc[Wr(j)] = "unborn" /\ pc'[Wr(j)] = First(t)
        BY <4>2 DEF Writing, First, Wr
      <4> QED  BY <2>5, <4>1, <4>2, Threads
    <3> QED  BY <3>1
  <2>12. HandKept'
    BY <2>1, <2>11 DEF PortInv, HandKept
  <2>13. \A u \in Stopper : (pc'[u] \in Asking \cup After <=> pc[u] \in Asking \cup After)
                            /\ (pc[u] \in Asking => pc'[u] = pc[u])
                            /\ (pc'[u] \in Asking => pc[u] \in Asking)
    <3>1. Asking \cup After \subseteq StopPC /\ "unborn" \notin Asking \cup After
      BY DEF Asking, After, StopPC
    <3> QED  BY <2>6, <2>7, <3>1, Threads
  <2>14. ASSUME FirstOpening PROVE FirstOpening'
    <3>1. pc'[Rd(1)] \in Opening \cup {"r_begin", "unborn"} =>
            pc[Rd(1)] \in Opening \cup {"r_begin", "unborn"}
      BY <2>5, FirstCapture
    <3>2. pc[Wr(1)] \in {"unborn", "w_loop", "w_get"} => pc'[Wr(1)] \in {"unborn", "w_loop", "w_get"}
      <4>1. Wr(1) = t => First(t) = "w_loop"
        BY DEF First, Wr
      <4> QED  BY <2>5, <4>1, FirstCapture
    <3> QED  BY <2>1, <2>14, <3>1, <3>2 DEF FirstOpening
  <2>15. ASSUME FirstLeft PROVE FirstLeft'
    BY <2>1, <2>6, <2>13, <2>15, FirstCapture DEF FirstLeft, Asked
  <2>16. ASSUME SecondOpening, 2 \in Captures PROVE SecondOpening'
    <3>1. pc[Main] \notin Asking \cup After
      BY <2>1 DEF Asking, After
    <3>2. Due(2)' => Due(2)
      BY <2>1, <2>3, <2>6, <2>16, Threads DEF Due
    <3>3. ASSUME pc'[Rd(2)] \in Opening PROVE pc[Rd(2)] = pc'[Rd(2)] \/ (Due(2) /\ pc'[Rd(2)] # "r_open")
      <4>1. Rd(2) = t => First(t) = "r_loop"
        BY DEF First, Rd
      <4>2. Rd(2) = t /\ pc[Rd(2)] = "unborn" => Due(2)
        BY <2>1, <2>3 DEF Due
      <4> QED  BY <2>5, <2>16, <4>1, <4>2, Threads
    <3>4. Joined(2) => Joined(2)'
      BY <2>1, <2>13 DEF Joined, Joining, Asking
    <3>5. "r_open" \in Opening
      BY DEF Opening
    <3> QED  BY <2>1, <2>11, <2>16, <3>1, <3>2, <3>3, <3>4, <3>5 DEF SecondOpening
  <2>17. Claimed => Claimed'
    BY <2>1, <2>9, <2>13 DEF Claimed, At
  <2>18. capture = 2 => 2 \in Captures
    BY SnifferAssumption DEF TypeOK, Captures
  <2> QED  BY <2>1, <2>8, <2>10, <2>12, <2>14, <2>15, <2>16, <2>17, <2>18 DEF PortInv
<1> QED  BY <1>1, <1>2, <1>3, <1>4 DEF Start

LEMMA PortInit == Init => PortInv
<1> SUFFICES ASSUME Init PROVE PortInv
  OBVIOUS
<1>1. \A u \in Worker : pc[u] = "unborn"
  BY Threads DEF Init
<1>2. \A t \in Stopper : pc[t] # "s_join"
  BY Threads DEF Init
<1>3. Members(<<>>) = {}
  BY MembersOf, EmptySeq
<1> QED  BY <1>1, <1>2, <1>3 DEF Init, PortInv, CurrentOnly, CurrentLists, JoinsCurrent, Current, Active,
                          MainStopped, HandKept, Claimed

LEMMA PortNext == TypeOK /\ Tracked /\ FirstInv /\ PortInv /\ [Next]_vars => PortInv'
<1> SUFFICES ASSUME TypeOK, Tracked, FirstInv, PortInv, [Next]_vars PROVE PortInv'
  OBVIOUS
<1>1. CASE Detach \/ Attach
  <2>1. UNCHANGED <<running, serial, serial_queue, threads, pc, start, starting, command, rest,
                    alive_threads, stoppers, hasty, capture>>
    BY <1>1 DEF Detach, Attach, shared, startVars, stopVars, history
  <2> QED  BY <2>1, SamePort
<1>2. CASE Start
  BY <1>2, StartPort
<1>3. CASE MainStop
  <2>1. /\ CallStop(Main) /\ pc[Main] = "idle"
        /\ UNCHANGED <<shared, startVars, command, stopVars, env, capture>>
    BY <1>3 DEF MainStop, At
  <2> QED  BY <2>1, CallStopPort, Threads DEF StopPC
<1>4. ASSUME NEW t \in Stopper, Stop(t) PROVE PortInv'
  BY <1>4, StopPort
<1>5. ASSUME NEW k \in Captures, ControlEnds(k) PROVE PortInv'
  <2>1. /\ CallStop(Ctl(k)) /\ pc[Ctl(k)] = "c_read"
        /\ UNCHANGED <<shared, startVars, command, stopVars, env, capture>>
    BY <1>5 DEF ControlEnds, At
  <2> QED  BY <2>1, CallStopPort, Threads DEF StopPC, Active, After
<1>6. ASSUME NEW k \in Captures, Reader(k) PROVE PortInv'
  <2>1. CASE CallStop(Rd(k))
    <3>1. pc'[Rd(k)] = "s_wait"
      BY <2>1, Threads DEF CallStop, Goto, TypeOK, PlacesOK
    <3>2. RdStop(k)
      <4>1. ASSUME ~RdStop(k) PROVE FALSE
        <5>1. PICK l \in RdPC \cup {"done"} : Goto(Rd(k), l)
          BY <1>6, <4>1 DEF Reader, RdLoop, RdOpen, RdOpenFails, RdOpenTimeout, RdBegin,
             RdReply, RdSetupDone, RdCheck, RdRead, RdFinal, Step, RdPC
        <5>2. pc'[Rd(k)] = l
          BY <5>1, Threads DEF Goto, TypeOK, PlacesOK
        <5> QED  BY <3>1, <5>2 DEF RdPC
      <4> QED  BY <4>1
    <3>3. pc[Rd(k)] = "r_stop" /\ UNCHANGED <<shared, startVars, command, stopVars, env, capture>>
      BY <3>2 DEF RdStop, At
    <3> QED  BY <2>1, <3>3, CallStopPort, Threads DEF StopPC, Active, After
  <2>2. CASE ~CallStop(Rd(k))
    BY <1>6, <2>2, ReaderPort
  <2> QED  BY <2>1, <2>2
<1>7. ASSUME NEW k \in Captures, Writer(k) PROVE PortInv'
  BY <1>7, WriterPort
<1>8. ASSUME NEW k \in Captures, FwEnd(k) PROVE PortInv'
  BY <1>8, FifoPort
<1>9. CASE UNCHANGED vars
  BY <1>9, SamePort DEF vars
<1> QED  BY <1>1, <1>2, <1>3, <1>4, <1>5, <1>6, <1>7, <1>8, <1>9 DEF Next

(* In the first two captures, once the script has called stop_sig_handler  *)
(* and every thread has ended, the object has let go of the serial port,   *)
(* with or without a control reader, a timeout or a named pipe, and        *)
(* wherever the dongle is unplugged on the way; in the second one as long  *)
(* as no stop has joined a thread that was not started yet.                *)
THEOREM SnifferPortReleased == Spec => []PortReleased
<1>1. PortInv => PortReleased
  <2>1. ASSUME Claimed, Starting("idle"), Main \in stoppers, \A t \in Worker : Ended(t)
        PROVE  serial = "None"
    <3>1. \A t \in Stopper : pc[t] \notin Asking \cup After
      BY <2>1, Threads DEF Starting, At, Ended, Asking, After
    <3> QED  BY <2>1, <3>1 DEF Claimed, Starting
  <2> QED  BY <2>1 DEF PortInv, PortReleased
<1>2. Spec => []PortInv
  BY InitType, NextType, TrackedInit, TrackedNext, FirstInit, FirstNext, PortInit, PortNext, PTL
     DEF Spec
<1> QED  BY <1>1, <1>2, PTL
-----------------------------------------------------------------------------
(***************************************************************************)
(* The time the same object reports: correct_time keeps its state in two   *)
(* attributes of its own, first_local_timestamp and                        *)
(* first_sniffer_timestamp, which no other method touches.  The theorems   *)
(* are about CorrectTime, for every timer period, every first timestamp    *)
(* and any time between packets.                                           *)
(***************************************************************************)

(* Quotient and remainder are what one knows them to be. *)
LEMMA DivMod ==
  ASSUME NEW x \in Int, NEW T \in Nat \ {0}
  PROVE  /\ x \div T \in Int
         /\ x % T \in 0..(T - 1)
         /\ x = T * (x \div T) + (x % T)
  OBVIOUS

(* Moving a whole number of periods moves the quotient. *)
LEMMA NextPeriod ==
  ASSUME NEW T \in Nat \ {0}, NEW q \in Int
  PROVE  /\ T * (q + 1) = T * q + T
         /\ T * (q - 1) = T * q - T
         /\ T * q \in Int
  OBVIOUS

(* correct_time returns the host's time of the first packet plus the       *)
(* device's time since.                                                    *)
LEMMA CorrectedExact ==
  ASSUME TimeTypes, TimeInv, started, ~restarted
  PROVE  Corrected(SnifferTimestamp, clock) = first_local_timestamp + (timer - origin)
<1> DEFINE T == TIMER_MAX
           f == first_sniffer_timestamp
           s == SnifferTimestamp
           a == f + (clock - first_local_timestamp)
<1>1. Half \in Nat \ {0} /\ T = Half + Half /\ T \in Nat \ {0}
  BY TimeAssumption DEF TIMER_MAX
<1>2. PICK q0 \in Int : origin = T * q0 + f
  <2>1. origin \in Int /\ f = (origin % T)
    BY DEF TimeTypes, TimeInv
  <2>2. origin \div T \in Int /\ origin = T * (origin \div T) + f
    BY <1>1, <2>1
  <2>3. QED
    BY <2>2
<1>3. PICK q1 \in Int : timer = T * q1 + s
  <2>1. timer \in Int /\ s = (timer % T)
    BY DEF TimeTypes, SnifferTimestamp
  <2>2. timer \div T \in Int /\ timer = T * (timer \div T) + s
    BY <1>1, <2>1
  <2>3. QED
    BY <2>2
<1>4. s \in 0..(T - 1)
  BY <1>1, DivMod DEF TimeTypes, SnifferTimestamp
<1> HIDE DEF T, s
<1>5. PICK p \in Int : p = q1 - q0
  OBVIOUS
<1>6. T * p = T * q1 - T * q0 /\ T * p \in Int /\ T * q1 \in Int /\ T * q0 \in Int
  BY <1>1, <1>5
<1>7. /\ Drift \in Int /\ 0 < Drift + Half /\ Drift < Half
      /\ a \in Int /\ a = T * p + s + Drift
  <2>1. Drift \in Int /\ 0 < Drift + Half /\ Drift < Half
    BY <1>1 DEF Drift, TimeInv, TimeTypes
  <2>2. a = f + Drift + (timer - origin)
    BY DEF Drift, TimeTypes
  <2>3. QED
    BY <1>2, <1>3, <1>4, <1>6, <2>1, <2>2 DEF TimeTypes
<1> HIDE DEF a
<1> DEFINE correction == IF (a % T) + Half < s THEN -1
                         ELSE IF (a % T) - Half > s THEN 1 ELSE 0
(* The period number of the clock's time a is p or one more or one less,   *)
(* and the comparison with the timestamp s tells which                     *)
(* (nrf802154_sniffer.py:140-143).                                         *)
<1>8. (a \div T) + correction = p
  <2>1. PICK d \in Int : d = Drift
    BY <1>7
  <2>2. 0 < d + Half /\ d < Half /\ a \in Int /\ a = T * p + s + d
    BY <1>7, <2>1
  <2>3. CASE s + d < 0
    <3>1. PICK q \in Int, r \in 0..(T - 1) : q = p - 1 /\ r = s + d + T
      BY <1>1, <1>4, <2>2, <2>3
    <3>2. a = T * q + r
      BY <1>1, <1>4, <2>2, <3>1, NextPeriod
    <3>3. a \div T = q /\ a % T = r
      BY <1>1, <2>2, <3>2
    <3>4. ~(r + Half < s) /\ r - Half > s
      BY <1>1, <1>4, <2>2, <3>1
    <3>5. QED
      BY <3>1, <3>3, <3>4
  <2>4. CASE s + d \in 0..(T - 1)
    <3>1. PICK r \in 0..(T - 1) : r = s + d
      BY <2>4
    <3>2. a = T * p + r
      BY <1>1, <1>4, <1>6, <2>2, <3>1
    <3>3. a \div T = p /\ a % T = r
      BY <1>1, <2>2, <3>2
    <3>4. ~(r + Half < s) /\ ~(r - Half > s)
      BY <1>1, <1>4, <2>2, <3>1
    <3>5. QED
      BY <3>3, <3>4
  <2>5. CASE s + d > T - 1
    <3>1. PICK q \in Int, r \in 0..(T - 1) : q = p + 1 /\ r = s + d - T
      BY <1>1, <1>4, <2>2, <2>5
    <3>2. a = T * q + r
      BY <1>1, <1>4, <2>2, <3>1, NextPeriod
    <3>3. a \div T = q /\ a % T = r
      BY <1>1, <2>2, <3>2
    <3>4. r + Half < s
      BY <1>1, <1>4, <2>2, <3>1
    <3>5. QED
      BY <3>1, <3>3, <3>4
  <2>6. QED
    BY <1>1, <1>4, <2>3, <2>4, <2>5
<1>9. Corrected(SnifferTimestamp, clock)
        = first_local_timestamp - f + s + ((a \div T) + correction) * T
  BY DEF Corrected, a, s, T
<1>10. Corrected(SnifferTimestamp, clock) = first_local_timestamp - f + s + T * p
  <2>1. p * T = T * p
    BY <1>1
  <2>2. QED
    BY <1>8, <1>9, <2>1
<1>11. QED
  BY <1>2, <1>3, <1>4, <1>6, <1>10 DEF TimeTypes

(* What it returns is never further from the host's clock than half a      *)
(* period, whatever the timestamp and the references are.                  *)
LEMMA CorrectedNear ==
  ASSUME TimeTypes
  PROVE  /\ Corrected(SnifferTimestamp, clock) \in Int
         /\ Corrected(SnifferTimestamp, clock) - clock \in (-Half)..Half
<1> DEFINE T == TIMER_MAX
           s == SnifferTimestamp
           a == first_sniffer_timestamp + (clock - first_local_timestamp)
           correction == IF (a % T) + Half < s THEN -1
                         ELSE IF (a % T) - Half > s THEN 1 ELSE 0
<1>1. Half \in Nat \ {0} /\ T = Half + Half /\ T \in Nat \ {0}
  BY TimeAssumption DEF TIMER_MAX
<1>2. s \in 0..(T - 1)
  BY <1>1, DivMod DEF TimeTypes, SnifferTimestamp
<1>3. a \in Int /\ first_local_timestamp - first_sniffer_timestamp = clock - a
      /\ clock \in Int /\ first_local_timestamp - first_sniffer_timestamp \in Int
  BY DEF TimeTypes
<1>4. Corrected(SnifferTimestamp, clock)
        = first_local_timestamp - first_sniffer_timestamp + s + ((a \div T) + correction) * T
  BY DEF Corrected
<1> HIDE DEF T, s, a
<1>5. PICK q \in Int, r \in 0..(T - 1) : q = a \div T /\ r = (a % T) /\ a = T * q + r
  <2>1. a \div T \in Int /\ (a % T) \in 0..(T - 1) /\ a = T * (a \div T) + (a % T)
    BY <1>1, <1>3, DivMod
  <2>2. QED
    BY <2>1
<1>6. correction \in {-1, 0, 1} /\ s - r + correction * T \in (-Half)..Half
  BY <1>1, <1>2, <1>5
<1>7. (q + correction) * T = T * q + correction * T /\ T * q \in Int /\ correction * T \in Int
  BY <1>1, <1>6, NextPeriod
<1> DEFINE k == correction
           m == T * q
           kT == correction * T
<1>8. Corrected(SnifferTimestamp, clock) = clock - a + s + (m + kT)
  BY <1>3, <1>4, <1>5, <1>7
<1>9. a = m + r /\ m \in Int /\ kT \in Int /\ s - r + kT \in (-Half)..Half
  BY <1>5, <1>6, <1>7
<1> HIDE DEF m, kT, correction
<1>10. QED
  BY <1>1, <1>2, <1>3, <1>5, <1>8, <1>9

LEMMA TimeSafe == TimeSpec => [](TimeTypes /\ TimeInv)
<1>1. TimeInit => TimeTypes /\ TimeInv
  <2>1. 0 \in 0..(TIMER_MAX - 1)
    BY TimeAssumption DEF TIMER_MAX
  <2>2. TimeInit => TimeTypes
    <3>1. TimeInit => /\ timer \in Nat /\ clock \in Int /\ started \in BOOLEAN
                  /\ restarted \in BOOLEAN
      BY TimeAssumption DEF TimeInit
    <3>2. QED
      BY <2>1, <3>1 DEF TimeInit, TimeTypes
  <2>3. TimeInit => TimeInv
    BY DEF TimeInit, TimeInv
  <2>4. QED
    BY <2>2, <2>3
<1>2. ASSUME TimeTypes, TimeInv, [TimeNext]_time_vars
      PROVE  (TimeTypes /\ TimeInv)'
  <2>1. ASSUME NEW t \in 0..(MaxTimer - timer), NEW drift \in (1 - Half)..(Half - 1),
               Pass(t, drift)
        PROVE  (TimeTypes /\ TimeInv)'
    <3>1. Half \in Nat \ {0} /\ t \in Nat /\ drift \in Int
      BY <1>2, <2>1, TimeAssumption DEF TimeTypes
    <3>2. Drift' = drift
      BY <1>2, <2>1, <3>1 DEF Pass, Drift, TimeTypes
    <3>3. TimeTypes'
      BY <1>2, <2>1, <3>1 DEF Pass, TimeTypes
    <3>4. TimeInv'
      BY <1>2, <2>1, <3>1, <3>2 DEF Pass, TimeTypes, TimeInv, Exact, NearClock
    <3>5. QED
      BY <3>3, <3>4
  <2>2. CASE FirstPacket
    <3>1. SnifferTimestamp \in 0..(TIMER_MAX - 1)
      BY <1>2, TimeAssumption, DivMod DEF SnifferTimestamp, TIMER_MAX, TimeTypes
    <3>2. TimeTypes'
      BY <1>2, <2>2, <3>1 DEF FirstPacket, TimeTypes, TIMER_MAX
    <3>3. TimeInv'
      BY <1>2, <2>2, TimeAssumption
         DEF FirstPacket, TimeTypes, TimeInv, Exact, NearClock, Drift, SnifferTimestamp, TIMER_MAX
    <3>4. QED
      BY <3>2, <3>3
  <2>3. CASE Packet
    <3>1. ~restarted => reported' = first_local_timestamp + (timer - origin)
      BY <1>2, <2>3, CorrectedExact DEF Packet
    <3>2. reported' \in Int /\ reported' - clock \in (-Half)..Half /\ heard' = clock
      BY <1>2, <2>3, CorrectedNear DEF Packet
    <3>3. TimeTypes'
      BY <1>2, <2>3, <3>2 DEF Packet, TimeTypes
    <3>4. TimeInv'
      BY <1>2, <2>3, <3>1, <3>2 DEF Packet, TimeTypes, TimeInv, Exact, NearClock, Drift
    <3>5. QED
      BY <3>3, <3>4
  <2>4. ASSUME NEW t \in StartTimer, Restart(t)
        PROVE  (TimeTypes /\ TimeInv)'
    <3>1. t \in Nat
      BY TimeAssumption
    <3>2. Drift' = Drift
      BY <1>2, <2>4, <3>1 DEF Restart, Drift, TimeTypes
    <3>3. TimeTypes'
      BY <1>2, <2>4, <3>1 DEF Restart, TimeTypes
    <3>4. TimeInv'
      BY <1>2, <2>4, <3>1, <3>2 DEF Restart, TimeTypes, TimeInv, Exact, NearClock
    <3>5. QED
      BY <3>3, <3>4
  <2>5. CASE UNCHANGED time_vars
    BY <1>2, <2>5 DEF time_vars, TimeTypes, TimeInv, Exact, NearClock, Drift
  <2>6. QED
    BY <1>2, <2>1, <2>2, <2>3, <2>4, <2>5 DEF TimeNext
<1>3. QED
  BY <1>1, <1>2, PTL DEF TimeSpec

(* Every variable keeps its type; the first timestamp fits the timer.      *)
THEOREM TimeTypeOK == TimeSpec => []TimeTypes
BY TimeSafe, PTL

(* The reported time is exact for every timer period as long as the drift  *)
(* stays below half of it and the device does not restart.                 *)
THEOREM TimeExact == TimeSpec => []Exact
<1>1. TimeInv => Exact
  BY DEF TimeInv, Exact
<1>2. QED
  BY <1>1, TimeSafe, PTL

(* The reported time is within half a period of the host's clock, also     *)
(* after a restart of the device between two captures of one object.       *)
THEOREM TimeNearClock == TimeSpec => []NearClock
<1>1. TimeInv => NearClock
  BY DEF TimeInv, NearClock
<1>2. QED
  BY <1>1, TimeSafe, PTL

(* The reported times never go back, even when the host's clock does, until *)
(* the device restarts.                                                     *)
THEOREM TimeNeverBack == TimeSpec => NeverBack
<1>1. ASSUME TimeTypes, TimeInv, [TimeNext]_time_vars
      PROVE  [started /\ ~restarted' => reported' >= reported]_time_vars
  <2>1. CASE Packet /\ ~restarted
    <3>1. reported' = first_local_timestamp + (timer - origin)
      BY <1>1, <2>1, CorrectedExact DEF Packet
    <3>2. reported = first_local_timestamp + (stamp - origin) /\ stamp <= timer
      BY <1>1, <2>1 DEF Packet, TimeInv, Exact
    <3>3. QED
      BY <1>1, <3>1, <3>2 DEF TimeTypes
  <2>2. CASE ~(Packet /\ ~restarted)
    <3>1. started /\ ~restarted' => reported' = reported
      <4>1. ASSUME NEW t \in 0..(MaxTimer - timer), NEW drift \in (1 - Half)..(Half - 1),
                   Pass(t, drift)
            PROVE  reported' = reported
        BY <4>1 DEF Pass
      <4>2. ASSUME NEW t \in StartTimer, Restart(t)
            PROVE  restarted'
        BY <4>2 DEF Restart
      <4>3. FirstPacket => ~started
        BY DEF FirstPacket
      <4>4. Packet => restarted'
        BY <2>2 DEF Packet
      <4>5. UNCHANGED time_vars => reported' = reported
        BY DEF time_vars
      <4>6. QED
        BY <1>1, <4>1, <4>2, <4>3, <4>4, <4>5 DEF TimeNext
    <3>2. QED
      BY <1>1, <3>1 DEF TimeTypes
  <2>3. QED
    BY <2>1, <2>2
<1>2. QED
  BY <1>1, TimeSafe, PTL DEF TimeSpec, NeverBack
=============================================================================
