-------------------------- MODULE SnifferCollector --------------------------
(***************************************************************************)
(* SnifferAPI/SnifferCollector.py: the sniffer thread takes the dongle's   *)
(* packets apart (_continuouslyPipe): it buffers those sniffed from the    *)
(* air and keeps the books about the connection being followed.  The       *)
(* user's thread fetches packets from the buffer (getPackets).  The two    *)
(* threads share the buffer under _packetListLock.                         *)
(*                                                                         *)
(* The dongle numbers its packets modulo PACKET_COUNTER_CAP.  The line     *)
(* (modules Uart and SlipLink) delivers them in order and may lose any.    *)
(* Its timer overflows; it ticks once for each packet, so that losses make *)
(* gaps of any length.  Left out are what the packets do to the list of    *)
(* devices, to the capture file and to the user's callbacks, and packets   *)
(* of protocol version 2, which carry no time.                             *)
(***************************************************************************)
EXTENDS Integers, Sequences, FiniteSets

CONSTANTS
  PACKET_COUNTER_CAP,  (* 2^16                                             *)
  TimerPeriod,         (* 2^32 microseconds                                *)
  Limit,               (* 100000: the buffer is cut when it is longer      *)
  Cut,                 (* 20000: the packets cut off                       *)
  Numbers,             (* the arguments of getPackets                      *)
  None,                (* Python's None                                    *)
  MaxSent,             (* bound: the packets sent                          *)
  MaxLine              (* bound: the packets on the line                   *)

ASSUME CollectorAssumption == /\ PACKET_COUNTER_CAP \in Nat \ {0}
                              /\ TimerPeriod \in Nat \ {0}
                              /\ Limit \in Nat
                              /\ Cut \in 0..Limit
                              /\ Numbers \subseteq Int
                              /\ None \notin Int
                              /\ MaxSent \in Nat
                              /\ MaxLine \in Nat

VARIABLES
  sent,      (* packets sent; a packet is named by its place among them    *)
  linked,    (* the device the dongle follows is in a connection           *)
  line,      (* packets on their way, each with its id                     *)
  packet,    (* the packet the sniffer thread works on                     *)
  thread,    (* where the sniffer thread is                                *)
  buffer,    (* self._packets                                              *)
  lock,      (* self._packetListLock is held by the user's thread          *)
  number,    (* argument of the call of getPackets under way               *)
  returnList,                      (* its local                            *)
  connectEventPacketCounterValue,
  inConnection,
  packetsInLastConnection,
  currentConnectRequest,
  last_time,               (* the host's time of the last reference        *)
  last_timestamp,          (* the dongle's                                 *)
  arrived,   (* history: the packets put into the buffer                   *)
  handed,    (* history: the packets getPackets has returned               *)
  cut,       (* history: the packets cut off the buffer                    *)
  eventLost, (* history: the last event about the connection was lost      *)
  opened,    (* history: the CONNECT that set the counter value            *)
  closed,    (* history: the DISCONNECT that set the number of packets     *)
  stamped,   (* history: the packet of the last reference                  *)
  offset,    (* history: host's minus dongle's time at the RESP_TIMESTAMP  *)
  gapless    (* history: no gap of a timer period or more since then       *)

dongle == <<sent, linked, line, eventLost>>
books == <<connectEventPacketCounterValue, inConnection,
           packetsInLastConnection, currentConnectRequest, opened, closed>>
timing == <<last_time, last_timestamp, stamped, offset, gapless>>
fetch == <<lock, number, returnList, handed>>
vars == <<sent, linked, line, packet, thread, buffer, lock, number, returnList,
          connectEventPacketCounterValue, inConnection, packetsInLastConnection,
          currentConnectRequest, last_time, last_timestamp, arrived, handed, cut,
          eventLost, opened, closed, stamped, offset, gapless>>

Events == {"EVENT_CONNECT", "EVENT_DISCONNECT"}
IDs == Events \cup {"EVENT_PACKET", "RESP_TIMESTAMP"}

\* Mutant: the counter is not cut to two bytes.
PacketCounterUncut(n) == n

PacketCounter(n) == n % PACKET_COUNTER_CAP
Timestamp(n) == n % TimerPeriod

Elements(s) == {s[i] : i \in DOMAIN s}

Init == /\ sent = 0
        /\ linked = FALSE
        /\ line = <<>>
        /\ packet = None
        /\ thread = "getPacket"
        /\ buffer = <<>>
        /\ lock = FALSE
        /\ number = 0
        /\ returnList = <<>>
        /\ connectEventPacketCounterValue = None
        /\ inConnection = FALSE
        /\ packetsInLastConnection = None
        /\ currentConnectRequest = None
        /\ arrived = {}
        /\ handed = {}
        /\ cut = {}
        /\ eventLost = FALSE
        /\ opened = None
        /\ closed = None
        /\ last_time = None
        /\ last_timestamp = 0
        /\ stamped = 0
        /\ offset = 0
        /\ gapless = FALSE
-----------------------------------------------------------------------------
(* The dongle and the line. *)

Transmit(ids) == /\ sent + Len(ids) <= MaxSent
                 /\ Len(line) + Len(ids) <= MaxLine
                 /\ sent' = sent + Len(ids)
                 /\ line' = line \o [i \in 1..Len(ids) |-> [n |-> sent + i, id |-> ids[i]]]
                 /\ UNCHANGED <<packet, thread, buffer, books, timing, fetch, arrived, cut>>

Sniff == /\ Transmit(<<"EVENT_PACKET">>)
         /\ UNCHANGED <<linked, eventLost>>

(* The answer to getTimestamp. *)
Answer == /\ Transmit(<<"RESP_TIMESTAMP">>)
          /\ UNCHANGED <<linked, eventLost>>

(* The event follows the connect request it is about. *)
Connect == /\ ~linked
           /\ linked' = TRUE
           /\ eventLost' = FALSE
           /\ Transmit(<<"EVENT_PACKET", "EVENT_CONNECT">>)

Disconnect == /\ linked
              /\ linked' = FALSE
              /\ eventLost' = FALSE
              /\ Transmit(<<"EVENT_DISCONNECT">>)

Lose == /\ \E i \in DOMAIN line :
             /\ line' = SubSeq(line, 1, i - 1) \o SubSeq(line, i + 1, Len(line))
             /\ eventLost' = \/ eventLost
                             \/ /\ line[i].id \in Events
                                /\ \A j \in (i + 1)..Len(line) : line[j].id \notin Events
        /\ UNCHANGED <<sent, linked, packet, thread, buffer, books, timing, fetch, arrived, cut>>
-----------------------------------------------------------------------------
(* The sniffer thread: _continuouslyPipe. *)

(* getPacket returns a packet of this kind. *)
Get(id) == /\ thread = "getPacket"
           /\ line # <<>>
           /\ Head(line).id = id
           /\ line' = Tail(line)
           /\ UNCHANGED <<sent, linked, eventLost>>

(* The host's time when the answer is handled. *)
GetRespTimestamp == /\ Get("RESP_TIMESTAMP")
                    /\ last_time' = sent
                    /\ last_timestamp' = Timestamp(Head(line).n)
                    /\ stamped' = Head(line).n
                    /\ offset' = sent - Head(line).n
                    /\ gapless' = TRUE
                    /\ UNCHANGED <<packet, thread, buffer, books, fetch, arrived, cut>>

\* Mutant: the overflow of the timer is not taken into account.
TimeDiffNoOverflow(timestamp) == timestamp - last_timestamp

TimeDiff(timestamp) == IF timestamp < last_timestamp
                       THEN TimerPeriod - (last_timestamp - timestamp)
                       ELSE timestamp - last_timestamp

(* packet.time is the new last_time, or the host's time as long as there   *)
(* is no reference.                                                        *)
GetEventPacket ==
  /\ Get("EVENT_PACKET")
  /\ packet' = Head(line).n
  /\ IF last_time = None
     THEN UNCHANGED timing
     ELSE /\ last_time' = last_time + TimeDiff(Timestamp(Head(line).n))
          /\ last_timestamp' = Timestamp(Head(line).n)
          /\ stamped' = Head(line).n
          /\ gapless' = (gapless /\ Head(line).n - stamped < TimerPeriod)
          /\ UNCHANGED offset
  /\ thread' = "append"
  /\ UNCHANGED <<buffer, books, fetch, arrived, cut>>

\* Mutant: the newest packets are cut off, self._packets[:-20000].
AppendPacketCutsNewest ==
  /\ thread = "append"
  /\ ~lock
  /\ LET kept == IF Len(buffer) > Limit THEN SubSeq(buffer, 1, Len(buffer) - Cut) ELSE buffer
     IN  /\ buffer' = Append(kept, packet)
         /\ cut' = cut \cup (Elements(buffer) \ Elements(kept))
  /\ arrived' = arrived \cup {packet}
  /\ thread' = "getPacket"
  /\ packet' = None
  /\ UNCHANGED <<dongle, books, timing, fetch>>

\* Mutant: the sniffer thread appends without taking the lock.
AppendPacketUnlocked ==
  /\ thread = "append"
  /\ LET kept == IF Len(buffer) > Limit THEN SubSeq(buffer, Cut + 1, Len(buffer)) ELSE buffer
     IN  /\ buffer' = Append(kept, packet)
         /\ cut' = cut \cup (Elements(buffer) \ Elements(kept))
  /\ arrived' = arrived \cup {packet}
  /\ thread' = "getPacket"
  /\ packet' = None
  /\ UNCHANGED <<dongle, books, timing, fetch>>

(* _appendPacket. *)
AppendPacket ==
  /\ thread = "append"
  /\ ~lock
  /\ LET kept == IF Len(buffer) > Limit THEN SubSeq(buffer, Cut + 1, Len(buffer)) ELSE buffer
     IN  /\ buffer' = Append(kept, packet)
         /\ cut' = cut \cup (Elements(buffer) \ Elements(kept))
  /\ arrived' = arrived \cup {packet}
  /\ thread' = "getPacket"
  /\ packet' = None
  /\ UNCHANGED <<dongle, books, timing, fetch>>

\* Mutant: a connection during another one keeps the counter of that.
GetEventConnectFirst ==
  /\ Get("EVENT_CONNECT")
  /\ packet' = Head(line).n
  /\ connectEventPacketCounterValue' =
       IF inConnection THEN connectEventPacketCounterValue ELSE PacketCounter(Head(line).n)
  /\ opened' = Head(line).n
  /\ inConnection' = TRUE
  /\ thread' = "find"
  /\ UNCHANGED <<buffer, packetsInLastConnection, currentConnectRequest, closed,
                 timing, fetch, arrived, cut>>

GetEventConnect == /\ Get("EVENT_CONNECT")
                   /\ packet' = Head(line).n
                   /\ connectEventPacketCounterValue' = PacketCounter(Head(line).n)
                   /\ opened' = Head(line).n
                   /\ inConnection' = TRUE
                   /\ thread' = "find"
                   /\ UNCHANGED <<buffer, packetsInLastConnection,
                                  currentConnectRequest, closed, timing,
                                  fetch, arrived, cut>>

Matches(value) == {i \in DOMAIN buffer : PacketCounter(buffer[i]) = value}

\* Mutant: the search goes forwards.
FindPacketByPacketCounterForwards(value) ==
  IF Matches(value) = {} THEN None
  ELSE buffer[CHOOSE i \in Matches(value) : \A j \in Matches(value) : i <= j]

(* _findPacketByPacketCounter: the search goes backwards. *)
FindPacketByPacketCounter(value) ==
  IF Matches(value) = {} THEN None
  ELSE buffer[CHOOSE i \in Matches(value) : \A j \in Matches(value) : j <= i]

FindConnectRequest ==
  /\ thread = "find"
  /\ ~lock
  /\ currentConnectRequest' = FindPacketByPacketCounter(connectEventPacketCounterValue - 1)
  /\ thread' = "getPacket"
  /\ packet' = None
  /\ UNCHANGED <<dongle, buffer, connectEventPacketCounterValue, inConnection,
                 packetsInLastConnection, opened, closed, timing, fetch, arrived, cut>>

\* Mutant: a disconnect does not reset inConnection.
GetEventDisconnectKeeps ==
  /\ Get("EVENT_DISCONNECT")
  /\ IF inConnection
     THEN /\ packetsInLastConnection' =
               PacketCounter(Head(line).n) - connectEventPacketCounterValue
          /\ closed' = Head(line).n
     ELSE UNCHANGED <<packetsInLastConnection, closed>>
  /\ UNCHANGED <<packet, thread, buffer, connectEventPacketCounterValue,
                 currentConnectRequest, inConnection, opened, timing, fetch, arrived, cut>>

GetEventDisconnect ==
  /\ Get("EVENT_DISCONNECT")
  /\ IF inConnection
     THEN /\ packetsInLastConnection' =
               PacketCounter(Head(line).n) - connectEventPacketCounterValue
          /\ inConnection' = FALSE
          /\ closed' = Head(line).n
     ELSE UNCHANGED <<packetsInLastConnection, inConnection, closed>>
  /\ UNCHANGED <<packet, thread, buffer, connectEventPacketCounterValue,
                 currentConnectRequest, opened, timing, fetch, arrived, cut>>
-----------------------------------------------------------------------------
(* The user's thread: getPackets. *)

(* s[0:k] and s[k:] of Python, where a negative k counts from the end. *)
SliceEnd(s, k) == IF k < 0 THEN (IF Len(s) + k < 0 THEN 0 ELSE Len(s) + k)
                  ELSE IF k > Len(s) THEN Len(s) ELSE k
SliceTo(s, k) == SubSeq(s, 1, SliceEnd(s, k))
SliceFrom(s, k) == SubSeq(s, SliceEnd(s, k) + 1, Len(s))

GetPackets(k) == /\ ~lock
                 /\ lock' = TRUE
                 /\ number' = k
                 /\ returnList' = SliceTo(buffer, k)
                 /\ UNCHANGED <<dongle, packet, thread, buffer, books, timing, arrived,
                                handed, cut>>

GetPacketsReturn == /\ lock
                    /\ buffer' = SliceFrom(buffer, number)
                    /\ handed' = handed \cup Elements(returnList)
                    /\ returnList' = <<>>
                    /\ number' = 0
                    /\ lock' = FALSE
                    /\ UNCHANGED <<dongle, packet, thread, books, timing,
                                   arrived, cut>>
-----------------------------------------------------------------------------
Next == \/ Sniff \/ Answer \/ Connect \/ Disconnect \/ Lose
        \/ GetRespTimestamp
        \/ GetEventPacket \/ AppendPacket
        \/ GetEventConnect \/ FindConnectRequest
        \/ GetEventDisconnect
        \/ \E k \in Numbers : GetPackets(k)
        \/ GetPacketsReturn

Spec == Init /\ [][Next]_vars
-----------------------------------------------------------------------------
Increasing(s) == \A i, j \in DOMAIN s : i < j => s[i] < s[j]

(* Types. *)
TypeOK == /\ sent \in Nat
          /\ linked \in BOOLEAN
          /\ line \in Seq([n : Nat, id : IDs])
          /\ packet \in Nat \cup {None}
          /\ thread \in {"getPacket", "append", "find"}
          /\ buffer \in Seq(Nat)
          /\ lock \in BOOLEAN
          /\ number \in Numbers \cup {0}
          /\ returnList \in Seq(Nat)
          /\ connectEventPacketCounterValue \in 0..(PACKET_COUNTER_CAP - 1) \cup {None}
          /\ inConnection \in BOOLEAN
          /\ packetsInLastConnection \in Int \cup {None}
          /\ currentConnectRequest \in Nat \cup {None}
          /\ arrived \subseteq Nat
          /\ handed \subseteq Nat
          /\ cut \subseteq Nat
          /\ eventLost \in BOOLEAN
          /\ opened \in Nat \cup {None}
          /\ closed \in Nat \cup {None}
          /\ last_time \in Nat \cup {None}
          /\ last_timestamp \in 0..(TimerPeriod - 1)
          /\ stamped \in Nat
          /\ offset \in Nat
          /\ gapless \in BOOLEAN

(* Sniffer.py:77 "Get [number] number of packets since last fetch": the    *)
(* packets are fetched in the order they came, each at most once; one that *)
(* came is fetched, still in the buffer, or was cut off when it was full.  *)
FetchedOnceInOrder ==
  /\ arrived = handed \cup cut \cup Elements(buffer)
  /\ Increasing(buffer)
  /\ \A n \in Elements(buffer), m \in handed \cup cut : m < n
  /\ handed \cap cut = {}

(* The lookup of the connect request at an EVENT_CONNECT: if the packet    *)
(* sent just before the event is still in the buffer, it is the one found, *)
(* even if older ones in the buffer carry the same counter; but not across *)
(* a wrap of the counter.                                                  *)
ConnectRequestNewest ==
  [][(thread = "find" /\ thread' # "find" /\ connectEventPacketCounterValue > 0
        /\ packet - 1 \in Elements(buffer))
       => currentConnectRequest' = packet - 1]_vars

(* Whatever was lost before, once the latest event about the connection    *)
(* has been received the host knows whether there is one.                  *)
InConnectionTracked ==
  (~eventLost /\ \A i \in DOMAIN line : line[i].id \notin Events) => inConnection = linked

(* The time given to packets keeps the distance from the dongle's time it  *)
(* had at the last RESP_TIMESTAMP, over any number of overflows of the     *)
(* timer and whatever was lost, unless nothing came for a whole period.    *)
TimeExact == gapless => last_time = stamped + offset

(* Sniffer.py:173 "The number of packets which were sniffed in the last    *)
(* BLE connection": from the CONNECT event received last to the DISCONNECT *)
(* event that ended it, unless the counter wraps in between.  When it does *)
(* the count is too small by a multiple of PACKET_COUNTER_CAP.             *)
PacketsInLastConnectionCounts ==
  (packetsInLastConnection # None /\ ~inConnection)
    => /\ (closed - opened - packetsInLastConnection) % PACKET_COUNTER_CAP = 0
       /\ opened \div PACKET_COUNTER_CAP = closed \div PACKET_COUNTER_CAP
            => packetsInLastConnection = closed - opened

(* getPackets may be taken for a single step, although it slices the       *)
(* buffer twice: in between the lock keeps the sniffer thread from         *)
(* appending and cutting.  The packets leave the queue with the first      *)
(* slice.  Calls with a negative number are no calls of that queue: for -1 *)
(* it promises all packets (Sniffer.py:77), but the code slices [0:-1] and *)
(* [-1:], so that the newest packet stays for the next call; and so on for *)
(* other negative numbers.                                                 *)
Queue == INSTANCE PacketQueue
           WITH queue <- IF lock THEN SliceFrom(buffer, number) ELSE buffer,
                calling <- lock, returned <- returnList

LeaveNewest == \E k \in Numbers : k < 0 /\ Queue!TakeAllBut(-k)

ImplementsQueue ==
  Queue!QueueInit /\ [][Queue!QueueNext \/ LeaveNewest]_(Queue!queueVars)
=============================================================================
