---------------------------- MODULE PacketReader ----------------------------
(***************************************************************************)
(* SnifferAPI/Packet.py, PacketReader.getPacket behind the framing: the    *)
(* dongle sends what it hears on the air, and other packets in between;    *)
(* the reader takes each list apart (module Packet), converts it for a     *)
(* Wireshark that knows only version 2 of the protocol, and remembers the  *)
(* packets before.  A packet is lost on the line, or loses a byte there    *)
(* (module SlipLink).  What the dongle hears is described field by field   *)
(* and put into bytes by AirBytes, the format the code takes apart.        *)
(***************************************************************************)
EXTENDS Packet

CONSTANTS
  Frames,      (* packets on the air                                       *)
  Others,      (* the dongle's other packets: id and payload               *)
  ProtoVers,   (* versions of the protocol the dongle may speak            *)
  Clocks,      (* the dongle's clock when it begins                        *)
  Gap,         (* microseconds between two packets                         *)
  MaxPackets   (* bound: packets the dongle sends                          *)

ASSUME ReaderAssumption == /\ ProtoVers \subseteq {PROTOVER_V1, PROTOVER_V2, PROTOVER_V3}
                           /\ Clocks \subseteq 0..(256^TimestampSize - 1)
                           /\ Gap \in Nat
                           /\ MaxPackets \in Nat

VARIABLES
  supportedProtocolVersion,
  lastReceivedPacket,
  lastReceivedTimestampPacket,
  packet,      (* what getPacket returned last                             *)
  ended,       (* getPacket has raised: so ended the thread that calls it  *)
  protover,    (* version the dongle speaks                                *)
  clock,       (* the dongle's clock                                       *)
  counter,     (* the dongle's packet counter                              *)
  heard,       (* history: what packet was made of: the frame and when it  *)
               (* began; <<>> if it was no frame or lost a byte            *)
  heardBefore, (* history: the same of the sniffed packet before packet    *)
  adjacent,    (* history: that one was also the last packet received      *)
  damaged      (* history: packet lost a byte on the line                  *)

reader == <<supportedProtocolVersion, lastReceivedPacket, lastReceivedTimestampPacket, packet, ended>>
dongle == <<protover, clock, counter>>
history == <<heard, heardBefore, adjacent, damaged>>
vars == <<supportedProtocolVersion, lastReceivedPacket, lastReceivedTimestampPacket, packet,
          ended, protover, clock, counter, heard, heardBefore, adjacent, damaged>>

Init == /\ supportedProtocolVersion \in {PROTOVER_V2, PROTOVER_V3}
        /\ lastReceivedPacket = None
        /\ lastReceivedTimestampPacket = None
        /\ packet = InvalidPacket
        /\ ended = FALSE
        /\ protover \in ProtoVers
        /\ clock \in Clocks
        /\ counter = 0
        /\ heard = <<>>
        /\ heardBefore = <<>>
        /\ adjacent = FALSE
        /\ damaged = FALSE

-----------------------------------------------------------------------------
(* On the air.  An advertisement carries addresses, then structures        *)
(* [length, type, ...]; an extended one keeps its addresses in a header    *)
(* that may be missing.  A data packet is one structure.                   *)

TimerPeriod == 256^TimestampSize

IsAdv(f) == f.advType # -1

Structures(f) ==
  LET bytes[i \in 0..Len(f.data)] ==
        IF i = 0 THEN <<>>
        ELSE bytes[i - 1] \o <<Len(f.data[i].value) + 1, f.data[i].type>> \o f.data[i].value
  IN  bytes[Len(f.data)]

AddressBytes(f) == Reversed(f.advA) \o Reversed(f.targetA)

ExtendedHeader(f) ==
  IF ~f.header THEN <<0>>
  ELSE LET flags == (IF f.advA # <<>> THEN 1 ELSE 0) + (IF f.targetA # <<>> THEN 2 ELSE 0)
                    + (IF f.adi # <<>> THEN 8 ELSE 0)
           fields == <<flags>> \o AddressBytes(f) \o f.adi
       IN  <<Len(fields)>> \o fields

AirPayload(f) ==
  (CASE ~IsAdv(f) -> <<>>
     [] f.advType = 7 -> ExtendedHeader(f)
     [] OTHER -> AddressBytes(f)) \o Structures(f)

AirHeader(f) == IF IsAdv(f) THEN f.advType + 64 * f.txAdd ELSE 2
Synchronisation(f) ==
  f.accessAddress \o (IF f.phy = PHY_CODED THEN <<f.ci>> ELSE <<>>) \o <<AirHeader(f)>>

(* A packet counter has two bytes; the length of a packet has one byte in  *)
(* version 1, so that its frames are shorter.                              *)
Byte == 0..255
CounterValues == 0..(256 * 256 - 1)
ShortFrame(f) == Len(AirPayload(f)) + BLE_HEADER_LENGTH + 11 \in Byte

AddressOK(address) == address \in Seq(Byte) /\ Len(address) \in {0, 6}
Structure == [type : Byte, value : {v \in Seq(Byte) : Len(v) < 255}]

FrameOK(f) == /\ f.accessAddress \in Seq(Byte) /\ Len(f.accessAddress) = 4
              /\ IsAdv(f) => f.accessAddress = ADV_ACCESS_ADDRESS
              /\ f.advType \in -1..15 /\ f.txAdd \in {0, 1} /\ f.header \in BOOLEAN
              /\ f.phy \in {PHY_1M, PHY_2M, PHY_CODED}
              /\ f.ci \in {PHY_CODED_CI_S8, PHY_CODED_CI_S2}
              /\ AddressOK(f.advA) /\ AddressOK(f.targetA)
              /\ f.adi \in Seq(Byte) /\ Len(f.adi) \in {0, 2}
              /\ f.advType \in {0, 1, 2, 4, 6} => Len(f.advA) = 6
              /\ f.advType \in {0, 2, 4, 6} => Len(f.targetA) = 0
              /\ f.advType = 1 => Len(f.targetA) = 6
              /\ f.data \in Seq(Structure)
              /\ Len(AirPayload(f)) \in Byte
              /\ PROTOVER_V1 \in ProtoVers => ShortFrame(f)
              /\ f.crc \in Seq(Byte) /\ Len(f.crc) = 3

OtherOK(o) == /\ o.id \in Byte \ AirPackets
              /\ o.payload \in Seq(Byte) /\ Len(o.payload) \in Byte

ASSUME PacketsAssumption == /\ \A f \in Frames : FrameOK(f)
                            /\ \A o \in Others : OtherOK(o)

AirBytes(f) == Synchronisation(f) \o <<Len(AirPayload(f))>> \o AirPayload(f) \o f.crc

(* Microseconds: preamble, access address, header, payload and CRC, each   *)
(* byte at the rate of its PHY.                                            *)
AirTime(f) ==
  LET pdu == 2 + Len(AirPayload(f)) + 3
  IN  CASE f.phy = PHY_1M -> 8 * (1 + 4 + pdu)
        [] f.phy = PHY_2M -> 4 * (2 + 4 + pdu)
        [] f.phy = PHY_CODED /\ f.ci = PHY_CODED_CI_S8 -> 80 + 256 + 16 + 24 + 64 * pdu + 24
        [] f.phy = PHY_CODED /\ f.ci = PHY_CODED_CI_S2 -> 80 + 256 + 16 + 24 + 16 * pdu + 6

(* What the dongle sends.                                                  *)
Envelope(id, payload) ==
  (IF protover = PROTOVER_V1 THEN <<HEADER_LENGTH, Len(payload)>>
   ELSE ToLittleEndian(Len(payload), 2))
  \o <<protover>> \o ToLittleEndian(counter, 2) \o <<id>> \o payload

PacketId(f) == IF protover = PROTOVER_V3 /\ IsAdv(f) THEN EVENT_PACKET_ADV_PDU
               ELSE EVENT_PACKET_DATA_PDU

FrameList(f, crcOK) ==
  Envelope(PacketId(f),
    <<BLE_HEADER_LENGTH, (IF crcOK THEN 1 ELSE 0) + 16 * f.phy, 37, 60, 0, 0>>
    \o ToLittleEndian(clock, TimestampSize)
    \o Synchronisation(f) \o <<Len(AirPayload(f)), 0>> \o AirPayload(f) \o f.crc)

-----------------------------------------------------------------------------
(* The reader.                                                             *)

GetPacketTime(p) ==
  LET ble_payload_length == lastReceivedPacket.payloadLength - BLE_HEADER_LENGTH
      ci == At(p.packetList, BLEPACKET_POS + 4)
      fec2_block_len == ble_payload_length - 4 - 1
      fec1_block_us == 80 + 256 + 16 + 24
  IN  CASE p.phy = PHY_1M -> 8 * (1 + ble_payload_length)
        [] p.phy = PHY_2M -> 4 * (2 + ble_payload_length)
        [] p.phy = PHY_CODED /\ ci = PHY_CODED_CI_S8 -> fec1_block_us + 64 * fec2_block_len + 24
        [] p.phy = PHY_CODED /\ ci = PHY_CODED_CI_S2 -> fec1_block_us + 16 * fec2_block_len + 6
        [] OTHER -> 0

(* From the end of the packet before to the start of this one.             *)
TimeDelta(p) ==
  IF lastReceivedTimestampPacket = None THEN 0
  ELSE p.timestamp - (lastReceivedTimestampPacket.timestamp
                      + GetPacketTime(lastReceivedTimestampPacket))

ConvertPacketListProtoVer2(p) ==
  LET id == IF p.id = EVENT_PACKET_ADV_PDU THEN EVENT_PACKET_DATA_PDU ELSE p.id
      renamed == [p.packetList EXCEPT ![PROTOVER_POS + 1] = 2, ![ID_POS + 1] = id]
  IN  IF id # EVENT_PACKET_DATA_PDU THEN renamed
      ELSE Overwrite(renamed, TIMESTAMP_POS, ToLittleEndian(TimeDelta(p), TimestampSize))

Converted(p) == supportedProtocolVersion = PROTOVER_V2 /\ p.protover > PROTOVER_V2

HandlePacketCompatibility(p) ==
  IF Converted(p)
  THEN [p EXCEPT !.packetList = ConvertPacketListProtoVer2(p)]
  ELSE p

\* Mutant: a packet whose CRC was wrong is not remembered.
HandlePacketHistoryOK(p) ==
  /\ lastReceivedPacket' = p
  /\ lastReceivedTimestampPacket' = IF p.id \in AirPackets /\ p.OK THEN p
                                    ELSE lastReceivedTimestampPacket

HandlePacketHistory(p) ==
  /\ lastReceivedPacket' = p
  /\ lastReceivedTimestampPacket' = IF p.id \in AirPackets THEN p
                                    ELSE lastReceivedTimestampPacket

HasTime(p) == "timestamp" \in DOMAIN p

(* The conversion has no bytes to write the difference of the times to, or *)
(* the packet before has no timestamp: nothing catches the IndexError or   *)
(* AttributeError in the thread that calls getPacket (_continuouslyPipe).  *)
Raises(p) ==
  /\ Converted(p)
  /\ p.id \in AirPackets
  /\ \/ Len(p.packetList) < BLEPACKET_POS
     \/ lastReceivedTimestampPacket # None /\ ~HasTime(lastReceivedTimestampPacket)

(* The history of what getPacket is given and returns.                     *)
Record(what, loss) ==
  /\ heard' = what
  /\ heardBefore' = IF packet.valid /\ packet.id \in AirPackets THEN heard ELSE heardBefore
  /\ adjacent' = (lastReceivedPacket # None /\ lastReceivedPacket.id \in AirPackets)
  /\ damaged' = loss

(* getPacket, from the list the framing returns to the packet.             *)
GetPacket(list, what, loss) ==
  LET p == ReadPacket(list)
  IN  /\ UNCHANGED supportedProtocolVersion
      /\ \/ /\ ~p.valid
            /\ packet' = p
            /\ Record(what, loss)
            /\ UNCHANGED <<lastReceivedPacket, lastReceivedTimestampPacket, ended>>
         \/ /\ p.valid /\ Raises(p)
            /\ ended' = TRUE
            /\ UNCHANGED <<packet, lastReceivedPacket, lastReceivedTimestampPacket, history>>
         \/ /\ p.valid /\ ~Raises(p)
            /\ packet' = HandlePacketCompatibility(p)
            /\ HandlePacketHistory(packet')
            /\ Record(what, loss)
            /\ UNCHANGED ended

-----------------------------------------------------------------------------
(* The dongle and the line.                                                *)
Sent(time) == /\ counter < MaxPackets
              /\ ~ended
              /\ counter' = counter + 1
              /\ clock' = (clock + time + Gap) % TimerPeriod
              /\ UNCHANGED protover

GetFrame(f, crcOK) ==
  /\ Sent(AirTime(f))
  /\ GetPacket(FrameList(f, crcOK), [frame |-> f, start |-> clock], FALSE)

GetOther(o) == /\ Sent(0)
               /\ GetPacket(Envelope(o.id, o.payload), <<>>, FALSE)

(* A byte is lost between SLIP_START and SLIP_END, none of them an escape. *)
GetDamaged(list) == \E i \in 0..(Len(list) - 1) : GetPacket(Without(list, i), <<>>, TRUE)

GetDamagedFrame(f) == Sent(AirTime(f)) /\ GetDamaged(FrameList(f, TRUE))
GetDamagedOther(o) == Sent(0) /\ GetDamaged(Envelope(o.id, o.payload))

Lose(f) == Sent(AirTime(f)) /\ UNCHANGED <<reader, history>>

Next == \/ \E f \in Frames : \/ \E crcOK \in BOOLEAN : GetFrame(f, crcOK)
                             \/ GetDamagedFrame(f)
                             \/ Lose(f)
        \/ \E o \in Others : GetOther(o) \/ GetDamagedOther(o)

Spec == Init /\ [][Next]_vars
-----------------------------------------------------------------------------
(* Types.                                                                  *)
TypeOK == /\ packet.valid => /\ packet.packetList \in Seq(Byte)
                             /\ packet.payloadLength \in Nat
                             /\ packet.packetCounter \in CounterValues
          /\ lastReceivedTimestampPacket # None =>
               IF HasTime(lastReceivedTimestampPacket)
               THEN lastReceivedTimestampPacket.timestamp \in 0..(TimerPeriod - 1)
               ELSE lastReceivedTimestampPacket.protover = PROTOVER_V1
          /\ clock \in 0..(TimerPeriod - 1)
          /\ counter \in 0..MaxPackets
          /\ adjacent \in BOOLEAN
          /\ damaged \in BOOLEAN
          /\ ended \in BOOLEAN

(* Whoever is given a packet sniffed from the air, whatever its version    *)
(* and PHY and whether its CRC was right, is given the bytes that were on  *)
(* the air, and a length that fits the list, so that validatePacketList    *)
(* would accept it again ("We remove it, and update the payload length in  *)
(* the packet list", readPayload).                                         *)
AirBytesExact ==
  heard # <<>> =>
    /\ packet.valid
    /\ From(packet.packetList, BLEPACKET_POS) = AirBytes(heard.frame)
    /\ ValidatePacketList(packet.packetList)

(* _processBLEPacket may read a timestamp that the packet does not have.   *)
Unprocessed == /\ packet.valid
               /\ packet.id \in AirPackets
               /\ packet.protover >= PROTOVER_V3
               /\ ~HasTime(packet)

(* A list that lost a byte on the line is not taken for a packet, with one *)
(* exception.  If one of the first three bytes is lost, the counter is     *)
(* where the version was; a counter of 1 modulo 256 reads as version 1,    *)
(* and the length fits if the payload is one byte longer than the number   *)
(* of the version (of the first two bytes) or is one byte (of the          *)
(* version).  No sniffed packet is that short, but PING_RESP is in version *)
(* 1 and RESP_TIMESTAMP in version 3.  The sniffer's thread survives it:   *)
(* _processBLEPacket asks no packet of version 1 for its time.  But if the *)
(* list also says it was sniffed it is remembered, and then the next       *)
(* sniffed packet that is converted for a Wireshark of version 2 ends the  *)
(* thread.  Nothing else does.                                             *)
LossDetected ==
  /\ (packet.valid /\ damaged) => /\ packet.protover = PROTOVER_V1
                                  /\ packet.payloadLength \in {0, protover}
  /\ ~Unprocessed
  /\ ended => /\ supportedProtocolVersion = PROTOVER_V2 /\ protover = PROTOVER_V3
              /\ lastReceivedTimestampPacket.protover = PROTOVER_V1

(* What a Wireshark of version 2 is told is the time from the end of the   *)
(* packet before to the start of this one, over overflows of the dongle's  *)
(* clock and packets that were lost, on any PHY, unless a packet without a *)
(* timestamp came in between.                                              *)
DeltaExact ==
  (/\ heard # <<>> /\ heardBefore # <<>> /\ adjacent
   /\ supportedProtocolVersion = PROTOVER_V2 /\ protover = PROTOVER_V3) =>
    ParseLittleEndian(Slice(packet.packetList, TIMESTAMP_POS, BLEPACKET_POS))
      = (heard.start - (heardBefore.start + AirTime(heardBefore.frame))) % TimerPeriod

(* The name the advertiser gives last; the code searches the CRC too.      *)
CrcReadsAsName(f) == f.crc[1] \in {1, 2} /\ f.crc[2] \in {8, 9}
AdvertisedName(f) ==
  LET names == {i \in 1..Len(f.data) : f.data[i].type \in {8, 9}}
  IN  IF f.advType = 1 THEN Direct
      ELSE IF CrcReadsAsName(f) THEN SubSeq(f.crc, 3, f.crc[1] + 1)
      ELSE IF names = {} THEN <<>>
      ELSE f.data[CHOOSE i \in names : \A j \in names : j <= i].value

(* A device is listed under the address and the name it advertises, and    *)
(* never under another one's; the advertisement is passed over only if it  *)
(* is an extended one that names a target or has no extended header.       *)
(* Without that header the first byte of its data is taken for flags and   *)
(* may yield an address.                                                   *)
(* Types 3 and 5 are requests, the types above 7 are reserved.             *)
DeviceExact ==
  (heard # <<>> /\ packet.OK /\ heard.frame.advType \in {0, 1, 2, 4, 6, 7}) =>
    LET f == heard.frame
    IN  IF packet.blePacket = None
        THEN f.advType = 7 /\ (f.targetA # <<>> \/ ~f.header)
        ELSE /\ packet.blePacket.type = PACKET_TYPE_ADVERTISING
             /\ packet.blePacket.name = AdvertisedName(f)
             /\ (f.advType = 7 => f.header) =>
                  packet.blePacket.advAddress
                    = IF f.advA = <<>> THEN None ELSE f.advA \o <<f.txAdd>>
=============================================================================
