------------------------------- MODULE Packet -------------------------------
(***************************************************************************)
(* SnifferAPI/Packet.py, Packet and BlePacket: what is made of a list of   *)
(* bytes taken from the line.  The positions are the code's; lists are     *)
(* indexed from zero by At and Slice, as in Python.  An IndexError or an   *)
(* AttributeError the code catches is a disjunct of its own (Unreadable,   *)
(* InvalidPacket); channel, signal strength, event counter and the fields  *)
(* of a data header are left out.                                          *)
(***************************************************************************)
EXTENDS Integers, Sequences

CONSTANT TimestampSize     (* bytes of a timestamp: 4                      *)

ASSUME PacketAssumption == TimestampSize \in 1..4

At(list, i) == list[i + 1]
Slice(list, i, j) == SubSeq(list, i + 1, IF j < Len(list) THEN j ELSE Len(list))
From(list, i) == Slice(list, i, Len(list))
Bit(byte, k) == (byte \div 2^k) % 2
Reversed(list) == [i \in 1..Len(list) |-> list[Len(list) + 1 - i]]
Without(list, i) == Slice(list, 0, i) \o From(list, i + 1)      (* pop(i)  *)
Overwrite(list, i, bytes) == Slice(list, 0, i) \o bytes \o From(list, i + Len(bytes))

ParseLittleEndian(list) ==
  LET total[i \in 0..Len(list)] ==
        IF i = 0 THEN 0 ELSE total[i - 1] + list[i] * 256^(i - 1)
  IN  total[Len(list)]

ToLittleEndian(value, size) == [i \in 1..size |-> (value \div 256^(i - 1)) % 256]

PROTOVER_V1 == 1
PROTOVER_V2 == 2
PROTOVER_V3 == 3
EVENT_PACKET_ADV_PDU == 2
EVENT_PACKET_DATA_PDU == 6
AirPackets == {EVENT_PACKET_ADV_PDU, EVENT_PACKET_DATA_PDU}
PHY_1M == 0
PHY_2M == 1
PHY_CODED == 2
PHY_CODED_CI_S8 == 0
PHY_CODED_CI_S2 == 1
PACKET_TYPE_ADVERTISING == 1
PACKET_TYPE_DATA == 2
ADV_ACCESS_ADDRESS == <<214, 190, 137, 142>>

PAYLOAD_LEN_POS == 0
PAYLOAD_LEN_POS_V1 == 1
PROTOVER_POS == 2
PACKETCOUNTER_POS == 3
ID_POS == 5
BLE_HEADER_LEN_POS == 6
FLAGS_POS == 7
RSSI_POS == 9
TIMESTAMP_POS == 12
BLEPACKET_POS == TIMESTAMP_POS + TimestampSize
HEADER_LENGTH == 6
BLE_HEADER_LENGTH == 6 + TimestampSize          (* 10                      *)

-----------------------------------------------------------------------------
(* BlePacket: the packet as it was on the air, from the access address on. *)

None == <<>>
Direct == <<"[ADV_DIRECT_IND]">>

FormatEnd(phy) == IF phy = PHY_CODED THEN 5 ELSE 4
AdvType(list, h) == At(list, h) % 16
TxAddrType(list, h) == Bit(At(list, h), 6)
RxAddrType(list, h) == (At(list, h) * 128) % 2

(* The attribute rxAddrType is missing, or a byte is (h is the offset of   *)
(* the header, o = h + 2 that of what follows the length).                 *)
Unreadable(list, type, h) ==
  \/ Len(list) <= h + 1
  \/ /\ type = PACKET_TYPE_ADVERTISING
     /\ AdvType(list, h) = 7
     /\ \/ Len(list) <= h + 3
        \/ Bit(At(list, h + 3), 1) = 1 /\ Bit(At(list, h + 2), 1) = 0

Address(list, offset, addrType) ==
  Reversed(Slice(list, offset, offset + 6)) \o <<addrType>>

AdvAddress(list, h) ==
  LET advType == AdvType(list, h)
      o == h + 2
  IN  IF advType \in {0, 1, 2, 4, 6} THEN Address(list, o, TxAddrType(list, h))
      ELSE IF advType \in {3, 5} THEN Address(list, o + 6, RxAddrType(list, h))
      ELSE IF advType = 7 /\ Bit(At(list, o + 1), 0) = 1
           THEN Address(list, o + 2, TxAddrType(list, h))
      ELSE None

ScanAddress(list, h) ==
  LET advType == AdvType(list, h)
      o == h + 2
  IN  IF advType = 1 THEN Address(list, o + 6, RxAddrType(list, h))
      ELSE IF advType \in {3, 5} THEN Address(list, o, TxAddrType(list, h))
      ELSE IF advType = 7 /\ Bit(At(list, o + 1), 1) = 1
           THEN Address(list, o + 2 + 6 * Bit(At(list, o + 1), 0), RxAddrType(list, h))
      ELSE None

\* Mutant: the byte of the extended header's length is not skipped.
DataOffsetShort(list, h) ==
  LET o == h + 2
  IN  CASE AdvType(list, h) \in {0, 2, 4, 6} -> o + 6
        [] AdvType(list, h) \in {1, 3, 5} -> o + 12
        [] AdvType(list, h) = 7 -> o + (At(list, o) % 64)
        [] OTHER -> o

(* Where extractAddresses leaves the offset.                               *)
DataOffset(list, h) ==
  LET o == h + 2
  IN  CASE AdvType(list, h) \in {0, 2, 4, 6} -> o + 6
        [] AdvType(list, h) \in {1, 3, 5} -> o + 12
        [] AdvType(list, h) = 7 -> o + 1 + (At(list, o) % 64)
        [] OTHER -> o

(* The last name among the structures [length, type, ...] from offset on,  *)
(* up to the end of the list, the CRC included; <<>> if there is none.     *)
ExtractName(list, offset) ==
  LET Length(i) == At(list, i)
      End(i) == i + Length(i) + 1
      IsName(i) == At(list, i + 1) \in {8, 9}
      last[i \in 0..Len(list)] ==       (* offset of the last name, or -1  *)
        IF i = Len(list) \/ Length(i) = 0 \/ End(i) > Len(list) THEN -1
        ELSE IF last[End(i)] # -1 THEN last[End(i)]
        ELSE IF IsName(i) THEN i ELSE -1
  IN  IF offset >= Len(list) \/ last[offset] = -1 THEN <<>>
      ELSE Slice(list, last[offset] + 2, End(last[offset]))

BlePacket(type, list, phy) ==
  LET h == FormatEnd(phy)
  IN  IF Unreadable(list, type, h) THEN None
      ELSE IF type = PACKET_TYPE_DATA THEN [type |-> type]
      ELSE [type |-> type,
            advType |-> AdvType(list, h),
            advAddress |-> AdvAddress(list, h),
            scanAddress |-> ScanAddress(list, h),
            name |-> IF AdvType(list, h) = 1 THEN Direct
                     ELSE IF AdvType(list, h) \in {0, 2, 4, 6, 7}
                          THEN ExtractName(list, DataOffset(list, h)) ELSE <<>>]

-----------------------------------------------------------------------------
(* Packet: the packet as it came from the dongle.                          *)

InvalidPacket == [valid |-> FALSE, OK |-> FALSE]

PayloadLength(list) ==
  IF At(list, PROTOVER_POS) = PROTOVER_V1 THEN At(list, PAYLOAD_LEN_POS_V1)
  ELSE ParseLittleEndian(Slice(list, PAYLOAD_LEN_POS, PAYLOAD_LEN_POS + 2))

\* Mutant: a list longer than its payload is accepted too.
ValidatePacketListLonger(list) == PayloadLength(list) + HEADER_LENGTH >= Len(list)

ValidatePacketList(list) == PayloadLength(list) + HEADER_LENGTH = Len(list)

(* readFlags                                                               *)
FlagsOK(flags) == Bit(flags, 0) = 1 /\ (Bit(flags, 3) = 1 \/ Bit(flags, 2) = 0)
Phy(flags) == (flags \div 16) % 8

\* Mutant: the coding indicator is not counted.
PaddingPosUncoded(phy) == BLEPACKET_POS + 6

PaddingPos(phy) == BLEPACKET_POS + 6 + (IF phy = PHY_CODED THEN 1 ELSE 0)

WithLength(list, length) ==
  IF At(list, PROTOVER_POS) >= PROTOVER_V2
  THEN Overwrite(list, PAYLOAD_LEN_POS, ToLittleEndian(length, 2))
  ELSE Overwrite(list, PAYLOAD_LEN_POS_V1, <<length>>)

(* The byte after the length, which the hardware adds, is removed.         *)
Unpadded(list, phy) ==
  WithLength(Without(list, PaddingPos(phy)), PayloadLength(list) - 1)

PacketType(list, id) ==
  IF \/ At(list, PROTOVER_POS) >= PROTOVER_V3 /\ id = EVENT_PACKET_ADV_PDU
     \/ /\ At(list, PROTOVER_POS) < PROTOVER_V3
        /\ Slice(list, BLEPACKET_POS, BLEPACKET_POS + 4) = ADV_ACCESS_ADDRESS
  THEN PACKET_TYPE_ADVERTISING ELSE PACKET_TYPE_DATA

PacketCounter(list) ==
  ParseLittleEndian(Slice(list, PACKETCOUNTER_POS, PACKETCOUNTER_POS + 2))

Timestamp(list) == ParseLittleEndian(Slice(list, TIMESTAMP_POS, BLEPACKET_POS))

(* What every valid packet has; a packet that is cut short is "malformed": *)
(* it stays valid.                                                         *)
Common(list) ==
  [valid |-> TRUE, OK |-> FALSE, protover |-> At(list, PROTOVER_POS),
   packetCounter |-> PacketCounter(list), id |-> At(list, ID_POS),
   payloadLength |-> PayloadLength(list), packetList |-> list]

Timed(list) ==
  [valid |-> TRUE, OK |-> FALSE, protover |-> At(list, PROTOVER_POS),
   packetCounter |-> PacketCounter(list), id |-> At(list, ID_POS),
   payloadLength |-> PayloadLength(list), packetList |-> list,
   timestamp |-> Timestamp(list), phy |-> Phy(At(list, FLAGS_POS))]

AirPacket(list) ==
  LET phy == Phy(At(list, FLAGS_POS))
      OK == FlagsOK(At(list, FLAGS_POS))
      unpadded == Unpadded(list, phy)
      type == PacketType(unpadded, At(list, ID_POS))
  IN  [valid |-> TRUE, OK |-> OK, protover |-> At(list, PROTOVER_POS),
       packetCounter |-> PacketCounter(list), id |-> At(list, ID_POS),
       payloadLength |-> PayloadLength(list) - 1, packetList |-> unpadded,
       timestamp |-> Timestamp(list), phy |-> phy,
       blePacket |-> IF OK THEN BlePacket(type, From(unpadded, BLEPACKET_POS), phy)
                     ELSE None]

ReadPacket(list) ==
  IF \/ Len(list) <= ID_POS
     \/ At(list, PROTOVER_POS) > PROTOVER_V3
     \/ ~ValidatePacketList(list)
  THEN InvalidPacket
  ELSE IF At(list, ID_POS) \notin AirPackets \/ Len(list) = HEADER_LENGTH
       THEN Common(list)
  ELSE IF At(list, BLE_HEADER_LEN_POS) # BLE_HEADER_LENGTH THEN InvalidPacket
  ELSE IF Len(list) <= RSSI_POS THEN Common(list)
  ELSE IF Len(list) <= PaddingPos(Phy(At(list, FLAGS_POS))) THEN Timed(list)
  ELSE AirPacket(list)
=============================================================================
