--------------------------- MODULE MCPacketReader ---------------------------
(* Frames on every PHY, with and without name, target, extended header and *)
(* a CRC that reads as a name; a CONNECT event, a RESP_TIMESTAMP whose     *)
(* payload reads as a sniffed packet's header when a byte before it is     *)
(* lost, a PING_RESP and an event of one byte; timestamps of two bytes,    *)
(* from zero and from just before their overflow.  Three packets: one      *)
(* before, one between and one whose time is counted from the first.       *)
EXTENDS PacketReader

A1 == <<196, 1, 2, 3, 4, 5>>
A2 == <<17, 18, 19, 20, 21, 22>>
Name == [type |-> 9, value |-> <<65, 66>>]
Short == [type |-> 8, value |-> <<67>>]
Flags == [type |-> 1, value |-> <<6>>]

Frame(advType, phy, ci, advA, targetA, adi, data, crc) ==
  [accessAddress |-> IF advType = -1 THEN <<1, 2, 3, 4>> ELSE ADV_ACCESS_ADDRESS,
   advType |-> advType, phy |-> phy, ci |-> ci, txAdd |-> IF advA = A1 THEN 1 ELSE 0,
   advA |-> advA, targetA |-> targetA, adi |-> adi, header |-> advA # <<>> \/ adi # <<>>,
   data |-> data, crc |-> crc]

MCFrames == {
  Frame(0, 0, 0, A1, <<>>, <<>>, <<Flags, Name>>, <<7, 9, 9>>),
  Frame(2, 0, 0, A2, <<>>, <<>>, <<Flags>>, <<2, 9, 90>>),
  Frame(1, 0, 0, A1, A2, <<>>, <<>>, <<1, 8, 0>>),
  Frame(3, 0, 0, A2, A1, <<>>, <<>>, <<0, 0, 0>>),
  Frame(4, 0, 0, A1, <<>>, <<>>, <<Short, Flags>>, <<1, 9, 77>>),
  Frame(7, 1, 0, A1, <<>>, <<0, 1>>, <<Short, Name>>, <<0, 9, 9>>),
  Frame(7, 2, 0, A2, A1, <<0, 1>>, <<Name>>, <<1, 2, 3>>),
  Frame(7, 2, 1, A1, A2, <<>>, <<>>, <<1, 2, 3>>),
  Frame(7, 0, 0, <<>>, <<>>, <<>>, <<Name>>, <<1, 2, 3>>),
  Frame(-1, 1, 0, <<>>, <<>>, <<>>, <<>>, <<1, 2, 3>>) }

MCOthers == {[id |-> 5, payload |-> <<>>], [id |-> 30, payload |-> <<2, 8, 1, 0>>],
             [id |-> 14, payload |-> <<9, 4>>], [id |-> 1, payload |-> <<9>>]}
MCProtoVers == 1..3
MCClocks == {0, 65500}
=============================================================================
