------------------------- MODULE PacketReaderProofs -------------------------
(***************************************************************************)
(* Proofs about PacketReader for any frames and other packets, in any      *)
(* version of the protocol, and any number of them.                        *)
(***************************************************************************)
EXTENDS PacketReader, SequenceTheorems, WellFoundedInduction, TLAPS

-----------------------------------------------------------------------------
(* Lists of bytes: numbers of two bytes, slices, and a list without one.   *)
LEMMA Powers ==
  /\ 256^0 = 1 /\ 256^1 = 256 /\ 256^2 = 65536 /\ 256^3 = 16777216 /\ 256^4 = 4294967296
  OBVIOUS

LEMMA ParseSome ==
  ASSUME NEW list, Len(list) \in 1..4, \A k \in 1..Len(list) : list[k] \in Int
  PROVE  ParseLittleEndian(list)
           = list[1] + (IF Len(list) > 1 THEN 256 * list[2] ELSE 0)
             + (IF Len(list) > 2 THEN 65536 * list[3] ELSE 0)
             + (IF Len(list) > 3 THEN 16777216 * list[4] ELSE 0)
<1>n. PICK n \in 1..4 : n = Len(list)
  OBVIOUS
<1>int. /\ list[1] \in Int /\ (n > 1 => list[2] \in Int)
        /\ (n > 2 => list[3] \in Int) /\ (n > 3 => list[4] \in Int)
  <2>1. \A k \in 1..n : list[k] \in Int
    BY <1>n
  <2>2. 1 \in 1..n /\ (n > 1 => 2 \in 1..n) /\ (n > 2 => 3 \in 1..n) /\ (n > 3 => 4 \in 1..n)
    BY ONLY n \in 1..4
  <2> QED  BY ONLY <2>1, <2>2
<1> USE <1>int
<1> DEFINE value(f, i) == IF i = 0 THEN 0 ELSE f[i - 1] + list[i] * 256^(i - 1)
           sum1 == list[1]
           sum2 == sum1 + 256 * list[2]
           sum3 == sum2 + 65536 * list[3]
           sum4 == sum3 + 16777216 * list[4]
           sums == [i \in 0..n |-> IF i = 0 THEN 0 ELSE IF i = 1 THEN sum1 ELSE IF i = 2 THEN sum2
                                   ELSE IF i = 3 THEN sum3 ELSE sum4]
           total == CHOOSE f : f = [i \in 0..n |-> value(f, i)]
<1>1. sum1 \in Int /\ (n > 1 => sum2 \in Int) /\ (n > 2 => sum3 \in Int) /\ (n > 3 => sum4 \in Int)
  BY ONLY <1>int, n \in 1..4
<1>2. ASSUME NEW i \in 0..n PROVE sums[i] = value(sums, i)
  <2>0. i \in 0..4 /\ n \in Nat /\ i <= n
    OBVIOUS
  <2>1. CASE i = 0
    BY <2>1
  <2>2. CASE i = 1
    <3>1. i - 1 = 0 /\ sums[0] = 0 /\ sums[1] = sum1
      BY <2>0, <2>2
    <3>2. list[1] * 256^0 = list[1]
      BY Powers
    <3> QED  BY <3>1, <3>2, <2>2
  <2>3. CASE i = 2
    <3>1. i - 1 = 1 /\ sums[1] = sum1 /\ sums[2] = sum2
      BY <2>0, <2>3
    <3>2. list[2] * 256^1 = 256 * list[2]
      BY <2>0, <2>3, Powers
    <3> QED  BY <3>1, <3>2, <2>3
  <2>4. CASE i = 3
    <3>1. i - 1 = 2 /\ sums[2] = sum2 /\ sums[3] = sum3
      BY <2>0, <2>4
    <3>2. list[3] * 256^2 = 65536 * list[3]
      BY <2>0, <2>4, Powers
    <3> QED  BY <3>1, <3>2, <2>4
  <2>5. CASE i = 4
    <3>1. i - 1 = 3 /\ sums[3] = sum3 /\ sums[4] = sum4
      BY <2>0, <2>5
    <3>2. list[4] * 256^3 = 16777216 * list[4]
      BY <2>0, <2>5, Powers
    <3> QED  BY <3>1, <3>2, <2>5
  <2> QED  BY <2>0, <2>1, <2>2, <2>3, <2>4, <2>5
<1>3. sums = [i \in 0..n |-> sums[i]]
  OBVIOUS
<1> HIDE DEF sums
<1>4. total = [i \in 0..n |-> value(total, i)]
  <2>1. sums = [i \in 0..n |-> value(sums, i)]
    BY ONLY ZenonT(60), <1>2, <1>3
  <2> QED  BY ONLY ZenonT(60), <2>1
<1>5. ParseLittleEndian(list) = total[n]
  BY <1>n DEF ParseLittleEndian
<1> HIDE DEF total
<1>6. total[0] = 0
  BY <1>4
<1>7. total[1] = list[1]
  <2>0. 1 \in 0..n /\ 1 # 0
    OBVIOUS
  <2>1. total[1] = total[1 - 1] + list[1] * 256^(1 - 1)
    BY ONLY <1>4, <2>0
  <2> QED  BY <2>1, <1>6, Powers
<1>8. n > 1 => total[2] = sum2
  <2> SUFFICES ASSUME n > 1 PROVE total[2] = sum2
    OBVIOUS
  <2>0. 2 \in 0..n /\ 2 # 0
    OBVIOUS
  <2>1. total[2] = total[2 - 1] + list[2] * 256^(2 - 1)
    BY ONLY <1>4, <2>0
  <2> QED  BY <2>1, <1>7, Powers
<1>9. n > 2 => total[3] = sum3
  <2> SUFFICES ASSUME n > 2 PROVE total[3] = sum3
    OBVIOUS
  <2>0. 3 \in 0..n /\ 3 # 0
    OBVIOUS
  <2>1. total[3] = total[3 - 1] + list[3] * 256^(3 - 1)
    BY ONLY ZenonT(60), <1>4, <2>0
  <2>2. list[3] * 256^2 = 65536 * list[3]
    BY Powers
  <2> QED  BY <2>1, <2>2, <1>8
<1>10. n > 3 => total[4] = sum4
  <2> SUFFICES ASSUME n > 3 PROVE total[4] = sum4
    OBVIOUS
  <2>0. 4 \in 0..n /\ 4 # 0
    OBVIOUS
  <2>1. total[4] = total[4 - 1] + list[4] * 256^(4 - 1)
    BY ONLY <1>4, <2>0
  <2>2. list[4] * 256^3 = 16777216 * list[4]
    BY Powers
  <2> QED  BY <2>1, <2>2, <1>9
<1>11. CASE n = 1
  BY <1>n, <1>1, <1>5, <1>7, <1>11
<1>12. CASE n = 2
  BY <1>n, <1>1, <1>5, <1>8, <1>12
<1>13. CASE n = 3
  BY <1>n, <1>1, <1>5, <1>9, <1>13
<1>14. CASE n = 4
  BY <1>n, <1>1, <1>5, <1>10, <1>14
<1> QED  BY <1>11, <1>12, <1>13, <1>14

LEMMA ParseTwo ==
  ASSUME NEW list, Len(list) = 2, list[1] \in Int, list[2] \in Int
  PROVE  ParseLittleEndian(list) = list[1] + 256 * list[2]
<1>1. /\ Len(list) \in 1..4 /\ \A k \in 1..Len(list) : list[k] \in Int
  OBVIOUS
<1>2. ParseLittleEndian(list)
        = list[1] + (IF Len(list) > 1 THEN 256 * list[2] ELSE 0)
          + (IF Len(list) > 2 THEN 65536 * list[3] ELSE 0)
          + (IF Len(list) > 3 THEN 16777216 * list[4] ELSE 0)
  BY ONLY <1>1, ParseSome
<1> QED  BY <1>2

LEMMA ByteIn ==
  ASSUME NEW list \in Seq(Byte), NEW k \in 1..Len(list)
  PROVE  list[k] \in Byte /\ list[k] \in Nat /\ list[k] <= 255
<1>1. \A b \in Byte : b \in Nat /\ b <= 255
  BY DEF Byte
<1> QED  BY <1>1

LEMMA ToTwo ==
  ASSUME NEW v \in Nat
  PROVE  /\ ToLittleEndian(v, 2) \in Seq(Byte) /\ Len(ToLittleEndian(v, 2)) = 2
         /\ ToLittleEndian(v, 2)[1] = v % 256
         /\ ToLittleEndian(v, 2)[2] = (v \div 256) % 256
<1>1. 256^0 = 1 /\ 256^1 = 256
  OBVIOUS
<1>2. ASSUME NEW i \in 1..2
      PROVE  (v \div 256^(i - 1)) % 256 = (IF i = 1 THEN v % 256 ELSE (v \div 256) % 256)
  <2>1. CASE i = 1
    <3>1. i - 1 = 0 /\ v \div 1 = v
      BY <2>1
    <3> QED  BY <3>1, <2>1, <1>1
  <2>2. CASE i = 2
    <3>1. i - 1 = 1
      BY <2>2
    <3> QED  BY <3>1, <2>2, <1>1
  <2> QED  BY <2>1, <2>2
<1>3. ToLittleEndian(v, 2) = [i \in 1..2 |-> IF i = 1 THEN v % 256 ELSE (v \div 256) % 256]
  BY <1>2 DEF ToLittleEndian
<1>4. v % 256 \in Byte /\ (v \div 256) % 256 \in Byte
  BY DEF Byte
<1>5. PICK a, b \in Byte : a = v % 256 /\ b = (v \div 256) % 256
  BY <1>4
<1>6. ToLittleEndian(v, 2) = <<a, b>>
  BY <1>3, <1>5
<1>7. /\ <<a, b>> \in Seq(Byte) /\ Len(<<a, b>>) = 2
      /\ <<a, b>>[1] = a /\ <<a, b>>[2] = b
  OBVIOUS
<1> QED  BY ONLY ZenonT(60), <1>5, <1>6, <1>7, a \in Byte, b \in Byte

LEMMA JoinedLists ==
  ASSUME NEW S, NEW a \in Seq(S), NEW b \in Seq(S)
  PROVE  /\ a \o b \in Seq(S) /\ Len(a \o b) = Len(a) + Len(b)
         /\ \A k \in 1..Len(a) : (a \o b)[k] = a[k]
         /\ \A k \in 1..Len(b) : (a \o b)[Len(a) + k] = b[k]
<1>1. /\ a \o b \in Seq(S) /\ Len(a \o b) = Len(a) + Len(b)
      /\ \A k \in 1..(Len(a) + Len(b)) : (a \o b)[k] = IF k <= Len(a) THEN a[k] ELSE b[k - Len(a)]
  BY ConcatProperties
<1>2. Len(a) \in Nat /\ Len(b) \in Nat
  OBVIOUS
<1>3. ASSUME NEW k \in 1..Len(a) PROVE (a \o b)[k] = a[k]
  BY <1>1, <1>2
<1>4. ASSUME NEW k \in 1..Len(b) PROVE (a \o b)[Len(a) + k] = b[k]
  <2>1. /\ Len(a) + k \in 1..(Len(a) + Len(b)) /\ ~(Len(a) + k <= Len(a))
        /\ (Len(a) + k) - Len(a) = k
    BY <1>2
  <2> QED  BY <1>1, <2>1
<1> QED  BY <1>1, <1>3, <1>4

LEMMA SliceList ==
  ASSUME NEW S, NEW list \in Seq(S), NEW i \in Nat, NEW j \in Nat, i <= j, j <= Len(list)
  PROVE  /\ Slice(list, i, j) \in Seq(S) /\ Len(Slice(list, i, j)) = j - i
         /\ \A k \in 1..(j - i) : Slice(list, i, j)[k] = list[i + k]
<1>1. Slice(list, i, j) = SubSeq(list, i + 1, j)
  BY DEF Slice
<1>2. /\ SubSeq(list, i + 1, j) \in Seq(S) /\ Len(SubSeq(list, i + 1, j)) = j - i
      /\ \A k \in 1..(j - i) : SubSeq(list, i + 1, j)[k] = list[i + k]
  OBVIOUS
<1> QED  BY <1>1, <1>2

LEMMA FromList ==
  ASSUME NEW S, NEW list \in Seq(S), NEW i \in 0..Len(list)
  PROVE  /\ From(list, i) \in Seq(S) /\ Len(From(list, i)) = Len(list) - i
         /\ \A k \in 1..(Len(list) - i) : From(list, i)[k] = list[i + k]
<1>1. i \in Nat /\ Len(list) \in Nat /\ i <= Len(list) /\ Len(list) <= Len(list)
  OBVIOUS
<1> QED  BY ONLY <1>1, list \in Seq(S), SliceList DEF From

LEMMA WithoutList ==
  ASSUME NEW S, NEW list \in Seq(S), NEW i \in 0..(Len(list) - 1)
  PROVE  /\ Without(list, i) \in Seq(S) /\ Len(Without(list, i)) = Len(list) - 1
         /\ \A k \in 1..(Len(list) - 1) : Without(list, i)[k] = IF k <= i THEN list[k] ELSE list[k + 1]
<1> DEFINE a == Slice(list, 0, i)
           b == From(list, i + 1)
<1>1. a \in Seq(S) /\ Len(a) = i /\ \A k \in 1..i : a[k] = list[k]
  <2>1. 0 \in Nat /\ i \in Nat /\ 0 <= i /\ i <= Len(list)
    OBVIOUS
  <2>2. a \in Seq(S) /\ Len(a) = i - 0 /\ \A k \in 1..(i - 0) : a[k] = list[0 + k]
    BY ONLY <2>1, list \in Seq(S), SliceList
  <2> QED  BY <2>1, <2>2
<1>2. /\ b \in Seq(S) /\ Len(b) = Len(list) - 1 - i
      /\ \A k \in 1..(Len(list) - 1 - i) : b[k] = list[i + 1 + k]
  <2>1. i + 1 \in 0..Len(list) /\ Len(list) - (i + 1) = Len(list) - 1 - i
    OBVIOUS
  <2> QED  BY <2>1, FromList
<1> HIDE DEF a, b
<1>3. /\ a \o b \in Seq(S) /\ Len(a \o b) = Len(list) - 1
      /\ \A k \in 1..(Len(list) - 1) : (a \o b)[k] = IF k <= i THEN a[k] ELSE b[k - i]
  <2>1. Len(a) + Len(b) = Len(list) - 1
    BY <1>1, <1>2
  <2>2. /\ a \o b \in Seq(S) /\ Len(a \o b) = Len(a) + Len(b)
        /\ \A k \in 1..(Len(a) + Len(b)) : (a \o b)[k] = IF k <= Len(a) THEN a[k] ELSE b[k - Len(a)]
    BY ONLY <1>1, <1>2, ConcatProperties
  <2> QED  BY <1>1, <2>1, <2>2
<1>4. ASSUME NEW k \in 1..(Len(list) - 1)
      PROVE  (a \o b)[k] = IF k <= i THEN list[k] ELSE list[k + 1]
  <2>1. CASE k <= i
    BY <1>1, <1>3, <2>1
  <2>2. CASE k > i
    <3>1. k - i \in 1..(Len(list) - 1 - i) /\ i + 1 + (k - i) = k + 1
      BY <2>2
    <3> QED  BY <1>2, <1>3, <2>2, <3>1
  <2>3. k <= i \/ k > i
    OBVIOUS
  <2> QED  BY <2>1, <2>2, <2>3
<1> QED  BY <1>3, <1>4 DEF Without, a, b
-----------------------------------------------------------------------------
(* What the dongle sends: six bytes, then the payload.                     *)
SmallPayload == {payload \in Seq(Byte) : /\ Len(payload) <= 514
                                         /\ protover = PROTOVER_V1 => Len(payload) \in Byte}

SenderOK == protover \in {PROTOVER_V1, PROTOVER_V2, PROTOVER_V3} /\ counter \in Nat

LengthBytes(payload) ==
  IF protover = PROTOVER_V1 THEN <<HEADER_LENGTH, Len(payload)>> ELSE ToLittleEndian(Len(payload), 2)

LEMMA LengthBytesOf ==
  ASSUME SenderOK, NEW payload \in SmallPayload
  PROVE  /\ LengthBytes(payload) \in Seq(Byte) /\ Len(LengthBytes(payload)) = 2
         /\ LengthBytes(payload)[1] = IF protover = PROTOVER_V1 THEN 6 ELSE Len(payload) % 256
         /\ LengthBytes(payload)[2] = IF protover = PROTOVER_V1 THEN Len(payload)
                                      ELSE (Len(payload) \div 256) % 256
<1>1. Len(payload) \in Nat /\ (protover = PROTOVER_V1 => Len(payload) \in Byte)
  BY DEF SmallPayload
<1>2. CASE protover = PROTOVER_V1
  <2>1. PICK n \in Byte : n = Len(payload)
    BY <1>1, <1>2
  <2>2. LengthBytes(payload) = <<6, n>>
    BY <1>2, <2>1 DEF LengthBytes, HEADER_LENGTH
  <2>3. 6 \in Byte
    BY DEF Byte
  <2>4. <<6, n>> \in Seq(Byte) /\ Len(<<6, n>>) = 2 /\ <<6, n>>[1] = 6 /\ <<6, n>>[2] = n
    BY <2>3
  <2> QED  BY <1>2, <2>1, <2>2, <2>4
<1>3. CASE protover # PROTOVER_V1
  BY <1>1, <1>3, ToTwo DEF LengthBytes
<1> QED  BY <1>2, <1>3

LEMMA EnvelopeList ==
  ASSUME SenderOK, NEW id \in Byte, NEW payload \in SmallPayload
  PROVE  LET e == Envelope(id, payload)
         IN  /\ e \in Seq(Byte) /\ Len(e) = 6 + Len(payload)
             /\ e[1] = LengthBytes(payload)[1] /\ e[2] = LengthBytes(payload)[2]
             /\ e[3] = protover /\ e[4] = counter % 256 /\ e[5] = (counter \div 256) % 256
             /\ e[6] = id /\ \A k \in 1..Len(payload) : e[6 + k] = payload[k]
<1>1. PICK l : l = LengthBytes(payload)
  OBVIOUS
<1>2. PICK v : v = <<protover>>
  OBVIOUS
<1>3. PICK c : c = ToLittleEndian(counter, 2)
  OBVIOUS
<1>4. PICK i : i = <<id>>
  OBVIOUS
<1>5. PICK s : s = l \o v
  OBVIOUS
<1>6. PICK t : t = s \o c
  OBVIOUS
<1>7. PICK u : u = t \o i
  OBVIOUS
<1>8. PICK e : e = u \o payload
  OBVIOUS
<1>9. Envelope(id, payload) = e
  BY <1>1, <1>2, <1>3, <1>4, <1>5, <1>6, <1>7, <1>8 DEF Envelope, LengthBytes
<1>10. l \in Seq(Byte) /\ Len(l) = 2
  BY <1>1, LengthBytesOf
<1>11. v \in Seq(Byte) /\ Len(v) = 1 /\ v[1] = protover
  <2>1. PICK x \in Byte : x = protover
    BY DEF SenderOK, Byte, PROTOVER_V1, PROTOVER_V2, PROTOVER_V3
  <2>2. <<x>> \in Seq(Byte) /\ Len(<<x>>) = 1 /\ <<x>>[1] = x
    OBVIOUS
  <2> QED  BY <1>2, <2>1, <2>2
<1>12. c \in Seq(Byte) /\ Len(c) = 2 /\ c[1] = counter % 256 /\ c[2] = (counter \div 256) % 256
  BY <1>3, ToTwo DEF SenderOK
<1>13. i \in Seq(Byte) /\ Len(i) = 1 /\ i[1] = id
  BY <1>4
<1>14. s \in Seq(Byte) /\ Len(s) = 3 /\ s[1] = l[1] /\ s[2] = l[2] /\ s[3] = v[1]
  BY ONLY SMTT(30), <1>5, <1>10, <1>11, ConcatProperties
<1>15. /\ t \in Seq(Byte) /\ Len(t) = 5 /\ t[1] = s[1] /\ t[2] = s[2] /\ t[3] = s[3]
       /\ t[4] = c[1] /\ t[5] = c[2]
  <2>0. s \in Seq(Byte) /\ c \in Seq(Byte)
    BY ONLY <1>12, <1>14
  <2>1. /\ s \o c \in Seq(Byte) /\ Len(s \o c) = Len(s) + Len(c)
        /\ \A k \in 1..Len(s) : (s \o c)[k] = s[k]
        /\ \A k \in 1..Len(c) : (s \o c)[Len(s) + k] = c[k]
    BY ONLY <2>0, JoinedLists
  <2>2. t[3 + 1] = c[1] /\ t[3 + 2] = c[2]
    BY ONLY <1>6, <1>12, <1>14, <2>1
  <2> QED  BY ONLY <1>6, <1>12, <1>14, <2>1, <2>2
<1>16. /\ u \in Seq(Byte) /\ Len(u) = 6 /\ u[1] = t[1] /\ u[2] = t[2] /\ u[3] = t[3]
       /\ u[4] = t[4] /\ u[5] = t[5] /\ u[6] = i[1]
  <2>0. t \in Seq(Byte) /\ i \in Seq(Byte)
    BY ONLY <1>13, <1>15
  <2>1. /\ t \o i \in Seq(Byte) /\ Len(t \o i) = Len(t) + Len(i)
        /\ \A k \in 1..Len(t) : (t \o i)[k] = t[k]
        /\ \A k \in 1..Len(i) : (t \o i)[Len(t) + k] = i[k]
    BY ONLY <2>0, JoinedLists
  <2>2. u[5 + 1] = i[1]
    BY ONLY <1>7, <1>13, <1>15, <2>1
  <2> QED  BY ONLY <1>7, <1>13, <1>15, <2>1, <2>2
<1>17. payload \in Seq(Byte) /\ Len(payload) \in Nat
  BY DEF SmallPayload
<1>18. /\ e \in Seq(Byte) /\ Len(e) = 6 + Len(payload) /\ e[1] = u[1] /\ e[2] = u[2] /\ e[3] = u[3]
       /\ e[4] = u[4] /\ e[5] = u[5] /\ e[6] = u[6]
       /\ \A k \in 1..Len(payload) : e[6 + k] = payload[k]
  <2>0. u \in Seq(Byte) /\ payload \in Seq(Byte)
    BY ONLY <1>16, <1>17
  <2>1. /\ u \o payload \in Seq(Byte) /\ Len(u \o payload) = Len(u) + Len(payload)
        /\ \A k \in 1..Len(u) : (u \o payload)[k] = u[k]
        /\ \A k \in 1..Len(payload) : (u \o payload)[Len(u) + k] = payload[k]
    BY ONLY <2>0, JoinedLists
  <2> QED  BY ONLY <1>8, <1>16, <1>17, <2>1
<1> QED  BY <1>1, <1>9, <1>11, <1>12, <1>13, <1>14, <1>15, <1>16, <1>18
-----------------------------------------------------------------------------
(* A list that lost one byte.                                              *)
LEMMA PayloadLengthOf ==
  ASSUME NEW list \in Seq(Byte), Len(list) > 2
  PROVE  PayloadLength(list) = IF list[3] = 1 THEN list[2] ELSE list[1] + 256 * list[2]
<1>1. 0 \in Nat /\ 2 \in Nat /\ 0 <= 2 /\ 2 <= Len(list)
  OBVIOUS
<1>2. /\ Slice(list, 0, 2) \in Seq(Byte) /\ Len(Slice(list, 0, 2)) = 2 - 0
      /\ \A k \in 1..(2 - 0) : Slice(list, 0, 2)[k] = list[0 + k]
  BY ONLY <1>1, list \in Seq(Byte), SliceList
<1>3. /\ Len(Slice(list, 0, 2)) = 2 /\ Slice(list, 0, 2)[1] = list[1]
      /\ Slice(list, 0, 2)[2] = list[2]
  BY <1>2
<1>4. list[1] \in Int /\ list[2] \in Int
  <2>1. 1 \in 1..Len(list) /\ 2 \in 1..Len(list)
    OBVIOUS
  <2>2. list[1] \in Nat /\ list[2] \in Nat
    BY ONLY <2>1, list \in Seq(Byte), ByteIn
  <2> QED  BY <2>2
<1>5. ParseLittleEndian(Slice(list, 0, 2)) = list[1] + 256 * list[2]
  BY ONLY <1>3, <1>4, ParseTwo
<1> QED  BY <1>5 DEF PayloadLength, At, PROTOVER_POS, PROTOVER_V1, PAYLOAD_LEN_POS_V1, PAYLOAD_LEN_POS

LEMMA ReadValid ==
  ASSUME NEW list, ReadPacket(list).valid
  PROVE  /\ Len(list) > 5 /\ PayloadLength(list) + 6 = Len(list)
         /\ Len(list) <= 9 => ReadPacket(list) = Common(list)
<1>1. ~InvalidPacket.valid
  BY DEF InvalidPacket
<1> QED  BY <1>1 DEF ReadPacket, ValidatePacketList, ID_POS, HEADER_LENGTH, RSSI_POS

LEMMA DamagedList ==
  ASSUME SenderOK, NEW id \in Byte, NEW payload \in SmallPayload,
         NEW i \in 0..(Len(Envelope(id, payload)) - 1),
         ReadPacket(Without(Envelope(id, payload), i)).valid
  PROVE  LET w == Without(Envelope(id, payload), i)
         IN  w \in Seq(Byte) /\ w[3] = 1 /\ PayloadLength(w) \in {0, protover} /\ Len(w) <= 9
<1>1. PICK e : e = Envelope(id, payload)
  OBVIOUS
<1>2. PICK n \in Nat : n = Len(payload) /\ n <= 514
  BY DEF SmallPayload
<1>3. /\ e \in Seq(Byte) /\ Len(e) = 6 + n
      /\ e[1] = IF protover = 1 THEN 6 ELSE n % 256
      /\ e[2] = IF protover = 1 THEN n ELSE (n \div 256) % 256
      /\ e[3] = protover
  <2>1. /\ e \in Seq(Byte) /\ Len(e) = 6 + Len(payload) /\ e[3] = protover
        /\ e[1] = LengthBytes(payload)[1] /\ e[2] = LengthBytes(payload)[2]
    BY ONLY SenderOK, id \in Byte, payload \in SmallPayload, <1>1, EnvelopeList
  <2>2. /\ LengthBytes(payload)[1] = IF protover = 1 THEN 6 ELSE Len(payload) % 256
        /\ LengthBytes(payload)[2] = IF protover = 1 THEN Len(payload)
                                     ELSE (Len(payload) \div 256) % 256
    BY ONLY SenderOK, payload \in SmallPayload, LengthBytesOf DEF PROTOVER_V1
  <2> QED  BY ONLY <1>2, <2>1, <2>2
<1>4. PICK w : w = Without(e, i)
  OBVIOUS
<1>5. /\ w \in Seq(Byte) /\ Len(w) = 5 + n
      /\ \A k \in 1..(5 + n) : w[k] = IF k <= i THEN e[k] ELSE e[k + 1]
  <2>1. e \in Seq(Byte) /\ i \in 0..(Len(e) - 1) /\ Len(e) - 1 = 5 + n
    BY <1>1, <1>3
  <2> QED  BY ONLY <1>4, <2>1, WithoutList
<1>6. Len(w) > 5 /\ PayloadLength(w) + 6 = 5 + n
  BY <1>1, <1>4, <1>5, ReadValid
<1>7. PayloadLength(w) = IF w[3] = 1 THEN w[2] ELSE w[1] + 256 * w[2]
  <2>1. w \in Seq(Byte) /\ Len(w) > 2
    BY <1>5, <1>6
  <2> QED  BY ONLY <2>1, PayloadLengthOf
<1>8. PICK v \in 1..3 : v = protover
  BY DEF SenderOK, PROTOVER_V1, PROTOVER_V2, PROTOVER_V3
<1>9. PICK a, b, c \in Nat : a = e[1] /\ b = e[2] /\ c = e[4] /\ a <= 255 /\ b <= 255 /\ c <= 255
  <2>1. e \in Seq(Byte) /\ 1 \in 1..Len(e) /\ 2 \in 1..Len(e) /\ 4 \in 1..Len(e)
    BY <1>3
  <2>2. /\ e[1] \in Nat /\ e[1] <= 255 /\ e[2] \in Nat /\ e[2] <= 255
        /\ e[4] \in Nat /\ e[4] <= 255
    BY ONLY <2>1, ByteIn
  <2> QED  BY <2>2
<1>10. /\ w[1] = IF i = 0 THEN b ELSE a
       /\ w[2] = IF i <= 1 THEN v ELSE b
       /\ w[3] = IF i <= 2 THEN c ELSE v
  <2>1. w[1] = (IF 1 <= i THEN e[1] ELSE e[1 + 1]) /\ w[2] = (IF 2 <= i THEN e[2] ELSE e[2 + 1])
        /\ w[3] = (IF 3 <= i THEN e[3] ELSE e[3 + 1])
    BY <1>5
  <2> QED  BY <1>3, <1>8, <1>9, <2>1
<1>11. IF v = 1 THEN a = 6 /\ b = n ELSE n = a + 256 * b
  <2>1. CASE v = 1
    BY <1>3, <1>8, <1>9, <2>1
  <2>2. CASE v # 1
    <3>1. n = (n % 256) + 256 * ((n \div 256) % 256)
      BY <1>2
    <3> QED  BY <1>3, <1>8, <1>9, <2>2, <3>1
  <2> QED  BY <2>1, <2>2
<1>12. PICK x \in Nat : x = w[1]
  BY <1>9, <1>10
<1>13. PICK y \in Nat : y = w[2]
  BY <1>8, <1>9, <1>10
<1>14. PICK z \in Nat : z = w[3]
  BY <1>8, <1>9, <1>10
<1>15. PICK p : p = PayloadLength(w)
  OBVIOUS
<1>16. /\ z = 1 => p = y
       /\ z # 1 => p = x + 256 * y
  BY <1>7, <1>12, <1>13, <1>14, <1>15
<1>17. p \in Nat
  BY <1>16
<1>18. p + 1 = n
  BY <1>6, <1>15, <1>17
<1>19. i \in Nat
  BY <1>1, <1>3
<1>bounds. a <= 255 /\ b <= 255 /\ c <= 255 /\ n <= 514
  BY <1>2, <1>9
<1>20. z = 1 /\ (p = 0 \/ p = v) /\ n <= 4
  <2>1. CASE i = 0
    <3>1. x = b /\ y = v /\ z = c
      BY <1>10, <1>12, <1>13, <1>14, <2>1
    <3>2. CASE v = 1
      BY ONLY <3>1, <3>2, <1>bounds, <1>11, <1>16, <1>17, <1>18
    <3>3. CASE v = 2
      BY ONLY <3>1, <3>3, <1>bounds, <1>11, <1>16, <1>17, <1>18
    <3>4. CASE v = 3
      BY ONLY <3>1, <3>4, <1>bounds, <1>11, <1>16, <1>17, <1>18
    <3> QED  BY <3>2, <3>3, <3>4
  <2>2. CASE i = 1
    <3>1. x = a /\ y = v /\ z = c
      BY <1>10, <1>12, <1>13, <1>14, <2>2
    <3>2. CASE v = 1
      BY ONLY <3>1, <3>2, <1>bounds, <1>11, <1>16, <1>17, <1>18
    <3>3. CASE v = 2
      BY ONLY <3>1, <3>3, <1>bounds, <1>11, <1>16, <1>17, <1>18
    <3>4. CASE v = 3
      BY ONLY <3>1, <3>4, <1>bounds, <1>11, <1>16, <1>17, <1>18
    <3> QED  BY <3>2, <3>3, <3>4
  <2>3. CASE i = 2
    <3>1. x = a /\ y = b /\ z = c
      BY <1>10, <1>12, <1>13, <1>14, <2>3
    <3>2. CASE v = 1
      BY ONLY <3>1, <3>2, <1>bounds, <1>11, <1>16, <1>17, <1>18
    <3>3. CASE v # 1 /\ z # 1
      BY ONLY <3>1, <3>3, <1>bounds, <1>11, <1>16, <1>17, <1>18
    <3>4. CASE v # 1 /\ z = 1
      BY ONLY <3>1, <3>4, <1>bounds, <1>11, <1>16, <1>17, <1>18
    <3> QED  BY <3>2, <3>3, <3>4
  <2>4. CASE i > 2
    <3>1. x = a /\ y = b /\ z = v
      BY <1>10, <1>12, <1>13, <1>14, <2>4
    <3>2. CASE v = 1
      BY ONLY <3>1, <3>2, <1>bounds, <1>11, <1>16, <1>17, <1>18
    <3>3. CASE v # 1
      BY ONLY <3>1, <3>3, <1>bounds, <1>11, <1>16, <1>17, <1>18
    <3> QED  BY <3>2, <3>3
  <2> QED  BY <1>19, <2>1, <2>2, <2>3, <2>4
<1>21. w[3] = 1 /\ PayloadLength(w) \in {0, protover} /\ Len(w) <= 9
  BY <1>5, <1>8, <1>14, <1>15, <1>20
<1> QED  BY <1>1, <1>4, <1>5, <1>21
-----------------------------------------------------------------------------
(* Timestamps: numbers of up to four bytes.                                *)
LEMMA Period ==
  /\ TimerPeriod \in Nat /\ TimerPeriod > 0
  /\ TimestampSize = 1 => TimerPeriod = 256
  /\ TimestampSize = 2 => TimerPeriod = 65536
  /\ TimestampSize = 3 => TimerPeriod = 16777216
  /\ TimestampSize = 4 => TimerPeriod = 4294967296
  /\ TimestampSize \in {1, 2, 3, 4}
<1>0. TimestampSize \in {1, 2, 3, 4}
  BY PacketAssumption
<1>1. CASE TimestampSize = 1
  BY <1>1, Powers DEF TimerPeriod
<1>2. CASE TimestampSize = 2
  BY <1>2, Powers DEF TimerPeriod
<1>3. CASE TimestampSize = 3
  BY <1>3, Powers DEF TimerPeriod
<1>4. CASE TimestampSize = 4
  BY <1>4, Powers DEF TimerPeriod
<1> QED  BY <1>0, <1>1, <1>2, <1>3, <1>4

HasDigits(v) == \E a, b, c, d \in Byte :
                   /\ a = v % 256 /\ b = (v \div 256) % 256
                   /\ c = (v \div 65536) % 256 /\ d = (v \div 16777216) % 256
                   /\ v % 65536 = a + 256 * b
                   /\ v % 16777216 = a + 256 * b + 65536 * c
                   /\ v % 4294967296 = a + 256 * b + 65536 * c + 16777216 * d

LEMMA Digits ==
  ASSUME NEW v \in Int
  PROVE  HasDigits(v)
<1>1. /\ v % 256 \in Byte /\ (v \div 256) % 256 \in Byte
      /\ (v \div 65536) % 256 \in Byte /\ (v \div 16777216) % 256 \in Byte
  BY DEF Byte
<1>2. PICK a, b, c, d \in Byte : /\ a = v % 256 /\ b = (v \div 256) % 256
                                 /\ c = (v \div 65536) % 256 /\ d = (v \div 16777216) % 256
  BY ONLY <1>1
<1>3. v % 65536 = (v % 256) + 256 * ((v \div 256) % 256)
  OBVIOUS
<1>4. v % 16777216 = (v % 65536) + 65536 * ((v \div 65536) % 256)
  OBVIOUS
<1>5. v % 4294967296 = (v % 16777216) + 16777216 * ((v \div 16777216) % 256)
  OBVIOUS
<1>6. /\ v % 65536 = a + 256 * b
      /\ v % 16777216 = a + 256 * b + 65536 * c
      /\ v % 4294967296 = a + 256 * b + 65536 * c + 16777216 * d
  BY ONLY <1>2, <1>3, <1>4, <1>5
<1> QED  BY ONLY <1>2, <1>6, a \in Byte, b \in Byte, c \in Byte, d \in Byte DEF HasDigits

LEMMA ToSome ==
  ASSUME NEW v \in Int
  PROVE  LET list == ToLittleEndian(v, TimestampSize)
         IN  /\ list \in Seq(Byte) /\ Len(list) = TimestampSize
             /\ ParseLittleEndian(list) = v % TimerPeriod
<1> DEFINE list == ToLittleEndian(v, TimestampSize)
<1>0. PICK n \in 1..4 : n = TimestampSize
  BY PacketAssumption
<1>1. PICK a, b, c, d \in Byte : /\ a = v % 256 /\ b = (v \div 256) % 256
                                 /\ c = (v \div 65536) % 256 /\ d = (v \div 16777216) % 256
                                 /\ v % 65536 = a + 256 * b
                                 /\ v % 16777216 = a + 256 * b + 65536 * c
                                 /\ v % 4294967296 = a + 256 * b + 65536 * c + 16777216 * d
  <2>1. HasDigits(v)
    BY Digits
  <2> QED  BY ONLY <2>1 DEF HasDigits
<1>2. a \in Int /\ b \in Int /\ c \in Int /\ d \in Int
  BY DEF Byte
<1>3. ASSUME NEW i \in 1..n
      PROVE  (v \div 256^(i - 1)) % 256 = IF i = 1 THEN a ELSE IF i = 2 THEN b ELSE IF i = 3 THEN c ELSE d
  <2>1. CASE i = 1
    <3>1. 256^(i - 1) = 1 /\ v \div 1 = v
      BY <2>1, Powers
    <3> QED  BY <3>1, <2>1, <1>1
  <2>2. CASE i = 2
    <3>1. 256^(i - 1) = 256
      BY <2>2, Powers
    <3> QED  BY <3>1, <2>2, <1>1
  <2>3. CASE i = 3
    <3>1. 256^(i - 1) = 65536
      BY <2>3, Powers
    <3> QED  BY <3>1, <2>3, <1>1
  <2>4. CASE i = 4
    <3>1. 256^(i - 1) = 16777216
      BY <2>4, Powers
    <3> QED  BY <3>1, <2>4, <1>1
  <2> QED  BY <2>1, <2>2, <2>3, <2>4
<1>4. list = [i \in 1..n |-> IF i = 1 THEN a ELSE IF i = 2 THEN b ELSE IF i = 3 THEN c ELSE d]
  BY <1>0, <1>3 DEF ToLittleEndian
<1>5. list \in Seq(Byte) /\ Len(list) = n
  BY <1>4
<1>6. list[1] = a /\ (n > 1 => list[2] = b) /\ (n > 2 => list[3] = c) /\ (n > 3 => list[4] = d)
  BY <1>4
<1> HIDE DEF list
<1>7. PICK l : l = list
  OBVIOUS
<1>value. ParseLittleEndian(l)
            = l[1] + (IF n > 1 THEN 256 * l[2] ELSE 0)
              + (IF n > 2 THEN 65536 * l[3] ELSE 0) + (IF n > 3 THEN 16777216 * l[4] ELSE 0)
  <2>1. Len(l) \in 1..4 /\ \A k \in 1..Len(l) : l[k] \in Int
    BY ONLY <1>2, <1>5, <1>6, <1>7, n \in 1..4
  <2>2. ParseLittleEndian(l)
          = l[1] + (IF Len(l) > 1 THEN 256 * l[2] ELSE 0)
            + (IF Len(l) > 2 THEN 65536 * l[3] ELSE 0)
            + (IF Len(l) > 3 THEN 16777216 * l[4] ELSE 0)
    BY ONLY <2>1, ParseSome
  <2> QED  BY ONLY <1>5, <1>7, <2>2
<1>8. /\ v % 65536 = a + 256 * b /\ v % 16777216 = a + 256 * b + 65536 * c
      /\ v % 4294967296 = a + 256 * b + 65536 * c + 16777216 * d
  BY ONLY <1>1
<1>9. ParseLittleEndian(list) = v % TimerPeriod
  <2>1. CASE n = 1
    <3>1. TimerPeriod = 256 /\ ParseLittleEndian(list) = a
      BY <1>0, <1>2, <1>6, <1>7, <1>value, <2>1, Period
    <3> QED  BY <3>1, <1>1
  <2>2. CASE n = 2
    <3>1. TimerPeriod = 65536 /\ ParseLittleEndian(list) = a + 256 * b
      BY <1>0, <1>2, <1>6, <1>7, <1>value, <2>2, Period
    <3> QED  BY <3>1, <1>8
  <2>3. CASE n = 3
    <3>1. TimerPeriod = 16777216 /\ ParseLittleEndian(list) = a + 256 * b + 65536 * c
      BY <1>0, <1>2, <1>6, <1>7, <1>value, <2>3, Period
    <3> QED  BY <3>1, <1>8
  <2>4. CASE n = 4
    <3>1. /\ TimerPeriod = 4294967296
          /\ ParseLittleEndian(list) = a + 256 * b + 65536 * c + 16777216 * d
      BY <1>0, <1>2, <1>6, <1>7, <1>value, <2>4, Period
    <3> QED  BY <3>1, <1>8
  <2> QED  BY <2>1, <2>2, <2>3, <2>4
<1> QED  BY <1>0, <1>5, <1>9 DEF list

LEMMA OverwriteList ==
  ASSUME NEW S, NEW list \in Seq(S), NEW bytes \in Seq(S), NEW i \in Nat, i + Len(bytes) <= Len(list)
  PROVE  /\ Overwrite(list, i, bytes) \in Seq(S) /\ Len(Overwrite(list, i, bytes)) = Len(list)
         /\ \A k \in 1..i : Overwrite(list, i, bytes)[k] = list[k]
         /\ \A k \in 1..Len(bytes) : Overwrite(list, i, bytes)[i + k] = bytes[k]
         /\ \A k \in (i + Len(bytes) + 1)..Len(list) : Overwrite(list, i, bytes)[k] = list[k]
<1>0. PICK n \in Nat : n = Len(bytes)
  OBVIOUS
<1>1. PICK a : a = Slice(list, 0, i)
  OBVIOUS
<1>2. PICK b : b = From(list, i + n)
  OBVIOUS
<1>3. a \in Seq(S) /\ Len(a) = i /\ \A k \in 1..i : a[k] = list[k]
  <2>1. 0 \in Nat /\ i \in Nat /\ 0 <= i /\ i <= Len(list)
    BY <1>0
  <2>2. a \in Seq(S) /\ Len(a) = i - 0 /\ \A k \in 1..(i - 0) : a[k] = list[0 + k]
    BY ONLY <1>1, <2>1, list \in Seq(S), SliceList
  <2> QED  BY <2>1, <2>2
<1>4. /\ b \in Seq(S) /\ Len(b) = Len(list) - (i + n)
      /\ \A k \in 1..(Len(list) - (i + n)) : b[k] = list[i + n + k]
  <2>1. i + n \in 0..Len(list)
    BY <1>0
  <2> QED  BY ONLY <1>2, <2>1, list \in Seq(S), FromList
<1>5. PICK ab : ab = a \o bytes
  OBVIOUS
<1>6. /\ ab \in Seq(S) /\ Len(ab) = i + n /\ \A k \in 1..i : ab[k] = a[k]
      /\ \A k \in 1..n : ab[i + k] = bytes[k]
  <2>1. /\ a \o bytes \in Seq(S) /\ Len(a \o bytes) = Len(a) + Len(bytes)
        /\ \A k \in 1..Len(a) : (a \o bytes)[k] = a[k]
        /\ \A k \in 1..Len(bytes) : (a \o bytes)[Len(a) + k] = bytes[k]
    <3>1. a \in Seq(S) /\ bytes \in Seq(S)
      BY <1>3
    <3> QED  BY ONLY <3>1, JoinedLists
  <2> QED  BY ONLY <1>0, <1>3, <1>5, <2>1
<1>7. PICK o : o = ab \o b
  OBVIOUS
<1>8. /\ o \in Seq(S) /\ Len(o) = Len(list) /\ \A k \in 1..(i + n) : o[k] = ab[k]
      /\ \A k \in 1..(Len(list) - (i + n)) : o[i + n + k] = b[k]
  <2>1. /\ ab \o b \in Seq(S) /\ Len(ab \o b) = Len(ab) + Len(b)
        /\ \A k \in 1..Len(ab) : (ab \o b)[k] = ab[k]
        /\ \A k \in 1..Len(b) : (ab \o b)[Len(ab) + k] = b[k]
    <3>1. ab \in Seq(S) /\ b \in Seq(S)
      BY ONLY <1>4, <1>6
    <3> QED  BY ONLY <3>1, JoinedLists
  <2>2. Len(ab) + Len(b) = Len(list) /\ Len(ab) = i + n /\ Len(b) = Len(list) - (i + n)
    BY <1>0, <1>4, <1>6
  <2> QED  BY ONLY <1>7, <2>1, <2>2
<1>9. Overwrite(list, i, bytes) = o
  BY <1>0, <1>1, <1>2, <1>5, <1>7 DEF Overwrite
<1>10. ASSUME NEW k \in 1..i PROVE o[k] = list[k]
  <2>1. k \in 1..(i + n)
    BY <1>0
  <2> QED  BY <2>1, <1>3, <1>6, <1>8
<1>11. ASSUME NEW k \in 1..n PROVE o[i + k] = bytes[k]
  <2>1. i + k \in 1..(i + n)
    BY <1>0
  <2> QED  BY <2>1, <1>6, <1>8
<1>12. ASSUME NEW k \in (i + n + 1)..Len(list) PROVE o[k] = list[k]
  <2>1. k - (i + n) \in 1..(Len(list) - (i + n)) /\ i + n + (k - (i + n)) = k
    BY <1>0
  <2> QED  BY <2>1, <1>4, <1>8
<1> QED  BY <1>0, <1>8, <1>9, <1>10, <1>11, <1>12
-----------------------------------------------------------------------------
(* A list as the dongle sends it, with one more byte after the length, and *)
(* the bytes on the air: h and t are the headers, s the synchronisation,   *)
(* q and l the length with and without the byte, p the payload, c the CRC. *)
Padded(h, t, s, n, z, p, c) == h \o t \o s \o <<n, z>> \o p \o c
OnAir(s, n, p, c) == s \o <<n>> \o p \o c
Parts(S, h, t, s, n, z, p, c) == /\ h \in Seq(S) /\ t \in Seq(S) /\ s \in Seq(S)
                                 /\ n \in S /\ z \in S /\ p \in Seq(S) /\ c \in Seq(S)

LEMMA PaddedList ==
  ASSUME NEW S, NEW h, NEW t, NEW s, NEW n, NEW z, NEW p, NEW c, Parts(S, h, t, s, n, z, p, c)
  PROVE  LET padded == Padded(h, t, s, n, z, p, c)
             air == OnAir(s, n, p, c)
             b == Len(h) + Len(t)
             m == Len(s) + 1
         IN  /\ padded \in Seq(S) /\ Len(padded) = b + Len(air) + 1
             /\ air \in Seq(S) /\ Len(air) = m + Len(p) + Len(c)
             /\ \A k \in 1..Len(h) : padded[k] = h[k]
             /\ \A k \in 1..Len(t) : padded[Len(h) + k] = t[k]
             /\ \A k \in 1..Len(s) : air[k] = s[k]
             /\ \A k \in 1..m : padded[b + k] = air[k]
             /\ \A k \in (m + 1)..Len(air) : padded[b + k + 1] = air[k]
<1>parts. /\ h \in Seq(S) /\ t \in Seq(S) /\ s \in Seq(S)
          /\ n \in S /\ z \in S /\ p \in Seq(S) /\ c \in Seq(S)
  BY DEF Parts
<1>q. PICK q : q = <<n, z>>
  OBVIOUS
<1>l. PICK l : l = <<n>>
  OBVIOUS
<1>ql. /\ q \in Seq(S) /\ Len(q) = 2 /\ l \in Seq(S) /\ Len(l) = 1 /\ q[1] = l[1]
  <2>1. /\ <<n, z>> \in Seq(S) /\ Len(<<n, z>>) = 2 /\ <<n>> \in Seq(S) /\ Len(<<n>>) = 1
        /\ <<n, z>>[1] = n /\ <<n>>[1] = n
    BY <1>parts
  <2> QED  BY <1>q, <1>l, <2>1
<1>1. PICK a, b, d, e, g \in Nat :
        a = Len(h) /\ b = Len(t) /\ d = Len(s) /\ e = Len(p) /\ g = Len(c)
  BY <1>parts
<1>2. PICK ht : ht = h \o t
  OBVIOUS
<1>3. PICK hts : hts = ht \o s
  OBVIOUS
<1>4. PICK htsq : htsq = hts \o q
  OBVIOUS
<1>5. PICK htsqp : htsqp = htsq \o p
  OBVIOUS
<1>6. PICK padded : padded = htsqp \o c
  OBVIOUS
<1>7. PICK sl : sl = s \o l
  OBVIOUS
<1>8. PICK slp : slp = sl \o p
  OBVIOUS
<1>9. PICK air : air = slp \o c
  OBVIOUS
<1>12. /\ ht \in Seq(S) /\ Len(ht) = a + b /\ \A k \in 1..a : ht[k] = h[k]
       /\ \A k \in 1..b : ht[a + k] = t[k]
  <2>1. /\ h \o t \in Seq(S) /\ Len(h \o t) = Len(h) + Len(t)
        /\ \A k \in 1..Len(h) : (h \o t)[k] = h[k]
        /\ \A k \in 1..Len(t) : (h \o t)[Len(h) + k] = t[k]
    BY ONLY <1>parts, JoinedLists
  <2> QED  BY ONLY <1>1, <1>2, <2>1
<1>13. /\ hts \in Seq(S) /\ Len(hts) = a + b + d /\ \A k \in 1..(a + b) : hts[k] = ht[k]
       /\ \A k \in 1..d : hts[a + b + k] = s[k]
  <2>0. ht \in Seq(S)
    BY <1>12
  <2>1. /\ ht \o s \in Seq(S) /\ Len(ht \o s) = Len(ht) + Len(s)
        /\ \A k \in 1..Len(ht) : (ht \o s)[k] = ht[k]
        /\ \A k \in 1..Len(s) : (ht \o s)[Len(ht) + k] = s[k]
    BY ONLY <1>parts, <2>0, JoinedLists
  <2> QED  BY ONLY <1>1, <1>3, <1>12, <2>1
<1>14. /\ htsq \in Seq(S) /\ Len(htsq) = a + b + d + 2
       /\ \A k \in 1..(a + b + d) : htsq[k] = hts[k]
       /\ \A k \in 1..2 : htsq[a + b + d + k] = q[k]
  <2>0. hts \in Seq(S)
    BY <1>13
  <2>1. /\ hts \o q \in Seq(S) /\ Len(hts \o q) = Len(hts) + Len(q)
        /\ \A k \in 1..Len(hts) : (hts \o q)[k] = hts[k]
        /\ \A k \in 1..Len(q) : (hts \o q)[Len(hts) + k] = q[k]
    <3>1. q \in Seq(S)
      BY <1>ql
    <3> QED  BY ONLY <2>0, <3>1, JoinedLists
  <2>2. Len(q) = 2
    BY <1>ql
  <2> QED  BY ONLY <1>4, <1>13, <2>1, <2>2
<1>15. /\ htsqp \in Seq(S) /\ Len(htsqp) = a + b + d + 2 + e
       /\ \A k \in 1..(a + b + d + 2) : htsqp[k] = htsq[k]
       /\ \A k \in 1..e : htsqp[a + b + d + 2 + k] = p[k]
  <2>0. htsq \in Seq(S)
    BY <1>14
  <2>1. /\ htsq \o p \in Seq(S) /\ Len(htsq \o p) = Len(htsq) + Len(p)
        /\ \A k \in 1..Len(htsq) : (htsq \o p)[k] = htsq[k]
        /\ \A k \in 1..Len(p) : (htsq \o p)[Len(htsq) + k] = p[k]
    BY ONLY <1>parts, <2>0, JoinedLists
  <2> QED  BY ONLY <1>1, <1>5, <1>14, <2>1
<1>16. /\ padded \in Seq(S) /\ Len(padded) = a + b + d + 2 + e + g
       /\ \A k \in 1..(a + b + d + 2 + e) : padded[k] = htsqp[k]
       /\ \A k \in 1..g : padded[a + b + d + 2 + e + k] = c[k]
  <2>0. htsqp \in Seq(S)
    BY <1>15
  <2>1. /\ htsqp \o c \in Seq(S) /\ Len(htsqp \o c) = Len(htsqp) + Len(c)
        /\ \A k \in 1..Len(htsqp) : (htsqp \o c)[k] = htsqp[k]
        /\ \A k \in 1..Len(c) : (htsqp \o c)[Len(htsqp) + k] = c[k]
    BY ONLY <1>parts, <2>0, JoinedLists
  <2> QED  BY ONLY <1>1, <1>6, <1>15, <2>1
<1>17. /\ sl \in Seq(S) /\ Len(sl) = d + 1 /\ \A k \in 1..d : sl[k] = s[k]
       /\ sl[d + 1] = l[1]
  <2>1. /\ s \o l \in Seq(S) /\ Len(s \o l) = Len(s) + Len(l)
        /\ \A k \in 1..Len(s) : (s \o l)[k] = s[k]
        /\ \A k \in 1..Len(l) : (s \o l)[Len(s) + k] = l[k]
    <3>1. l \in Seq(S)
      BY <1>ql
    <3> QED  BY ONLY <1>parts, <3>1, JoinedLists
  <2>2. Len(l) = 1
    BY <1>ql
  <2> QED  BY ONLY <1>1, <1>7, <2>1, <2>2
<1>18. /\ slp \in Seq(S) /\ Len(slp) = d + 1 + e /\ \A k \in 1..(d + 1) : slp[k] = sl[k]
       /\ \A k \in 1..e : slp[d + 1 + k] = p[k]
  <2>0. sl \in Seq(S)
    BY <1>17
  <2>1. /\ sl \o p \in Seq(S) /\ Len(sl \o p) = Len(sl) + Len(p)
        /\ \A k \in 1..Len(sl) : (sl \o p)[k] = sl[k]
        /\ \A k \in 1..Len(p) : (sl \o p)[Len(sl) + k] = p[k]
    BY ONLY <1>parts, <2>0, JoinedLists
  <2> QED  BY ONLY <1>1, <1>8, <1>17, <2>1
<1>19. /\ air \in Seq(S) /\ Len(air) = d + 1 + e + g
       /\ \A k \in 1..(d + 1 + e) : air[k] = slp[k]
       /\ \A k \in 1..g : air[d + 1 + e + k] = c[k]
  <2>0. slp \in Seq(S)
    BY <1>18
  <2>1. /\ slp \o c \in Seq(S) /\ Len(slp \o c) = Len(slp) + Len(c)
        /\ \A k \in 1..Len(slp) : (slp \o c)[k] = slp[k]
        /\ \A k \in 1..Len(c) : (slp \o c)[Len(slp) + k] = c[k]
    BY ONLY <1>parts, <2>0, JoinedLists
  <2> QED  BY ONLY <1>1, <1>9, <1>18, <2>1
<1>20. \A k \in 1..(a + b + d) : padded[k] = hts[k]
  BY ONLY <1>1, <1>14, <1>15, <1>16
<1>21. \A k \in 1..(a + b) : padded[k] = ht[k]
  BY ONLY <1>1, <1>13, <1>20
<1>22. \A k \in 1..a : padded[k] = h[k]
  BY ONLY <1>1, <1>12, <1>21
<1>23. \A k \in 1..b : padded[a + k] = t[k]
  <2> SUFFICES ASSUME NEW k \in 1..b PROVE padded[a + k] = t[k]
    OBVIOUS
  <2>1. a + k \in 1..(a + b)
    OBVIOUS
  <2> QED  BY <1>12, <1>21, <2>1
<1>24. \A k \in 1..d : air[k] = s[k]
  BY ONLY <1>1, <1>17, <1>18, <1>19
<1>25. \A k \in 1..(d + 1) : padded[a + b + k] = air[k]
  <2> SUFFICES ASSUME NEW k \in 1..(d + 1) PROVE padded[a + b + k] = air[k]
    OBVIOUS
  <2>1. CASE k <= d
    <3>1. a + b + k \in 1..(a + b + d) /\ k \in 1..d
      BY <2>1
    <3> QED  BY <1>13, <1>20, <1>24, <3>1
  <2>2. CASE k = d + 1
    <3>1. /\ a + b + k = a + b + d + 1 /\ a + b + k \in 1..(a + b + d + 2)
          /\ a + b + k \in 1..(a + b + d + 2 + e) /\ k \in 1..(d + 1 + e) /\ 1 \in 1..2
      BY <2>2
    <3>2. padded[a + b + k] = q[1]
      <4>1. padded[a + b + k] = htsq[a + b + k]
        BY ONLY <1>15, <1>16, <3>1
      <4>2. htsq[a + b + d + 1] = q[1]
        BY ONLY <1>14, <3>1
      <4> QED  BY ONLY <3>1, <4>1, <4>2
    <3>3. air[k] = l[1]
      BY <1>17, <1>18, <1>19, <3>1, <2>2
    <3> QED  BY <1>ql, <3>2, <3>3
  <2> QED  BY <2>1, <2>2
<1>26. \A k \in (d + 2)..(d + 1 + e + g) : padded[a + b + k + 1] = air[k]
  <2> SUFFICES ASSUME NEW k \in (d + 2)..(d + 1 + e + g) PROVE padded[a + b + k + 1] = air[k]
    OBVIOUS
  <2>1. CASE k <= d + 1 + e
    <3>1. PICK j \in 1..e : k = d + 1 + j
      <4>1. k - (d + 1) \in 1..e /\ k = d + 1 + (k - (d + 1))
        BY <2>1
      <4> QED  BY <4>1
    <3>2. /\ a + b + k + 1 = a + b + d + 2 + j /\ a + b + d + 2 + j \in 1..(a + b + d + 2 + e)
          /\ d + 1 + j \in 1..(d + 1 + e)
      BY <3>1
    <3>3. padded[a + b + k + 1] = p[j]
      BY <1>15, <1>16, <3>2
    <3>4. air[k] = p[j]
      BY <1>18, <1>19, <3>1, <3>2
    <3> QED  BY <3>3, <3>4
  <2>2. CASE k > d + 1 + e
    <3>1. PICK j \in 1..g : k = d + 1 + e + j
      <4>1. k - (d + 1 + e) \in 1..g /\ k = d + 1 + e + (k - (d + 1 + e))
        BY <2>2
      <4> QED  BY <4>1
    <3>2. a + b + k + 1 = a + b + d + 2 + e + j
      BY <3>1
    <3> QED  BY <1>16, <1>19, <3>1, <3>2
  <2> QED  BY <2>1, <2>2
<1>27. Padded(h, t, s, n, z, p, c) = padded /\ OnAir(s, n, p, c) = air
  BY <1>q, <1>l, <1>2, <1>3, <1>4, <1>5, <1>6, <1>7, <1>8, <1>9 DEF Padded, OnAir
<1>28. /\ Len(padded) = a + b + Len(air) + 1 /\ Len(air) = (d + 1) + e + g
       /\ d + 1 + 1 = d + 2
  <2>1. Len(padded) = a + b + d + 2 + e + g /\ Len(air) = d + 1 + e + g
    BY <1>16, <1>19
  <2> QED  BY ONLY <2>1, a \in Nat, b \in Nat, d \in Nat, e \in Nat, g \in Nat
<1> QED  BY ONLY <1>1, <1>16, <1>19, <1>22, <1>23, <1>24, <1>25, <1>26, <1>27, <1>28
-----------------------------------------------------------------------------
(* Induction up to N, for a set: the least number outside it would be zero *)
(* or the one after a number inside.                                       *)
LEMMA Induction ==
  ASSUME NEW N \in Nat, NEW S, 0 \in S, \A n \in 0..N : n < N /\ n \in S => n + 1 \in S
  PROVE  \A n \in 0..N : n \in S
<1> DEFINE D == {n \in 0..N : n \notin S}
<1>1. CASE D = {}
  BY <1>1
<1>2. CASE D # {}
  <2>1. D \subseteq Nat
    OBVIOUS
  <2>2. PICK d \in D : \A e \in D : ~(<<e, d>> \in OpToRel(<, Nat))
    BY <1>2, <2>1, NatLessThanWellFounded, WFMin
  <2>3. \A e \in D : ~(e < d)
    BY <2>1, <2>2 DEF OpToRel
  <2>4. d \in 0..N /\ d \notin S /\ d # 0
    OBVIOUS
  <2>5. d - 1 \in 0..N /\ d - 1 < d /\ d - 1 < N /\ (d - 1) + 1 = d
    BY <2>4
  <2>6. d - 1 \notin D
    BY <2>3, <2>5
  <2>7. d - 1 \in S
    BY <2>5, <2>6
  <2> QED  BY <2>4, <2>5, <2>7
<1> QED  BY <1>1, <1>2

(* The structures of an advertisement one after the other.                 *)
StructureBytes(s) == <<Len(s.value) + 1, s.type>> \o s.value

LEMMA StructureList ==
  ASSUME NEW s \in Structure
  PROVE  /\ StructureBytes(s) \in Seq(Byte) /\ Len(StructureBytes(s)) = Len(s.value) + 2
         /\ StructureBytes(s)[1] = Len(s.value) + 1 /\ StructureBytes(s)[2] = s.type
         /\ \A k \in 1..Len(s.value) : StructureBytes(s)[2 + k] = s.value[k]
         /\ s.value \in Seq(Byte)
<1>1. s.type \in Byte /\ s.value \in Seq(Byte) /\ Len(s.value) < 255
  BY DEF Structure
<1>2. PICK v \in Seq(Byte) : v = s.value
  BY <1>1
<1>3. PICK n \in Byte : n = Len(v) + 1
  <2>1. PICK m \in Nat : m = Len(v) /\ m < 255
    BY <1>1, <1>2
  <2>2. m < 255
    BY <2>1
  <2>3. m + 1 \in 0..255
    BY ONLY <2>2, m \in Nat
  <2> QED  BY <2>1, <2>3 DEF Byte
<1>4. PICK h : h = <<n, s.type>>
  OBVIOUS
<1>5. h \in Seq(Byte) /\ Len(h) = 2 /\ h[1] = n /\ h[2] = s.type
  BY ONLY <1>1, <1>4, n \in Byte
<1>6. /\ h \o v \in Seq(Byte) /\ Len(h \o v) = Len(h) + Len(v)
      /\ \A k \in 1..Len(h) : (h \o v)[k] = h[k]
      /\ \A k \in 1..Len(v) : (h \o v)[Len(h) + k] = v[k]
  <2>1. h \in Seq(Byte) /\ v \in Seq(Byte)
    BY <1>5
  <2> QED  BY ONLY <2>1, JoinedLists
<1>7. StructureBytes(s) = h \o v
  BY <1>2, <1>3, <1>4 DEF StructureBytes
<1>8. 1 \in 1..Len(h) /\ 2 \in 1..Len(h) /\ Len(v) \in Nat
  BY <1>5
<1> QED  BY ONLY <1>2, <1>3, <1>5, <1>6, <1>7, <1>8, v \in Seq(Byte)

(* Structure s begins after the first p bytes of a list.                   *)
Placed(list, s, p) == /\ list[p + 1] = Len(s.value) + 1 /\ list[p + 2] = s.type
                      /\ \A k \in 1..Len(s.value) : list[p + 2 + k] = s.value[k]

(* It stays where it is when bytes follow, and moves when bytes precede.   *)
LEMMA PlacedCopied ==
  ASSUME NEW list, NEW copy, NEW s \in Structure, NEW p \in Nat, NEW B \in Nat,
         NEW n \in Nat, p + 2 + Len(s.value) <= n,
         Placed(list, s, p), \A k \in 1..n : copy[B + k] = list[k]
  PROVE  Placed(copy, s, B + p)
<1>1. PICK m \in Nat : m = Len(s.value) /\ p + 2 + m <= n
  BY DEF Structure
<1>fits. p + 2 + m <= n
  BY <1>1
<1>2. /\ p + 1 \in 1..n /\ B + p + 1 = B + (p + 1) /\ p + 2 \in 1..n /\ B + p + 2 = B + (p + 2)
  BY ONLY <1>fits, m \in Nat, n \in Nat, p \in Nat, B \in Nat
<1>3. copy[B + p + 1] = list[p + 1] /\ copy[B + p + 2] = list[p + 2]
  BY <1>2
<1>4. ASSUME NEW k \in 1..m PROVE copy[B + p + 2 + k] = list[p + 2 + k]
  <2>1. p + 2 + k \in 1..n /\ B + p + 2 + k = B + (p + 2 + k)
    BY ONLY <1>fits, m \in Nat, n \in Nat, p \in Nat, B \in Nat, k \in 1..m
  <2> QED  BY <2>1
<1> QED  BY <1>1, <1>3, <1>4 DEF Placed

Extended(list, s) == list \o <<Len(s.value) + 1, s.type>> \o s.value

LEMMA PlacedLast ==
  ASSUME NEW a \in Seq(Byte), NEW s \in Structure
  PROVE  /\ Extended(a, s) \in Seq(Byte)
         /\ Len(Extended(a, s)) = Len(a) + 2 + Len(s.value)
         /\ \A k \in 1..Len(a) : Extended(a, s)[k] = a[k]
         /\ Placed(Extended(a, s), s, Len(a))
<1>1. PICK b : b = StructureBytes(s)
  OBVIOUS
<1>2. /\ b \in Seq(Byte) /\ Len(b) = Len(s.value) + 2
      /\ b[1] = Len(s.value) + 1 /\ b[2] = s.type
      /\ \A k \in 1..Len(s.value) : b[2 + k] = s.value[k]
      /\ s.value \in Seq(Byte)
  BY ONLY <1>1, s \in Structure, StructureList
<1>3. /\ a \o b \in Seq(Byte) /\ Len(a \o b) = Len(a) + Len(b)
      /\ \A k \in 1..Len(a) : (a \o b)[k] = a[k]
      /\ \A k \in 1..Len(b) : (a \o b)[Len(a) + k] = b[k]
  <2>1. a \in Seq(Byte) /\ b \in Seq(Byte)
    BY <1>2
  <2> QED  BY ONLY <2>1, JoinedLists
<1>4. PICK m \in Nat : m = Len(s.value)
  BY <1>2
<1>5. PICK n \in Nat : n = Len(a)
  OBVIOUS
<1>6. Placed(b, s, 0)
  BY <1>2, <1>4 DEF Placed
<1>7. Placed(a \o b, s, n + 0)
  <2>1. 0 + 2 + Len(s.value) <= m + 2
    BY <1>4
  <2>2. \A k \in 1..(m + 2) : (a \o b)[n + k] = b[k]
    BY <1>2, <1>3, <1>4, <1>5
  <2>3. m + 2 \in Nat /\ 0 \in Nat
    OBVIOUS
  <2> QED  BY ONLY <1>6, <2>1, <2>2, <2>3, n \in Nat, s \in Structure, PlacedCopied
<1>8. Len(a \o b) = Len(a) + 2 + Len(s.value)
  <2>1. n + (m + 2) = n + 2 + m
    OBVIOUS
  <2> QED  BY ONLY <1>2, <1>3, <1>4, <1>5, <2>1
<1>9. Placed(a \o b, s, Len(a))
  <2>1. n + 0 = Len(a)
    BY <1>5
  <2> QED  BY ONLY <1>7, <2>1
<1>10. Extended(a, s) = a \o b
  <2>1. PICK h : h = <<Len(s.value) + 1, s.type>>
    OBVIOUS
  <2>2. h \in Seq(Byte)
    <3>1. PICK n1 \in Byte : n1 = Len(s.value) + 1
      <4>1. b[1] \in Byte
        BY <1>2, <1>4
      <4> QED  BY <1>2, <4>1
    <3>2. s.type \in Byte
      BY DEF Structure
    <3> QED  BY <2>1, <3>1, <3>2
  <2>3. PICK v \in Seq(Byte) : v = s.value
    BY <1>2
  <2>4. (a \o h) \o v = a \o (h \o v)
    BY ONLY a \in Seq(Byte), <2>2, v \in Seq(Byte), ConcatAssociative
  <2> QED  BY ONLY <1>1, <2>1, <2>3, <2>4 DEF Extended, StructureBytes
<1> QED  BY ONLY <1>3, <1>8, <1>9, <1>10

(* The lists joined so far, one for each number of structures.             *)
Joins(b, data) == /\ b[0] = <<>>
                  /\ \A i \in 1..Len(data) : b[i] = Extended(b[i - 1], data[i])

LEMMA JoinsExist ==
  ASSUME NEW data \in Seq(Structure)
  PROVE  \E b \in [0..Len(data) -> Seq(Byte)] : Joins(b, data)
<1>1. PICK N \in Nat : N = Len(data)
  OBVIOUS
<1> DEFINE S == {n \in 0..N : \E b \in [0..n -> Seq(Byte)] :
                   /\ b[0] = <<>>
                   /\ \A i \in 1..n : b[i] = Extended(b[i - 1], data[i])}
<1>2. 0 \in S
  <2>1. PICK b : b = [i \in 0..0 |-> <<>>]
    OBVIOUS
  <2>2. b \in [0..0 -> Seq(Byte)] /\ b[0] = <<>> /\ 1..0 = {} /\ 0 \in 0..N
    BY <2>1
  <2> QED  BY <2>2
<1>3. ASSUME NEW n \in 0..N, n < N, n \in S PROVE n + 1 \in S
  <2>1. PICK b \in [0..n -> Seq(Byte)] :
             /\ b[0] = <<>>
             /\ \A i \in 1..n : b[i] = Extended(b[i - 1], data[i])
    BY <1>3
  <2>2. n \in Nat /\ n + 1 \in 1..N /\ n + 1 \in 0..N
    BY <1>3
  <2>3. PICK x : x = Extended(b[n], data[n + 1])
    OBVIOUS
  <2>4. x \in Seq(Byte)
    <3>1. b[n] \in Seq(Byte) /\ data[n + 1] \in Structure
      BY <1>1, <2>2
    <3> QED  BY ONLY <2>3, <3>1, PlacedLast
  <2>5. PICK c : c = [i \in 0..(n + 1) |-> IF i = n + 1 THEN x ELSE b[i]]
    OBVIOUS
  <2>6. \A i \in 0..n : c[i] = b[i]
    BY <2>2, <2>5
  <2>7. c[n + 1] = x
    BY <2>2, <2>5
  <2>8. c \in [0..(n + 1) -> Seq(Byte)]
    <3>1. \A i \in 0..(n + 1) : i = n + 1 \/ i \in 0..n
      BY <2>2
    <3>2. \A i \in 0..n : b[i] \in Seq(Byte)
      OBVIOUS
    <3> QED  BY ONLY <2>4, <2>5, <3>1, <3>2
  <2>9. c[0] = <<>>
    <3>1. 0 \in 0..n
      BY <2>2
    <3> QED  BY <2>1, <2>6, <3>1
  <2>10. ASSUME NEW i \in 1..(n + 1) PROVE c[i] = Extended(c[i - 1], data[i])
    <3>1. i - 1 \in 0..n
      BY <2>2
    <3>2. c[i - 1] = b[i - 1]
      BY <2>6, <3>1
    <3>3. CASE i = n + 1
      <4>1. i - 1 = n
        BY <2>2, <3>3
      <4> QED  BY <2>3, <2>7, <3>2, <3>3, <4>1
    <3>4. CASE i # n + 1
      <4>1. i \in 1..n /\ i \in 0..n
        BY <2>2, <3>4
      <4> QED  BY <2>1, <2>6, <3>2, <4>1
    <3> QED  BY <3>3, <3>4
  <2> QED  BY <2>2, <2>8, <2>9, <2>10
<1> HIDE DEF S
<1>4. \A n \in 0..N : n \in S
  <2>1. \A n \in 0..N : n < N /\ n \in S => n + 1 \in S
    BY <1>3
  <2> QED  BY ONLY <1>2, <2>1, N \in Nat, Induction
<1>5. N \in S
  BY <1>4
<1> QED  BY <1>1, <1>5 DEF S, Joins

(* Where the structures begin: o[i - 1] is the offset of structure i, and  *)
(* the last one is the length of all.                                      *)
Offsets(o, data) == /\ o \in [0..Len(data) -> Nat] /\ o[0] = 0
                    /\ \A i \in 1..Len(data) : o[i] = o[i - 1] + 2 + Len(data[i].value)

LEMMA OffsetsGrow ==
  ASSUME NEW data \in Seq(Structure), NEW o, Offsets(o, data)
  PROVE  \A j \in 0..Len(data) : \A i \in 0..j : o[i] <= o[j]
<1>1. PICK N \in Nat : N = Len(data)
  OBVIOUS
<1>2. o \in [0..N -> Nat] /\ \A i \in 1..N : o[i] = o[i - 1] + 2 + Len(data[i].value)
  BY <1>1 DEF Offsets
<1>3. \A i \in 1..N : Len(data[i].value) \in Nat
  <2>1. \A i \in 1..N : data[i] \in Structure
    BY <1>1
  <2> QED  BY <2>1 DEF Structure
<1> DEFINE S == {j \in 0..N : \A i \in 0..j : o[i] <= o[j]}
<1>4. 0 \in S
  <2>1. 0 \in 0..N /\ o[0] <= o[0] /\ \A i \in 0..0 : i = 0
    BY <1>2
  <2> QED  BY <2>1
<1>5. ASSUME NEW n \in 0..N, n < N, n \in S PROVE n + 1 \in S
  <2>1. n + 1 \in 1..N /\ n + 1 \in 0..N /\ (n + 1) - 1 = n
    BY <1>5
  <2>2. PICK x \in Nat : x = o[n]
    BY <1>2
  <2>3. PICK y \in Nat : y = o[n + 1]
    BY <1>2, <2>1
  <2>4. PICK m \in Nat : m = Len(data[n + 1].value)
    BY <1>3, <2>1
  <2>5. y = x + 2 + m
    BY <1>2, <2>1, <2>2, <2>3, <2>4
  <2>6. x <= y
    BY ONLY <2>5, x \in Nat, m \in Nat
  <2>7. ASSUME NEW i \in 0..(n + 1) PROVE o[i] <= o[n + 1]
    <3>1. i = n + 1 \/ i \in 0..n
      OBVIOUS
    <3>2. CASE i = n + 1
      BY <2>3, <3>2
    <3>3. CASE i \in 0..n
      <4>1. o[i] <= x
        BY <1>5, <2>2, <3>3
      <4>2. PICK z \in Nat : z = o[i]
        <5>1. i \in 0..N
          BY <1>5, <3>3
        <5> QED  BY <1>2, <5>1
      <4> QED  BY <2>3, <2>6, <4>1, <4>2
    <3> QED  BY <3>1, <3>2, <3>3
  <2> QED  BY <2>1, <2>7
<1> HIDE DEF S
<1>6. \A n \in 0..N : n \in S
  <2>1. \A n \in 0..N : n < N /\ n \in S => n + 1 \in S
    BY <1>5
  <2> QED  BY ONLY <1>4, <2>1, N \in Nat, Induction
<1> QED  BY <1>1, <1>6 DEF S

LEMMA JoinsLaid ==
  ASSUME NEW data \in Seq(Structure), NEW b, Joins(b, data)
  PROVE  /\ b[Len(data)] \in Seq(Byte)
         /\ \E o : /\ Offsets(o, data) /\ o[Len(data)] = Len(b[Len(data)])
                   /\ \A i \in 1..Len(data) : Placed(b[Len(data)], data[i], o[i - 1])
<1>1. PICK N \in Nat : N = Len(data)
  OBVIOUS
<1>2. b[0] = <<>> /\ \A i \in 1..N : b[i] = Extended(b[i - 1], data[i])
  BY <1>1 DEF Joins
<1>3. \A i \in 1..N : data[i] \in Structure /\ Len(data[i].value) \in Nat
  <2>1. \A i \in 1..N : data[i] \in Structure
    BY <1>1
  <2> QED  BY <2>1 DEF Structure
<1> DEFINE T == {n \in 0..N : b[n] \in Seq(Byte)}
<1>4. 0 \in T
  <2>1. 0 \in 0..N /\ <<>> \in Seq(Byte)
    OBVIOUS
  <2> QED  BY <1>2, <2>1
<1>5. ASSUME NEW n \in 0..N, n < N, n \in T PROVE n + 1 \in T
  <2>1. n + 1 \in 1..N /\ n + 1 \in 0..N /\ (n + 1) - 1 = n
    BY <1>5
  <2>2. b[n + 1] = Extended(b[n], data[n + 1])
    BY <1>2, <2>1
  <2>3. b[n] \in Seq(Byte) /\ data[n + 1] \in Structure
    BY <1>3, <1>5, <2>1
  <2>4. Extended(b[n], data[n + 1]) \in Seq(Byte)
    BY ONLY <2>3, PlacedLast
  <2> QED  BY <2>1, <2>2, <2>4
<1> HIDE DEF T
<1>6. \A n \in 0..N : n \in T
  <2>1. \A n \in 0..N : n < N /\ n \in T => n + 1 \in T
    BY <1>5
  <2> QED  BY ONLY <1>4, <2>1, N \in Nat, Induction
<1>7. \A n \in 0..N : b[n] \in Seq(Byte)
  BY <1>6 DEF T
<1>8. PICK o : o = [n \in 0..N |-> Len(b[n])]
  OBVIOUS
<1>9. ASSUME NEW i \in 1..N
      PROVE  /\ i - 1 \in 0..N /\ i \in 0..N /\ o[i] = o[i - 1] + 2 + Len(data[i].value)
             /\ \A k \in 1..o[i - 1] : b[i][k] = b[i - 1][k]
             /\ Placed(b[i], data[i], o[i - 1])
  <2>1. i - 1 \in 0..N /\ i \in 0..N
    OBVIOUS
  <2>2. o[i] = Len(b[i]) /\ o[i - 1] = Len(b[i - 1])
    BY <1>8, <2>1
  <2>3. b[i] = Extended(b[i - 1], data[i])
    BY <1>2
  <2>4. b[i - 1] \in Seq(Byte) /\ data[i] \in Structure
    BY <1>3, <1>7, <2>1
  <2>5. /\ Len(Extended(b[i - 1], data[i])) = Len(b[i - 1]) + 2 + Len(data[i].value)
        /\ \A k \in 1..Len(b[i - 1]) : Extended(b[i - 1], data[i])[k] = b[i - 1][k]
        /\ Placed(Extended(b[i - 1], data[i]), data[i], Len(b[i - 1]))
    BY ONLY <2>4, PlacedLast
  <2> QED  BY ONLY <2>1, <2>2, <2>3, <2>5
<1>10. Offsets(o, data)
  <2>1. o \in [0..N -> Nat]
    BY <1>7, <1>8
  <2>2. o[0] = 0
    BY <1>2, <1>8
  <2> QED  BY <1>1, <1>9, <2>1, <2>2 DEF Offsets
<1>11. \A j \in 0..N : o[j] \in Nat
  BY <1>1, <1>10 DEF Offsets
<1>12. \A j \in 0..N : \A i \in 0..j : o[i] <= o[j]
  BY <1>1, <1>10, OffsetsGrow
<1> DEFINE S == {n \in 0..N : \A i \in 1..n : Placed(b[n], data[i], o[i - 1])}
<1>13. 0 \in S
  <2>1. 0 \in 0..N /\ 1..0 = {}
    OBVIOUS
  <2> QED  BY <2>1
<1>14. ASSUME NEW n \in 0..N, n < N, n \in S PROVE n + 1 \in S
  <2>1. n + 1 \in 1..N /\ n + 1 \in 0..N /\ (n + 1) - 1 = n
    BY <1>14
  <2>2. PICK L \in Nat : L = o[n]
    BY <1>11
  <2>3. \A k \in 1..L : b[n + 1][k] = b[n][k]
    BY <1>9, <2>1, <2>2
  <2>4. Placed(b[n + 1], data[n + 1], o[n])
    BY <1>9, <2>1
  <2>5. ASSUME NEW i \in 1..n PROVE Placed(b[n + 1], data[i], o[i - 1])
    <3>1. i \in 1..N /\ i \in 0..N /\ i \in 0..n
      BY <1>14
    <3>2. PICK p \in Nat : p = o[i - 1]
      BY <1>9, <1>11, <3>1
    <3>3. o[i] = p + 2 + Len(data[i].value)
      BY <1>9, <3>1, <3>2
    <3>4. o[i] <= L
      BY <1>12, <1>14, <2>2, <3>1
    <3>5. p + 2 + Len(data[i].value) <= L
      BY ONLY <3>3, <3>4
    <3>6. Placed(b[n], data[i], p)
      BY <1>14, <3>2
    <3>7. \A k \in 1..L : b[n + 1][0 + k] = b[n][k]
      BY <2>3
    <3>8. data[i] \in Structure /\ 0 \in Nat
      BY <1>3, <3>1
    <3>9. Placed(b[n + 1], data[i], 0 + p)
      BY ONLY <3>5, <3>6, <3>7, <3>8, p \in Nat, L \in Nat, PlacedCopied
    <3>10. 0 + p = o[i - 1]
      BY <3>2
    <3> QED  BY ONLY <3>9, <3>10
  <2>6. ASSUME NEW i \in 1..(n + 1) PROVE Placed(b[n + 1], data[i], o[i - 1])
    <3>1. i = n + 1 \/ i \in 1..n
      BY <2>1
    <3>2. CASE i = n + 1
      BY <2>1, <2>4, <3>2
    <3> QED  BY <2>5, <3>1, <3>2
  <2> QED  BY <2>1, <2>6
<1> HIDE DEF S
<1>15. \A n \in 0..N : n \in S
  <2>1. \A n \in 0..N : n < N /\ n \in S => n + 1 \in S
    BY <1>14
  <2> QED  BY ONLY <1>13, <2>1, N \in Nat, Induction
<1>16. N \in S /\ N \in 0..N
  BY <1>15
<1>17. \A i \in 1..N : Placed(b[N], data[i], o[i - 1])
  BY <1>16 DEF S
<1>18. o[N] = Len(b[N]) /\ b[N] \in Seq(Byte)
  BY <1>7, <1>8, <1>16
<1> QED  BY ONLY <1>1, <1>10, <1>17, <1>18

(* The recursion of Structures has a solution, which CHOOSE takes.         *)
LEMMA StructuresLaid ==
  ASSUME NEW f, f.data \in Seq(Structure)
  PROVE  /\ Structures(f) \in Seq(Byte)
         /\ \E o : /\ Offsets(o, f.data) /\ o[Len(f.data)] = Len(Structures(f))
                   /\ \A i \in 1..Len(f.data) : Placed(Structures(f), f.data[i], o[i - 1])
<1> DEFINE body(g, i) ==
      IF i = 0 THEN <<>>
      ELSE g[i - 1] \o <<Len(f.data[i].value) + 1, f.data[i].type>> \o f.data[i].value
    bytes == CHOOSE bytes : bytes = [i \in 0..Len(f.data) |-> body(bytes, i)]
<1>1. PICK b \in [0..Len(f.data) -> Seq(Byte)] : Joins(b, f.data)
  BY JoinsExist
<1>2. b = [i \in 0..Len(f.data) |-> body(b, i)]
  <2>1. ASSUME NEW i \in 0..Len(f.data) PROVE b[i] = body(b, i)
    <3>1. i = 0 \/ i \in 1..Len(f.data)
      OBVIOUS
    <3> QED  BY <1>1, <3>1 DEF Joins, Extended
  <2>2. b = [i \in 0..Len(f.data) |-> b[i]]
    OBVIOUS
  <2> HIDE DEF body
  <2> QED  BY <2>1, <2>2
<1>3. bytes = [i \in 0..Len(f.data) |-> body(bytes, i)]
  BY ONLY ZenonT(60), <1>2
<1>4. Structures(f) = bytes[Len(f.data)]
  BY DEF Structures
<1> HIDE DEF bytes
<1>5. Joins(bytes, f.data)
  <2>1. 0 \in 0..Len(f.data)
    OBVIOUS
  <2>2. bytes[0] = <<>>
    BY <1>3, <2>1
  <2>3. ASSUME NEW i \in 1..Len(f.data) PROVE bytes[i] = Extended(bytes[i - 1], f.data[i])
    <3>1. i \in 0..Len(f.data) /\ i # 0
      OBVIOUS
    <3>2. bytes[i] = body(bytes, i)
      BY ONLY <1>3, <3>1
    <3> QED  BY <3>1, <3>2 DEF Extended
  <2> QED  BY <2>2, <2>3 DEF Joins
<1> HIDE DEF body
<1> QED  BY ONLY <1>4, <1>5, f.data \in Seq(Structure), JoinsLaid
-----------------------------------------------------------------------------
(* Frames: what is on the air and what the dongle makes of it.             *)
Coded(f) == IF f.phy = PHY_CODED THEN 1 ELSE 0
FlagsByte(f, crcOK) == (IF crcOK THEN 1 ELSE 0) + 16 * f.phy
BleHeader(f, crcOK) == <<BLE_HEADER_LENGTH, FlagsByte(f, crcOK), 37, 60, 0, 0>>
FramePayload(f, crcOK) ==
  Padded(BleHeader(f, crcOK), ToLittleEndian(clock, TimestampSize), Synchronisation(f),
         Len(AirPayload(f)), 0, AirPayload(f), f.crc)

LEMMA FrameTyped ==
  ASSUME NEW f \in Frames
  PROVE  /\ FrameOK(f) /\ f.phy \in 0..2 /\ AirHeader(f) \in Byte
         /\ \A crcOK \in BOOLEAN : FlagsByte(f, crcOK) \in Byte
<1>1. FrameOK(f)
  BY PacketsAssumption
<1>2. PICK y \in 0..2 : y = f.phy
  BY <1>1 DEF FrameOK, PHY_1M, PHY_2M, PHY_CODED
<1>3. PICK a \in -1..15 : a = f.advType
  BY <1>1 DEF FrameOK
<1>4. PICK x \in {0, 1} : x = f.txAdd
  BY <1>1 DEF FrameOK
<1>5. AirHeader(f) \in Byte
  <2>1. a # -1 => a + 64 * x \in 0..255
    OBVIOUS
  <2>2. 2 \in 0..255
    OBVIOUS
  <2> QED  BY <1>3, <1>4, <2>1, <2>2 DEF AirHeader, IsAdv, Byte
<1>6. \A crcOK \in BOOLEAN : FlagsByte(f, crcOK) \in Byte
  BY <1>2 DEF FlagsByte, Byte
<1> QED  BY <1>1, <1>2, <1>5, <1>6

LEMMA SynchronisationList ==
  ASSUME NEW f \in Frames
  PROVE  /\ Synchronisation(f) \in Seq(Byte) /\ Len(Synchronisation(f)) = 5 + Coded(f)
         /\ \A k \in 1..4 : Synchronisation(f)[k] = f.accessAddress[k]
         /\ Synchronisation(f)[5 + Coded(f)] = AirHeader(f)
         /\ f.phy = PHY_CODED => Synchronisation(f)[5] = f.ci
<1>1. FrameOK(f) /\ AirHeader(f) \in Byte
  BY FrameTyped
<1>2. PICK a : a = f.accessAddress
  OBVIOUS
<1>3. a \in Seq(Byte) /\ Len(a) = 4
  BY <1>1, <1>2 DEF FrameOK
<1>4. f.ci \in Byte
  BY <1>1 DEF FrameOK, Byte, PHY_CODED_CI_S8, PHY_CODED_CI_S2
<1>5. PICK i : i = IF f.phy = PHY_CODED THEN <<f.ci>> ELSE <<>>
  OBVIOUS
<1>6. i \in Seq(Byte) /\ Len(i) = Coded(f) /\ (f.phy = PHY_CODED => i[1] = f.ci)
  <2>1. CASE f.phy = PHY_CODED
    <3>1. <<f.ci>> \in Seq(Byte) /\ Len(<<f.ci>>) = 1 /\ <<f.ci>>[1] = f.ci
      BY ONLY <1>4
    <3> QED  BY ONLY <1>5, <2>1, <3>1 DEF Coded
  <2>2. CASE f.phy # PHY_CODED
    <3>1. <<>> \in Seq(Byte) /\ Len(<<>>) = 0
      OBVIOUS
    <3> QED  BY ONLY <1>5, <2>2, <3>1 DEF Coded
  <2> QED  BY <2>1, <2>2
<1>7. PICK h : h = <<AirHeader(f)>>
  OBVIOUS
<1>8. h \in Seq(Byte) /\ Len(h) = 1 /\ h[1] = AirHeader(f)
  <2>1. <<AirHeader(f)>> \in Seq(Byte) /\ Len(<<AirHeader(f)>>) = 1
    BY <1>1
  <2> QED  BY <1>7, <2>1
<1>9. PICK n \in {0, 1} : n = Coded(f)
  BY DEF Coded
<1>10. PICK ai : ai = a \o i
  OBVIOUS
<1>11. /\ ai \in Seq(Byte) /\ Len(ai) = 4 + n /\ \A k \in 1..n : ai[4 + k] = i[k]
       /\ \A k \in 1..4 : ai[k] = a[k]
  <2>1. /\ a \o i \in Seq(Byte) /\ Len(a \o i) = Len(a) + Len(i)
        /\ \A k \in 1..Len(a) : (a \o i)[k] = a[k]
        /\ \A k \in 1..Len(i) : (a \o i)[Len(a) + k] = i[k]
    <3>1. a \in Seq(Byte) /\ i \in Seq(Byte)
      BY <1>3, <1>6
    <3> QED  BY ONLY <3>1, JoinedLists
  <2>2. Len(a) = 4 /\ Len(i) = n
    BY <1>3, <1>6, <1>9
  <2> QED  BY ONLY <1>10, <2>1, <2>2
<1>12. PICK aih : aih = ai \o h
  OBVIOUS
<1>13. /\ aih \in Seq(Byte) /\ Len(aih) = 5 + n /\ \A k \in 1..(4 + n) : aih[k] = ai[k]
       /\ aih[4 + n + 1] = h[1]
  <2>1. /\ ai \o h \in Seq(Byte) /\ Len(ai \o h) = Len(ai) + Len(h)
        /\ \A k \in 1..Len(ai) : (ai \o h)[k] = ai[k]
        /\ \A k \in 1..Len(h) : (ai \o h)[Len(ai) + k] = h[k]
    <3>1. ai \in Seq(Byte) /\ h \in Seq(Byte)
      BY <1>8, <1>11
    <3> QED  BY ONLY <3>1, JoinedLists
  <2>2. Len(ai) = 4 + n /\ Len(h) = 1 /\ 1 \in 1..Len(h)
    BY <1>8, <1>11
  <2> QED  BY ONLY <1>12, <2>1, <2>2, n \in {0, 1}
<1>14. Synchronisation(f) = aih
  BY <1>2, <1>5, <1>7, <1>10, <1>12 DEF Synchronisation
<1>15. f.phy = PHY_CODED => aih[5] = f.ci
  <2> SUFFICES ASSUME f.phy = PHY_CODED PROVE aih[5] = f.ci
    OBVIOUS
  <2>1. n = 1
    BY <1>9 DEF Coded
  <2>2. aih[5] = ai[5]
    BY <1>13, <2>1
  <2>3. ai[4 + 1] = i[1]
    BY <1>11, <2>1
  <2> QED  BY <1>6, <2>2, <2>3
<1>16. \A k \in 1..4 : aih[k] = a[k]
  BY <1>11, <1>13
<1>17. aih[5 + n] = AirHeader(f)
  <2>1. 4 + n + 1 = 5 + n
    BY ONLY n \in {0, 1}
  <2> QED  BY <1>8, <1>13, <2>1
<1> QED  BY <1>2, <1>9, <1>13, <1>14, <1>15, <1>16, <1>17

(* The bytes before the structures: the addresses, or the extended header. *)
AddressPart(f) == CASE ~IsAdv(f) -> <<>>
                    [] f.advType = 7 -> ExtendedHeader(f)
                    [] OTHER -> AddressBytes(f)

LEMMA ReversedList ==
  ASSUME NEW list \in Seq(Byte)
  PROVE  Reversed(list) \in Seq(Byte) /\ Len(Reversed(list)) = Len(list)
<1>1. PICK n \in Nat : n = Len(list)
  OBVIOUS
<1>2. \A i \in 1..n : list[n + 1 - i] \in Byte
  BY <1>1
<1>3. Reversed(list) = [i \in 1..n |-> list[n + 1 - i]]
  BY <1>1 DEF Reversed
<1>4. [i \in 1..n |-> list[n + 1 - i]] \in [1..n -> Byte]
  BY <1>2
<1> QED  BY <1>1, <1>3, <1>4

LEMMA AddressBytesList ==
  ASSUME NEW f, AddressOK(f.advA), AddressOK(f.targetA)
  PROVE  /\ AddressBytes(f) \in Seq(Byte) /\ Len(AddressBytes(f)) = Len(f.advA) + Len(f.targetA)
         /\ \A k \in 1..Len(f.advA) : AddressBytes(f)[k] = Reversed(f.advA)[k]
<1>1. PICK a : a = Reversed(f.advA)
  OBVIOUS
<1>2. PICK t : t = Reversed(f.targetA)
  OBVIOUS
<1>3. a \in Seq(Byte) /\ t \in Seq(Byte) /\ Len(a) = Len(f.advA) /\ Len(t) = Len(f.targetA)
  <2>1. f.advA \in Seq(Byte) /\ f.targetA \in Seq(Byte)
    BY DEF AddressOK
  <2> QED  BY ONLY <1>1, <1>2, <2>1, ReversedList
<1>4. /\ a \o t \in Seq(Byte) /\ Len(a \o t) = Len(a) + Len(t)
      /\ \A k \in 1..Len(a) : (a \o t)[k] = a[k]
      /\ \A k \in 1..Len(t) : (a \o t)[Len(a) + k] = t[k]
  <2>1. a \in Seq(Byte) /\ t \in Seq(Byte)
    BY <1>3
  <2> QED  BY ONLY <2>1, JoinedLists
<1>5. AddressBytes(f) = a \o t
  BY <1>1, <1>2 DEF AddressBytes
<1> QED  BY ONLY <1>1, <1>3, <1>4, <1>5

(* The extended header: its length, then, unless it is missing, the flags, *)
(* the addresses and the data info.                                        *)
Flag(list, value) == IF list # <<>> THEN value ELSE 0
ExtendedFlags(f) == Flag(f.advA, 1) + Flag(f.targetA, 2) + Flag(f.adi, 8)

LEMMA ExtendedHeaderList ==
  ASSUME NEW f, AddressOK(f.advA), AddressOK(f.targetA), f.adi \in Seq(Byte), Len(f.adi) \in {0, 2}
  PROVE  LET e == ExtendedHeader(f)
         IN  /\ e \in Seq(Byte) /\ Len(e) = 1 + e[1] /\ e[1] \in 0..15
             /\ ~f.header => e[1] = 0
             /\ f.header => /\ e[1] >= 1 + Len(f.advA) /\ e[2] = ExtendedFlags(f)
                            /\ \A k \in 1..Len(f.advA) : e[2 + k] = Reversed(f.advA)[k]
<1>1. CASE ~f.header
  <2>1. <<0>> \in Seq(Byte) /\ Len(<<0>>) = 1 /\ <<0>>[1] = 0
    BY DEF Byte
  <2>2. ExtendedHeader(f) = <<0>>
    BY <1>1 DEF ExtendedHeader
  <2>3. 0 \in 0..15 /\ 1 = 1 + 0
    OBVIOUS
  <2> QED  BY ONLY <1>1, <2>1, <2>2, <2>3
<1>2. CASE f.header
  <2>1. PICK b : b = AddressBytes(f)
    OBVIOUS
  <2>2. PICK r : r = Reversed(f.advA)
    OBVIOUS
  <2>3. PICK na \in {0, 6} : na = Len(f.advA)
    BY DEF AddressOK
  <2>4. PICK nt \in {0, 6} : nt = Len(f.targetA)
    BY DEF AddressOK
  <2>5. PICK nd \in {0, 2} : nd = Len(f.adi)
    OBVIOUS
  <2>6. b \in Seq(Byte) /\ Len(b) = na + nt /\ \A k \in 1..na : b[k] = r[k]
    BY ONLY AddressOK(f.advA), AddressOK(f.targetA), <2>1, <2>2, <2>3, <2>4, AddressBytesList
  <2>7. PICK fl \in 0..11 : fl = ExtendedFlags(f)
    <3>1. Flag(f.advA, 1) \in {0, 1} /\ Flag(f.targetA, 2) \in {0, 2} /\ Flag(f.adi, 8) \in {0, 8}
      BY DEF Flag
    <3>2. ExtendedFlags(f) \in 0..11
      BY ONLY <3>1 DEF ExtendedFlags
    <3> QED  BY <3>2
  <2>8. PICK h : h = <<fl>>
    OBVIOUS
  <2>9. h \in Seq(Byte) /\ Len(h) = 1 /\ h[1] = fl
    <3>1. fl \in Byte
      BY DEF Byte
    <3> QED  BY <2>8, <3>1
  <2>10. PICK d : d = f.adi
    OBVIOUS
  <2>11. d \in Seq(Byte) /\ Len(d) = nd
    BY <2>5, <2>10
  <2>12. PICK x : x = h \o b
    OBVIOUS
  <2>13. /\ x \in Seq(Byte) /\ Len(x) = 1 + (na + nt) /\ x[1] = fl
         /\ \A k \in 1..(na + nt) : x[1 + k] = b[k]
    <3>1. /\ h \o b \in Seq(Byte) /\ Len(h \o b) = Len(h) + Len(b)
          /\ \A k \in 1..Len(h) : (h \o b)[k] = h[k]
          /\ \A k \in 1..Len(b) : (h \o b)[Len(h) + k] = b[k]
      <4>1. h \in Seq(Byte) /\ b \in Seq(Byte)
        BY <2>6, <2>9
      <4> QED  BY ONLY <4>1, JoinedLists
    <3>2. 1 \in 1..1
      OBVIOUS
    <3> QED  BY ONLY <2>6, <2>9, <2>12, <3>1, <3>2
  <2>14. PICK y : y = x \o d
    OBVIOUS
  <2>15. /\ y \in Seq(Byte) /\ Len(y) = 1 + (na + nt) + nd
         /\ \A k \in 1..(1 + (na + nt)) : y[k] = x[k]
    <3>1. /\ x \o d \in Seq(Byte) /\ Len(x \o d) = Len(x) + Len(d)
          /\ \A k \in 1..Len(x) : (x \o d)[k] = x[k]
          /\ \A k \in 1..Len(d) : (x \o d)[Len(x) + k] = d[k]
      <4>1. x \in Seq(Byte) /\ d \in Seq(Byte)
        BY <2>11, <2>13
      <4> QED  BY ONLY <4>1, JoinedLists
    <3> QED  BY ONLY <2>11, <2>13, <2>14, <3>1
  <2>16. PICK m \in 1..15 : m = Len(y)
    <3>1. 1 + (na + nt) + nd \in 1..15
      OBVIOUS
    <3> QED  BY ONLY <2>15, <3>1
  <2>17. m >= 1 + na
    <3>1. m = 1 + (na + nt) + nd
      BY ONLY <2>15, <2>16
    <3> QED  BY ONLY <3>1, na \in {0, 6}, nt \in {0, 6}, nd \in {0, 2}
  <2>18. PICK l : l = <<m>>
    OBVIOUS
  <2>19. l \in Seq(Byte) /\ Len(l) = 1 /\ l[1] = m
    <3>1. m \in Byte
      BY DEF Byte
    <3> QED  BY <2>18, <3>1
  <2>20. PICK e : e = l \o y
    OBVIOUS
  <2>21. /\ e \in Seq(Byte) /\ Len(e) = 1 + m /\ e[1] = m
         /\ \A k \in 1..m : e[1 + k] = y[k]
    <3>1. /\ l \o y \in Seq(Byte) /\ Len(l \o y) = Len(l) + Len(y)
          /\ \A k \in 1..Len(l) : (l \o y)[k] = l[k]
          /\ \A k \in 1..Len(y) : (l \o y)[Len(l) + k] = y[k]
      <4>1. l \in Seq(Byte) /\ y \in Seq(Byte)
        BY <2>15, <2>19
      <4> QED  BY ONLY <4>1, JoinedLists
    <3>2. 1 \in 1..1
      OBVIOUS
    <3> QED  BY ONLY <2>16, <2>19, <2>20, <3>1, <3>2
  <2>22. e[2] = fl
    <3>1. 1 \in 1..m /\ 1 + 1 = 2 /\ 1 \in 1..(1 + (na + nt))
      OBVIOUS
    <3> QED  BY <2>13, <2>15, <2>21, <3>1
  <2>23. ASSUME NEW k \in 1..na PROVE e[2 + k] = r[k]
    <3>1. /\ 1 + k \in 1..m /\ 1 + (1 + k) = 2 + k /\ 1 + k \in 1..(1 + (na + nt))
          /\ k \in 1..(na + nt)
      BY ONLY <2>17, na \in {0, 6}, nt \in {0, 6}, m \in 1..15, k \in 1..na
    <3>2. e[1 + (1 + k)] = y[1 + k]
      BY ONLY <2>21, <3>1
    <3>3. y[1 + k] = b[k]
      BY <2>13, <2>15, <3>1
    <3> QED  BY <2>6, <3>1, <3>2, <3>3
  <2>24. ExtendedHeader(f) = e
    BY <1>2, <2>1, <2>7, <2>8, <2>10, <2>12, <2>14, <2>16, <2>18, <2>20
       DEF ExtendedHeader, ExtendedFlags, Flag
  <2>25. m \in 0..15
    OBVIOUS
  <2> QED  BY ONLY <1>2, <2>2, <2>3, <2>7, <2>17, <2>21, <2>22, <2>23, <2>24, <2>25
<1> QED  BY <1>1, <1>2

LEMMA PayloadTyped ==
  ASSUME NEW f \in Frames
  PROVE  LET a == AddressPart(f)
             s == Structures(f)
             p == AirPayload(f)
         IN  /\ a \in Seq(Byte) /\ s \in Seq(Byte) /\ p \in Seq(Byte) /\ Len(p) = Len(a) + Len(s)
             /\ \A k \in 1..Len(a) : p[k] = a[k]
             /\ \A k \in 1..Len(s) : p[Len(a) + k] = s[k]
<1>1. FrameOK(f)
  BY FrameTyped
<1>2. AddressPart(f) \in Seq(Byte)
  <2>1. AddressBytes(f) \in Seq(Byte)
    BY <1>1, AddressBytesList DEF FrameOK
  <2>2. ExtendedHeader(f) \in Seq(Byte)
    BY <1>1, ExtendedHeaderList DEF FrameOK
  <2>3. <<>> \in Seq(Byte)
    OBVIOUS
  <2>4. ~IsAdv(f) => f.advType # 7
    BY DEF IsAdv
  <2> QED  BY ONLY <2>1, <2>2, <2>3, <2>4 DEF AddressPart
<1>3. Structures(f) \in Seq(Byte)
  BY <1>1, StructuresLaid DEF FrameOK
<1>4. AirPayload(f) = AddressPart(f) \o Structures(f)
  BY DEF AirPayload, AddressPart
<1>5. PICK a, s : a = AddressPart(f) /\ s = Structures(f)
  OBVIOUS
<1>6. a \in Seq(Byte) /\ s \in Seq(Byte)
  BY <1>2, <1>3, <1>5
<1>7. /\ a \o s \in Seq(Byte) /\ Len(a \o s) = Len(a) + Len(s)
      /\ \A k \in 1..Len(a) : (a \o s)[k] = a[k]
      /\ \A k \in 1..Len(s) : (a \o s)[Len(a) + k] = s[k]
  BY ONLY <1>6, JoinedLists
<1> QED  BY ONLY <1>4, <1>5, <1>6, <1>7
LEMMA AirBytesTyped ==
  ASSUME NEW f \in Frames
  PROVE  LET a == AirBytes(f)
             d == Coded(f)
             p == AirPayload(f)
         IN  /\ a \in Seq(Byte) /\ Len(a) = 9 + d + Len(p)
             /\ \A k \in 1..4 : a[k] = f.accessAddress[k]
             /\ f.phy = PHY_CODED => a[5] = f.ci
             /\ a[5 + d] = AirHeader(f) /\ a[6 + d] = Len(p)
             /\ \A k \in 1..Len(p) : a[6 + d + k] = p[k]
             /\ \A k \in 1..3 : a[6 + d + Len(p) + k] = f.crc[k]
<1>1. FrameOK(f)
  BY FrameTyped
<1>2. PICK s : s = Synchronisation(f)
  OBVIOUS
<1>3. /\ s \in Seq(Byte) /\ Len(s) = 5 + Coded(f) /\ (f.phy = PHY_CODED => s[5] = f.ci)
      /\ \A k \in 1..4 : s[k] = f.accessAddress[k]
      /\ s[5 + Coded(f)] = AirHeader(f)
  BY <1>2, SynchronisationList
<1>4. PICK p : p = AirPayload(f)
  OBVIOUS
<1>5. PICK c : c = f.crc
  OBVIOUS
<1>6. PICK n \in Byte : n = Len(p)
  BY <1>1, <1>4 DEF FrameOK
<1>7. p \in Seq(Byte) /\ c \in Seq(Byte) /\ Len(c) = 3
  <2>1. p \in Seq(Byte)
    BY <1>4, PayloadTyped
  <2> QED  BY <1>1, <1>5, <2>1 DEF FrameOK
<1>8. PICK l : l = <<n>>
  OBVIOUS
<1>9. l \in Seq(Byte) /\ Len(l) = 1 /\ l[1] = n
  BY <1>8
<1>10. PICK d \in {0, 1} : d = Coded(f)
  BY DEF Coded
<1>11. n \in Nat
  BY DEF Byte
<1>12. PICK sl : sl = s \o l
  OBVIOUS
<1>13. /\ sl \in Seq(Byte) /\ Len(sl) = 6 + d /\ \A k \in 1..(5 + d) : sl[k] = s[k]
       /\ sl[6 + d] = n
  <2>1. /\ s \o l \in Seq(Byte) /\ Len(s \o l) = Len(s) + Len(l)
        /\ \A k \in 1..Len(s) : (s \o l)[k] = s[k]
        /\ \A k \in 1..Len(l) : (s \o l)[Len(s) + k] = l[k]
    <3>1. s \in Seq(Byte) /\ l \in Seq(Byte)
      BY <1>3, <1>9
    <3> QED  BY ONLY <3>1, JoinedLists
  <2>2. Len(s) = 5 + d /\ Len(l) = 1 /\ 1 \in 1..Len(l) /\ l[1] = n
    BY <1>3, <1>9, <1>10
  <2>3. 5 + d + 1 = 6 + d
    OBVIOUS
  <2> QED  BY ONLY <1>12, <2>1, <2>2, <2>3
<1>14. PICK slp : slp = sl \o p
  OBVIOUS
<1>15. /\ slp \in Seq(Byte) /\ Len(slp) = 6 + d + n /\ \A k \in 1..(6 + d) : slp[k] = sl[k]
       /\ \A k \in 1..n : slp[6 + d + k] = p[k]
  <2>1. /\ sl \o p \in Seq(Byte) /\ Len(sl \o p) = Len(sl) + Len(p)
        /\ \A k \in 1..Len(sl) : (sl \o p)[k] = sl[k]
        /\ \A k \in 1..Len(p) : (sl \o p)[Len(sl) + k] = p[k]
    <3>1. sl \in Seq(Byte) /\ p \in Seq(Byte)
      BY <1>7, <1>13
    <3> QED  BY ONLY <3>1, JoinedLists
  <2> QED  BY ONLY <1>6, <1>13, <1>14, <2>1
<1>16. PICK a : a = slp \o c
  OBVIOUS
<1>17. /\ a \in Seq(Byte) /\ Len(a) = 6 + d + n + 3 /\ \A k \in 1..(6 + d + n) : a[k] = slp[k]
       /\ \A k \in 1..3 : a[6 + d + n + k] = c[k]
  <2>1. /\ slp \o c \in Seq(Byte) /\ Len(slp \o c) = Len(slp) + Len(c)
        /\ \A k \in 1..Len(slp) : (slp \o c)[k] = slp[k]
        /\ \A k \in 1..Len(c) : (slp \o c)[Len(slp) + k] = c[k]
    <3>1. slp \in Seq(Byte) /\ c \in Seq(Byte)
      BY <1>7, <1>15
    <3> QED  BY ONLY <3>1, JoinedLists
  <2> QED  BY ONLY <1>7, <1>15, <1>16, <2>1
<1>18. AirBytes(f) = a
  BY <1>2, <1>4, <1>5, <1>6, <1>8, <1>12, <1>14, <1>16 DEF AirBytes
<1>19. Len(a) = 9 + d + n
  <2>1. 6 + d + n + 3 = 9 + d + n
    BY ONLY d \in {0, 1}, <1>11
  <2> QED  BY ONLY <1>17, <2>1
<1>20. \A k \in 1..(5 + d) : a[k] = s[k]
  <2>1. \A k \in 1..(5 + d) : k \in 1..(6 + d) /\ k \in 1..(6 + d + n)
    BY ONLY <1>11, d \in {0, 1}
  <2> QED  BY ONLY <1>13, <1>15, <1>17, <2>1
<1>21. /\ \A k \in 1..4 : a[k] = f.accessAddress[k]
       /\ f.phy = PHY_CODED => a[5] = f.ci
       /\ a[5 + d] = AirHeader(f)
  <2>1. /\ \A k \in 1..4 : k \in 1..(5 + d)
        /\ 5 \in 1..(5 + d) /\ 5 + d \in 1..(5 + d)
    BY ONLY d \in {0, 1}
  <2> QED  BY ONLY <1>3, <1>10, <1>20, <2>1
<1>22. a[6 + d] = n
  <2>1. 6 + d \in 1..(6 + d) /\ 6 + d \in 1..(6 + d + n)
    BY ONLY <1>11, d \in {0, 1}
  <2> QED  BY ONLY <1>13, <1>15, <1>17, <2>1
<1>23. \A k \in 1..n : a[6 + d + k] = p[k]
  <2>1. \A k \in 1..n : 6 + d + k \in 1..(6 + d + n)
    BY ONLY <1>11, d \in {0, 1}
  <2> QED  BY ONLY <1>15, <1>17, <2>1
<1> QED  BY ONLY <1>4, <1>5, <1>6, <1>10, <1>17, <1>18, <1>19, <1>21, <1>22, <1>23

LEMMA FrameBytes ==
  ASSUME NEW f \in Frames, NEW crcOK \in BOOLEAN, clock \in Nat, protover \in ProtoVers
  PROVE  LET pl == FramePayload(f, crcOK)
             air == AirBytes(f)
         IN  /\ pl \in Seq(Byte) /\ Len(pl) = 7 + TimestampSize + Len(air)
             /\ air \in Seq(Byte) /\ Len(air) = 9 + Coded(f) + Len(AirPayload(f))
             /\ pl[1] = BLE_HEADER_LENGTH /\ pl[2] = FlagsByte(f, crcOK)
             /\ \A k \in 1..TimestampSize : pl[6 + k] = ToLittleEndian(clock, TimestampSize)[k]
             /\ f.phy = PHY_CODED => air[5] = f.ci
             /\ \A k \in 1..(6 + Coded(f)) : pl[6 + TimestampSize + k] = air[k]
             /\ \A k \in (7 + Coded(f))..Len(air) : pl[7 + TimestampSize + k] = air[k]
             /\ pl \in SmallPayload
<1>0. PICK T \in 1..4 : T = TimestampSize
  BY PacketAssumption
<1>1. FrameOK(f) /\ FlagsByte(f, crcOK) \in Byte
  BY FrameTyped
<1>2. PICK h : h = BleHeader(f, crcOK)
  OBVIOUS
<1>3. h \in Seq(Byte) /\ Len(h) = 6 /\ h[1] = BLE_HEADER_LENGTH /\ h[2] = FlagsByte(f, crcOK)
  <2>1. PICK x \in Byte : x = BLE_HEADER_LENGTH
    BY PacketAssumption DEF BLE_HEADER_LENGTH, Byte
  <2>2. PICK y \in Byte : y = FlagsByte(f, crcOK)
    BY <1>1
  <2>3. 37 \in Byte /\ 60 \in Byte /\ 0 \in Byte
    BY DEF Byte
  <2>4. /\ <<x, y, 37, 60, 0, 0>> \in Seq(Byte) /\ Len(<<x, y, 37, 60, 0, 0>>) = 6
        /\ <<x, y, 37, 60, 0, 0>>[1] = x /\ <<x, y, 37, 60, 0, 0>>[2] = y
    BY <2>3
  <2>5. h = <<x, y, 37, 60, 0, 0>>
    BY <1>2, <2>1, <2>2 DEF BleHeader
  <2> QED  BY <2>1, <2>2, <2>4, <2>5
<1>4. PICK t : t = ToLittleEndian(clock, TimestampSize)
  OBVIOUS
<1>5. t \in Seq(Byte) /\ Len(t) = TimestampSize
  <2>1. clock \in Int
    OBVIOUS
  <2> QED  BY ONLY <1>4, <2>1, ToSome
<1>6. PICK s : s = Synchronisation(f)
  OBVIOUS
<1>7. s \in Seq(Byte) /\ Len(s) = 5 + Coded(f) /\ (f.phy = PHY_CODED => s[5] = f.ci)
  BY <1>6, SynchronisationList
<1>8. PICK n \in Byte : n = Len(AirPayload(f))
  BY <1>1 DEF FrameOK
<1>nat. n \in Nat /\ n <= 255
  BY DEF Byte
<1>zero. PICK z \in Byte : z = 0
  BY DEF Byte
<1>13. PICK p : p = AirPayload(f)
  OBVIOUS
<1>14. PICK c : c = f.crc
  OBVIOUS
<1>15. p \in Seq(Byte) /\ Len(p) = n /\ c \in Seq(Byte) /\ Len(c) = 3
  <2>1. p \in Seq(Byte)
    BY <1>13, PayloadTyped
  <2> QED  BY <1>1, <1>8, <1>13, <1>14, <2>1 DEF FrameOK
<1>16. PICK pl : pl = FramePayload(f, crcOK)
  OBVIOUS
<1>17. PICK air : air = AirBytes(f)
  OBVIOUS
<1>18. pl = Padded(h, t, s, n, z, p, c) /\ air = OnAir(s, n, p, c)
  BY <1>2, <1>4, <1>6, <1>8, <1>13, <1>14, <1>16, <1>17, <1>zero
     DEF FramePayload, AirBytes, Padded, OnAir
<1>19. /\ pl \in Seq(Byte) /\ Len(pl) = Len(h) + Len(t) + Len(air) + 1
       /\ air \in Seq(Byte) /\ Len(air) = Len(s) + 1 + Len(p) + Len(c)
       /\ \A k \in 1..Len(h) : pl[k] = h[k]
       /\ \A k \in 1..Len(t) : pl[Len(h) + k] = t[k]
       /\ \A k \in 1..Len(s) : air[k] = s[k]
       /\ \A k \in 1..(Len(s) + 1) : pl[Len(h) + Len(t) + k] = air[k]
       /\ \A k \in (Len(s) + 1 + 1)..Len(air) : pl[Len(h) + Len(t) + k + 1] = air[k]
  <2>1. /\ h \in Seq(Byte) /\ t \in Seq(Byte) /\ s \in Seq(Byte) /\ n \in Byte /\ z \in Byte
        /\ p \in Seq(Byte) /\ c \in Seq(Byte)
    BY <1>3, <1>5, <1>7, <1>15, <1>zero
  <2>2. LET padded == Padded(h, t, s, n, z, p, c)
            onAir == OnAir(s, n, p, c)
        IN  /\ padded \in Seq(Byte) /\ Len(padded) = Len(h) + Len(t) + Len(onAir) + 1
            /\ onAir \in Seq(Byte) /\ Len(onAir) = Len(s) + 1 + Len(p) + Len(c)
            /\ \A k \in 1..Len(h) : padded[k] = h[k]
            /\ \A k \in 1..Len(t) : padded[Len(h) + k] = t[k]
            /\ \A k \in 1..Len(s) : onAir[k] = s[k]
            /\ \A k \in 1..(Len(s) + 1) : padded[Len(h) + Len(t) + k] = onAir[k]
            /\ \A k \in (Len(s) + 1 + 1)..Len(onAir) : padded[Len(h) + Len(t) + k + 1] = onAir[k]
    <3>1. Parts(Byte, h, t, s, n, z, p, c)
      BY ONLY <2>1 DEF Parts
    <3> QED  BY ONLY <3>1, PaddedList
  <2> QED  BY ONLY <1>18, <2>2
<1>20. PICK d \in {0, 1} : d = Coded(f)
  BY DEF Coded
<1>21. /\ Len(h) = 6 /\ Len(t) = T /\ Len(s) = 5 + d /\ Len(p) = n /\ Len(c) = 3
  BY <1>0, <1>3, <1>5, <1>7, <1>15, <1>20
<1>22. /\ Len(air) = 9 + d + n /\ Len(pl) = 7 + T + Len(air)
       /\ \A k \in 1..6 : pl[k] = h[k]
       /\ \A k \in 1..T : pl[6 + k] = t[k]
       /\ \A k \in 1..(5 + d) : air[k] = s[k]
       /\ \A k \in 1..(6 + d) : pl[6 + T + k] = air[k]
  <2>1. Len(air) = 9 + d + n /\ Len(pl) = 7 + T + Len(air)
    BY ONLY <1>19, <1>21, <1>nat, T \in 1..4, d \in {0, 1}
  <2>2. \A k \in 1..6 : pl[k] = h[k]
    BY ONLY <1>19, <1>21
  <2>3. \A k \in 1..T : pl[6 + k] = t[k]
    BY ONLY <1>19, <1>21
  <2>4. \A k \in 1..(5 + d) : air[k] = s[k]
    BY ONLY <1>19, <1>21
  <2>6. ASSUME NEW k \in 1..(6 + d) PROVE pl[6 + T + k] = air[k]
    <3>1. k \in 1..(Len(s) + 1) /\ Len(h) + Len(t) + k = 6 + T + k
      BY ONLY <1>21, T \in 1..4, d \in {0, 1}, k \in 1..(6 + d)
    <3> QED  BY ONLY <1>19, <3>1
  <2> QED  BY <2>1, <2>2, <2>3, <2>4, <2>6
<1>23. ASSUME NEW k \in (7 + d)..Len(air) PROVE pl[7 + T + k] = air[k]
  <2>1. k \in (Len(s) + 1 + 1)..Len(air) /\ Len(h) + Len(t) + k + 1 = 7 + T + k
    BY <1>21, <1>22
  <2> QED  BY <1>19, <2>1
<1>24. f.phy = PHY_CODED => air[5] = f.ci
  BY <1>7, <1>22
<1>25. pl \in SmallPayload
  <2>1. Len(pl) = 16 + T + d + n
    BY ONLY <1>22, <1>nat, T \in 1..4, d \in {0, 1}
  <2>2. Len(pl) <= 514
    BY <2>1, <1>nat
  <2>3. protover = PROTOVER_V1 => Len(pl) \in Byte
    <3> SUFFICES ASSUME protover = PROTOVER_V1 PROVE Len(pl) \in Byte
      OBVIOUS
    <3>1. n + (6 + T) + 11 \in Byte
      BY <1>0, <1>1, <1>8, <1>nat DEF FrameOK, ShortFrame, BLE_HEADER_LENGTH
    <3> QED  BY <2>1, <3>1 DEF Byte
  <2> QED  BY <1>19, <2>2, <2>3 DEF SmallPayload
<1>26. pl[1] = BLE_HEADER_LENGTH /\ pl[2] = FlagsByte(f, crcOK)
  BY <1>3, <1>22
<1> QED  BY ONLY <1>0, <1>4, <1>8, <1>16, <1>17, <1>19, <1>20, <1>22, <1>23, <1>24, <1>25, <1>26
-----------------------------------------------------------------------------
(* The name that is read: the recursion has a solution, from the end back. *)
LEMMA Largest ==
  ASSUME NEW N \in Nat, NEW S, S \subseteq 1..N, S # {}
  PROVE  \E i \in S : \A j \in S : j <= i
<1> DEFINE D == {n \in 0..N : N - n \in S}
<1>1. \A j \in S : N - j \in D
  <2>1. \A j \in S : j \in 1..N
    OBVIOUS
  <2>2. \A j \in 1..N : N - j \in 0..N /\ N - (N - j) = j
    OBVIOUS
  <2> QED  BY <2>1, <2>2
<1>2. PICK d \in D : \A e \in D : ~(<<e, d>> \in OpToRel(<, Nat))
  <2>1. D \subseteq Nat
    OBVIOUS
  <2>2. D # {}
    <3>1. PICK j : j \in S
      OBVIOUS
    <3>2. N - j \in D
      BY <1>1, <3>1
    <3> HIDE DEF D
    <3> QED  BY <3>2
  <2> QED  BY <2>1, <2>2, NatLessThanWellFounded, WFMin
<1>3. ASSUME NEW j \in S PROVE j <= N - d
  <2>1. N - j \in D /\ N - j \in Nat /\ d \in Nat /\ j \in 1..N
    BY <1>1
  <2>2. ~(N - j < d)
    BY <1>2, <2>1 DEF OpToRel
  <2> QED  BY ONLY <2>1, <2>2, N \in Nat
<1> QED  BY <1>3

NameStep(last, list, i) ==
  IF i = Len(list) \/ At(list, i) = 0 \/ i + At(list, i) + 1 > Len(list) THEN -1
  ELSE IF last[i + At(list, i) + 1] # -1 THEN last[i + At(list, i) + 1]
  ELSE IF At(list, i + 1) \in {8, 9} THEN i ELSE -1

LastNamesOf(last, list) == \A i \in 0..Len(list) : last[i] = NameStep(last, list, i)

LEMMA LastNames ==
  ASSUME NEW list \in Seq(Byte)
  PROVE  \E last \in [0..Len(list) -> Int] : \A i \in 0..Len(list) : last[i] = NameStep(last, list, i)
<1>1. PICK L \in Nat : L = Len(list)
  OBVIOUS
<1>2. ASSUME NEW i \in 0..L, i # L PROVE At(list, i) \in Nat
  <2>1. i + 1 \in 1..Len(list)
    BY <1>1, <1>2
  <2>2. list[i + 1] \in Nat
    BY ONLY <2>1, list \in Seq(Byte), ByteIn
  <2> QED  BY <2>2 DEF At
<1> DEFINE S == {n \in 0..L : \E g \in [(L - n)..L -> Int] :
                               \A i \in (L - n)..L : g[i] = NameStep(g, list, i)}
<1>3. 0 \in S
  <2>1. PICK g : g = [i \in L..L |-> -1]
    OBVIOUS
  <2>2. g \in [L..L -> Int] /\ \A i \in L..L : g[i] = NameStep(g, list, i)
    BY <1>1, <2>1 DEF NameStep
  <2>3. L - 0 = L /\ 0 \in 0..L
    OBVIOUS
  <2> QED  BY <2>2, <2>3
<1>4. ASSUME NEW n \in 0..L, n < L, n \in S PROVE n + 1 \in S
  <2>1. PICK g \in [(L - n)..L -> Int] : \A i \in (L - n)..L : g[i] = NameStep(g, list, i)
    BY <1>4
  <2>2. PICK m \in Nat : m = L - (n + 1) /\ m + 1 = L - n
    BY <1>4
  <2>3. m \in 0..L /\ m # L /\ n + 1 \in 0..L /\ \A i \in m..L : i = m \/ i \in (m + 1)..L
    BY <1>4, <2>2
  <2>4. PICK x : x = NameStep(g, list, m)
    OBVIOUS
  <2>5. PICK h : h = [i \in m..L |-> IF i = m THEN x ELSE g[i]]
    OBVIOUS
  <2>6. \A i \in (m + 1)..L : h[i] = g[i]
    <3>1. \A i \in (m + 1)..L : i \in m..L /\ i # m
      OBVIOUS
    <3> QED  BY <2>5, <3>1
  <2>7. h[m] = x
    <3>1. m \in m..L
      BY <2>3
    <3> QED  BY <2>5, <3>1
  <2>8. ASSUME NEW i \in m..L PROVE NameStep(h, list, i) = NameStep(g, list, i)
    <3>1. CASE i = L \/ At(list, i) = 0 \/ i + At(list, i) + 1 > L
      BY <1>1, <3>1 DEF NameStep
    <3>2. CASE ~(i = L \/ At(list, i) = 0 \/ i + At(list, i) + 1 > L)
      <4>1. PICK k \in Nat : k = At(list, i)
        BY <1>2, <2>3, <3>2
      <4>2. i + k + 1 \in (m + 1)..L
        BY <3>2, <4>1
      <4>3. h[i + k + 1] = g[i + k + 1]
        BY <2>6, <4>2
      <4> QED  BY ONLY <4>1, <4>3 DEF NameStep
    <3> QED  BY <3>1, <3>2
  <2>9. x \in Int
    <3>1. CASE m = L \/ At(list, m) = 0 \/ m + At(list, m) + 1 > L
      BY <1>1, <2>4, <3>1 DEF NameStep
    <3>2. CASE ~(m = L \/ At(list, m) = 0 \/ m + At(list, m) + 1 > L)
      <4>1. PICK k \in Nat : k = At(list, m)
        BY <1>2, <2>3
      <4>2. m + k + 1 \in (m + 1)..L
        BY <3>2, <4>1
      <4>3. g[m + k + 1] \in Int
        BY <2>2, <4>2
      <4> QED  BY ONLY <2>4, <4>1, <4>3, m \in Nat DEF NameStep
    <3> QED  BY <3>1, <3>2
  <2>10. h \in [m..L -> Int]
    <3>1. \A i \in (m + 1)..L : g[i] \in Int
      BY <2>2
    <3> QED  BY ONLY <2>3, <2>5, <2>9, <3>1
  <2>11. \A i \in m..L : h[i] = NameStep(h, list, i)
    <3>1. \A i \in (m + 1)..L : g[i] = NameStep(g, list, i)
      BY <2>1, <2>2
    <3> QED  BY ONLY <2>3, <2>4, <2>6, <2>7, <2>8, <3>1
  <2> QED  BY <2>2, <2>3, <2>10, <2>11
<1> HIDE DEF S
<1>5. \A n \in 0..L : n \in S
  <2>1. \A n \in 0..L : n < L /\ n \in S => n + 1 \in S
    BY <1>4
  <2> QED  BY ONLY <1>3, <2>1, L \in Nat, Induction
<1>6. L \in S /\ L - L = 0
  BY <1>5
<1> QED  BY <1>1, <1>6 DEF S

LEMMA NameRead ==
  ASSUME NEW list \in Seq(Byte)
  PROVE  \E last : /\ LastNamesOf(last, list)
                   /\ \A offset \in 0..(Len(list) - 1) :
                        ExtractName(list, offset)
                          = IF last[offset] = -1 THEN <<>>
                            ELSE Slice(list, last[offset] + 2,
                                       last[offset] + At(list, last[offset]) + 1)
<1>1. PICK g \in [0..Len(list) -> Int] : \A i \in 0..Len(list) : g[i] = NameStep(g, list, i)
  BY LastNames
<1> DEFINE last == CHOOSE last : last = [i \in 0..Len(list) |-> NameStep(last, list, i)]
<1>2. g = [i \in 0..Len(list) |-> NameStep(g, list, i)]
  <2>1. g = [i \in 0..Len(list) |-> g[i]]
    OBVIOUS
  <2> QED  BY ONLY <1>1, <2>1
<1>3. last = [i \in 0..Len(list) |-> NameStep(last, list, i)]
  BY ONLY ZenonT(60), <1>2
<1>4. ASSUME NEW offset \in 0..(Len(list) - 1)
      PROVE  ExtractName(list, offset)
               = IF last[offset] = -1 THEN <<>>
                 ELSE Slice(list, last[offset] + 2, last[offset] + At(list, last[offset]) + 1)
  <2>1. ~(offset >= Len(list))
    OBVIOUS
  <2>2. ExtractName(list, offset)
          = IF offset >= Len(list) \/ last[offset] = -1 THEN <<>>
            ELSE Slice(list, last[offset] + 2, last[offset] + At(list, last[offset]) + 1)
    BY ONLY ZenonT(60) DEF ExtractName, NameStep
  <2> QED  BY ONLY <2>1, <2>2
<1> HIDE DEF last
<1>5. LastNamesOf(last, list)
  BY ONLY <1>3 DEF LastNamesOf
<1> QED  BY <1>4, <1>5

(* The three bytes of the CRC are searched as well.                        *)
LEMMA NameInCrc ==
  ASSUME NEW list \in Seq(Byte), NEW last, NEW e \in Nat, Len(list) = e + 3,
         LastNamesOf(last, list)
  PROVE  last[e] = IF list[e + 1] \in {1, 2} /\ list[e + 2] \in {8, 9} THEN e ELSE -1
<1>1. PICK L \in Nat : L = Len(list) /\ L = e + 3
  OBVIOUS
<1>0. L = e + 3
  BY <1>1
<1>2. PICK x \in Nat : x = At(list, e) /\ x = list[e + 1]
  <2>1. e + 1 \in 1..Len(list)
    OBVIOUS
  <2>2. list[e + 1] \in Nat
    BY ONLY <2>1, list \in Seq(Byte), ByteIn
  <2> QED  BY <2>2 DEF At
<1>3. PICK z \in Nat : z = At(list, e + 2)
  <2>1. e + 2 + 1 \in 1..Len(list)
    OBVIOUS
  <2>2. list[e + 2 + 1] \in Nat
    BY ONLY <2>1, list \in Seq(Byte), ByteIn
  <2> QED  BY <2>2 DEF At
<1>4. At(list, e + 1) = list[e + 2]
  <2>1. e + 1 + 1 = e + 2
    OBVIOUS
  <2> QED  BY <2>1 DEF At
<1>5. last[L] = -1
  <2>1. L \in 0..Len(list)
    BY <1>1
  <2>2. last[L] = NameStep(last, list, L)
    BY <2>1 DEF LastNamesOf
  <2> QED  BY <1>1, <2>2 DEF NameStep
<1>6. last[e + 2] = -1
  <2>1. e + 2 \in 0..Len(list)
    OBVIOUS
  <2>2. last[e + 2] = NameStep(last, list, e + 2)
    BY <2>1 DEF LastNamesOf
  <2>3. z = 0 \/ e + 2 + z + 1 > L
    BY ONLY <1>0, e \in Nat, z \in Nat
  <2> QED  BY <1>1, <1>3, <2>2, <2>3 DEF NameStep
<1>7. /\ e # L /\ (x = 1 => e + x + 1 = e + 2) /\ (x = 2 => e + x + 1 = L)
      /\ (x \notin {0, 1, 2} => e + x + 1 > L) /\ (x \in {1, 2} => x # 0 /\ ~(e + x + 1 > L))
  BY ONLY <1>0, e \in Nat, x \in Nat
<1>8. last[e] = NameStep(last, list, e)
  <2>1. e \in 0..Len(list)
    OBVIOUS
  <2> QED  BY <2>1 DEF LastNamesOf
<1>9. CASE x \in {1, 2}
  <2>1. last[e + x + 1] = -1
    BY <1>5, <1>6, <1>7, <1>9
  <2>2. NameStep(last, list, e) = IF At(list, e + 1) \in {8, 9} THEN e ELSE -1
    BY ONLY <1>1, <1>2, <1>7, <1>9, <2>1 DEF NameStep
  <2> QED  BY ONLY <1>2, <1>4, <1>8, <1>9, <2>2
<1>10. CASE x \notin {1, 2}
  <2>1. x = 0 \/ e + x + 1 > L
    BY <1>7, <1>10
  <2>2. NameStep(last, list, e) = -1
    BY ONLY <1>1, <1>2, <2>1 DEF NameStep
  <2> QED  BY ONLY <1>2, <1>8, <1>10, <2>2
<1> QED  BY <1>9, <1>10

(* A structure read at offset q, with e the offset of the next.            *)
Follows(e, s, q) == e = q + 2 + Len(s.value)
Passes(last, s, q, e) ==
  last[q] = IF last[e] # -1 THEN last[e] ELSE IF s.type \in {8, 9} THEN q ELSE -1

LEMMA NameAtStructure ==
  ASSUME NEW list \in Seq(Byte), NEW last, NEW s \in Structure, NEW q \in Nat, NEW e \in Nat,
         Follows(e, s, q), e <= Len(list), Placed(list, s, q),
         LastNamesOf(last, list)
  PROVE  Passes(last, s, q, e)
<1>1. PICK m \in Nat : m = Len(s.value)
  BY DEF Structure
<1>2. PICK L \in Nat : L = Len(list)
  OBVIOUS
<1>3. e = q + 2 + m /\ e <= L
  BY <1>1, <1>2 DEF Follows
<1>4. /\ q \in 0..L /\ q # L /\ m + 1 # 0 /\ q + (m + 1) + 1 = e /\ ~(q + (m + 1) + 1 > L)
      /\ q + 1 + 1 = q + 2
  BY ONLY <1>3, q \in Nat, m \in Nat, L \in Nat
<1>5. list[q + 1] = m + 1 /\ list[q + 2] = s.type
  BY <1>1 DEF Placed
<1>6. At(list, q) = m + 1 /\ At(list, q + 1) = s.type
  BY <1>4, <1>5 DEF At
<1>7. last[q] = NameStep(last, list, q)
  BY <1>2, <1>4 DEF LastNamesOf
<1> QED  BY ONLY <1>2, <1>4, <1>6, <1>7 DEF NameStep, Passes

LEMMA PlacedValue ==
  ASSUME NEW list \in Seq(Byte), NEW s \in Structure, NEW q \in Nat,
         q + 2 + Len(s.value) <= Len(list), Placed(list, s, q)
  PROVE  Slice(list, q + 2, q + At(list, q) + 1) = s.value
<1>1. s.value \in Seq(Byte)
  BY DEF Structure
<1>2. PICK v \in Seq(Byte) : v = s.value
  BY <1>1
<1>3. PICK m \in Nat : m = Len(v)
  OBVIOUS
<1>4. PICK L \in Nat : L = Len(list)
  OBVIOUS
<1>5. q + 2 + m <= L
  BY <1>2, <1>3, <1>4
<1>6. At(list, q) = m + 1 /\ \A k \in 1..m : list[q + 2 + k] = v[k]
  BY <1>2, <1>3 DEF Placed, At
<1>7. q + (m + 1) + 1 = q + 2 + m /\ q + 2 \in Nat /\ q + 2 + m \in Nat /\ q + 2 <= q + 2 + m
      /\ (q + 2 + m) - (q + 2) = m
  BY ONLY q \in Nat, m \in Nat
<1>8. PICK t : t = Slice(list, q + 2, q + 2 + m)
  OBVIOUS
<1>9. PICK i, j \in Nat : i = q + 2 /\ j = q + 2 + m
  BY <1>7
<1>10. /\ Slice(list, i, j) \in Seq(Byte) /\ Len(Slice(list, i, j)) = j - i
       /\ \A k \in 1..(j - i) : Slice(list, i, j)[k] = list[i + k]
  <2>1. i <= j /\ j <= Len(list)
    BY <1>4, <1>5, <1>7, <1>9
  <2> QED  BY ONLY <2>1, list \in Seq(Byte), i \in Nat, j \in Nat, SliceList
<1>11. /\ t \in Seq(Byte) /\ Len(t) = m /\ \A k \in 1..m : t[k] = list[q + 2 + k]
  BY ONLY <1>7, <1>8, <1>9, <1>10
<1>12. \A k \in 1..Len(t) : t[k] = v[k]
  BY <1>6, <1>11
<1>13. t = v
  <2>1. t \in Seq(Byte) /\ v \in Seq(Byte) /\ Len(t) = Len(v)
    BY <1>3, <1>11
  <2> QED  BY ONLY <1>12, <2>1, SeqEqual
<1> QED  BY ONLY <1>2, <1>6, <1>7, <1>8, <1>13

LEMMA CrcValue ==
  ASSUME NEW list \in Seq(Byte), NEW e \in Nat, Len(list) = e + 3, NEW crc \in Seq(Byte),
         Len(crc) = 3, \A k \in 1..3 : list[e + k] = crc[k], crc[1] \in {1, 2}
  PROVE  Slice(list, e + 2, e + At(list, e) + 1) = SubSeq(crc, 3, crc[1] + 1)
<1>1. PICK x \in {1, 2} : x = crc[1]
  OBVIOUS
<1>2. At(list, e) = x
  BY <1>1 DEF At
<1>3. PICK i, j \in Nat : i = e + 2 /\ j = e + x + 1
  OBVIOUS
<1>4. PICK t : t = Slice(list, i, j)
  OBVIOUS
<1>5. /\ t \in Seq(Byte) /\ Len(t) = j - i /\ \A k \in 1..(j - i) : t[k] = list[i + k]
  <2>1. i <= j /\ j <= Len(list)
    BY <1>3
  <2> QED  BY ONLY <1>4, <2>1, list \in Seq(Byte), i \in Nat, j \in Nat, SliceList
<1>6. j - i = x - 1 /\ \A k \in 1..(x - 1) : i + k = e + 3
  BY ONLY <1>3, x \in {1, 2}, e \in Nat
<1>7. PICK u : u = SubSeq(crc, 3, x + 1)
  OBVIOUS
<1>8. u \in Seq(Byte) /\ Len(u) = x - 1 /\ \A k \in 1..(x - 1) : u[k] = crc[3]
  <2>1. 3 \in 1..(Len(crc) + 1) /\ x + 1 \in 2..Len(crc)
    OBVIOUS
  <2>2. /\ u \in Seq(Byte) /\ Len(u) = x - 1 /\ \A k \in 1..(x - 1) : u[k] = crc[2 + k]
    BY <1>7, <2>1
  <2>3. \A k \in 1..(x - 1) : 2 + k = 3
    OBVIOUS
  <2> QED  BY ONLY <2>2, <2>3
<1>9. t = u
  <2>1. list[e + 3] = crc[3]
    OBVIOUS
  <2>2. Len(t) = Len(u) /\ t \in Seq(Byte) /\ u \in Seq(Byte) /\ \A k \in 1..Len(t) : t[k] = u[k]
    BY ONLY <1>5, <1>6, <1>8, <2>1
  <2> QED  BY ONLY <2>2, SeqEqual
<1> QED  BY ONLY <1>1, <1>2, <1>3, <1>4, <1>7, <1>9
Names(data) == {i \in 1..Len(data) : data[i].type \in {8, 9}}
NameAmong(data, crc) ==
  IF crc[1] \in {1, 2} /\ crc[2] \in {8, 9} THEN SubSeq(crc, 3, crc[1] + 1)
  ELSE IF Names(data) = {} THEN <<>>
  ELSE data[CHOOSE i \in Names(data) : \A j \in Names(data) : j <= i].value

(* The last structure with a name, zero if there is none.                  *)
LEMMA LastName ==
  ASSUME NEW data \in Seq(Structure)
  PROVE  \E m \in 0..Len(data) :
           /\ \A j \in Names(data) : j <= m
           /\ m = 0 => Names(data) = {}
           /\ m # 0 => /\ m \in Names(data)
                       /\ m = CHOOSE i \in Names(data) : \A j \in Names(data) : j <= i
<1>1. PICK N \in Nat : N = Len(data)
  OBVIOUS
<1>2. PICK S : S = Names(data)
  OBVIOUS
<1>3. S \subseteq 1..N
  BY <1>1, <1>2 DEF Names
<1>4. CASE S = {}
  BY <1>1, <1>2, <1>4
<1>5. CASE S # {}
  <2>1. \E i \in S : \A j \in S : j <= i
    BY ONLY <1>3, <1>5, N \in Nat, Largest
  <2>2. PICK m : m = CHOOSE i \in S : \A j \in S : j <= i
    OBVIOUS
  <2>3. m \in S /\ \A j \in S : j <= m
    BY ONLY <2>1, <2>2
  <2>4. m \in 0..N /\ m # 0
    BY <1>3, <2>3
  <2> QED  BY ONLY <1>1, <1>2, <2>2, <2>3, <2>4
<1> QED  BY <1>4, <1>5

LEMMA NameOf ==
  ASSUME NEW list \in Seq(Byte), NEW data \in Seq(Structure), NEW o, Offsets(o, data),
         NEW B \in Nat, NEW crc \in Seq(Byte), Len(crc) = 3,
         Len(list) = B + o[Len(data)] + 3,
         \A i \in 1..Len(data) : Placed(list, data[i], B + o[i - 1]),
         \A k \in 1..3 : list[B + o[Len(data)] + k] = crc[k]
  PROVE  ExtractName(list, B) = NameAmong(data, crc)
<1>1. PICK N \in Nat : N = Len(data)
  OBVIOUS
<1>2. /\ o[0] = 0 /\ \A k \in 0..N : o[k] \in Nat
      /\ \A i \in 1..N : o[i] = o[i - 1] + 2 + Len(data[i].value)
  BY <1>1 DEF Offsets
<1>3. \A k \in 0..N : o[k] <= o[N]
  <2>1. \A j \in 0..N : \A i \in 0..j : o[i] <= o[j]
    BY <1>1, OffsetsGrow
  <2>2. N \in 0..N
    OBVIOUS
  <2> QED  BY ONLY <2>1, <2>2
<1>nat. \A k \in 0..N : o[k] \in Nat /\ B + o[k] \in Nat
  <2>1. \A k \in 0..N : o[k] \in Nat
    BY <1>2
  <2>2. \A x \in Nat : B + x \in Nat
    OBVIOUS
  <2> QED  BY ONLY <2>1, <2>2
<1>4. PICK e \in Nat : e = B + o[N]
  <2>1. N \in 0..N
    OBVIOUS
  <2> QED  BY ONLY <1>nat, <2>1
<1>5. PICK L \in Nat : L = Len(list) /\ L = e + 3
  BY <1>1, <1>4
<1>len. L = e + 3
  BY <1>5
<1>6. \A k \in 1..3 : list[e + k] = crc[k]
  BY <1>1, <1>4
<1>7. PICK last :
        /\ LastNamesOf(last, list)
        /\ \A offset \in 0..(Len(list) - 1) :
             ExtractName(list, offset)
               = IF last[offset] = -1 THEN <<>>
                 ELSE Slice(list, last[offset] + 2, last[offset] + At(list, last[offset]) + 1)
  BY NameRead
<1>8. PICK m \in 0..N : /\ \A j \in Names(data) : j <= m
                        /\ m = 0 => Names(data) = {}
                        /\ m # 0 => /\ m \in Names(data)
                                    /\ m = CHOOSE i \in Names(data) : \A j \in Names(data) : j <= i
  BY <1>1, LastName
<1>9. \A i \in 1..N : /\ data[i] \in Structure /\ i - 1 \in 0..N /\ i \in 0..N
                      /\ data[i].type \in {8, 9} <=> i \in Names(data)
  BY <1>1 DEF Names
<1>10. PICK reads \in BOOLEAN : reads <=> (crc[1] \in {1, 2} /\ crc[2] \in {8, 9})
  OBVIOUS
<1>11. last[e] = IF reads THEN e ELSE -1
  <2>1. last[e] = IF list[e + 1] \in {1, 2} /\ list[e + 2] \in {8, 9} THEN e ELSE -1
    <3>1. Len(list) = e + 3
      BY <1>5
    <3> QED  BY ONLY <1>7, <3>1, list \in Seq(Byte), e \in Nat, NameInCrc
  <2>2. list[e + 1] = crc[1] /\ list[e + 2] = crc[2]
    BY <1>6
  <2> QED  BY ONLY <1>10, <2>1, <2>2
<1> DEFINE Found(k) == IF reads THEN e ELSE IF k < m THEN B + o[m - 1] ELSE -1
           S == {n \in 0..N : last[B + o[N - n]] = Found(N - n)}
<1>12. 0 \in S
  <2>1. N - 0 = N /\ ~(N < m) /\ 0 \in 0..N
    BY <1>8
  <2> QED  BY ONLY <1>4, <1>11, <2>1
<1>13. ASSUME NEW n \in 0..N, n < N, n \in S PROVE n + 1 \in S
  <2>1. PICK k \in 1..N : k = N - n /\ k - 1 = N - (n + 1)
    BY <1>13
  <2>2. last[B + o[k]] = Found(k)
    BY <1>13, <2>1
  <2>in. k - 1 \in 0..N /\ k \in 0..N
    OBVIOUS
  <2>3. PICK q \in Nat : q = B + o[k - 1]
    BY ONLY <1>nat, <2>in
  <2>4. PICK r \in Nat : r = B + o[k]
    BY ONLY <1>nat, <2>in
  <2>5. last[q] = IF last[r] # -1 THEN last[r] ELSE IF data[k].type \in {8, 9} THEN q ELSE -1
    <3>1. r = q + 2 + Len(data[k].value)
      <4>1. PICK a, b \in Nat : a = o[k - 1] /\ b = o[k]
        BY <1>2, <1>9
      <4>2. PICK v \in Nat : v = Len(data[k].value)
        BY <1>9 DEF Structure
      <4>3. b = a + 2 + v
        BY <1>2, <4>1, <4>2
      <4>4. q = B + a /\ r = B + b
        BY <2>3, <2>4, <4>1
      <4>5. r = q + 2 + v
        BY ONLY <4>3, <4>4, a \in Nat, v \in Nat, B \in Nat
      <4> QED  BY ONLY <4>2, <4>5
    <3>2. r <= Len(list)
      <4>1. PICK b, c \in Nat : b = o[k] /\ c = o[N] /\ b <= c
        <5>1. N \in 0..N
          OBVIOUS
        <5> QED  BY ONLY <1>3, <1>nat, <2>in, <5>1
      <4>2. B + b <= B + c + 3
        BY <4>1
      <4> QED  BY <1>4, <1>5, <2>4, <4>1, <4>2
    <3>3. Placed(list, data[k], q) /\ data[k] \in Structure
      BY <1>1, <1>9, <2>3
    <3>4. LastNamesOf(last, list)
      BY ONLY <1>7
    <3>5. PICK s \in Structure : s = data[k]
      BY ONLY <3>3
    <3>6. Follows(r, s, q) /\ Placed(list, s, q)
      BY ONLY <3>1, <3>3, <3>5 DEF Follows
    <3>7. Passes(last, s, q, r)
      BY ONLY <3>2, <3>4, <3>6, s \in Structure, list \in Seq(Byte), q \in Nat, r \in Nat,
              NameAtStructure
    <3> QED  BY ONLY <3>5, <3>7 DEF Passes
  <2>6. last[r] = Found(k)
    BY <2>2, <2>4
  <2>7. last[q] = Found(k - 1)
    <3>1. CASE reads
      BY <2>5, <2>6, <3>1
    <3>2. CASE ~reads /\ k < m
      <4>1. PICK x \in Nat : x = B + o[m - 1]
        <5>1. m - 1 \in 0..N
          BY <3>2
        <5> QED  BY ONLY <1>nat, <5>1
      <4>2. last[r] = x /\ k - 1 < m
        BY <2>6, <3>2, <4>1
      <4> QED  BY <2>5, <3>2, <4>1, <4>2
    <3>3. CASE ~reads /\ k = m
      <4>1. last[r] = -1 /\ k - 1 < m
        BY <2>6, <3>3
      <4>2. data[k].type \in {8, 9}
        BY <1>8, <1>9, <3>3
      <4>3. q = B + o[m - 1]
        BY <2>3, <3>3
      <4> QED  BY <2>5, <3>3, <4>1, <4>2, <4>3
    <3>4. CASE ~reads /\ k > m
      <4>1. last[r] = -1 /\ ~(k - 1 < m)
        BY <2>6, <3>4
      <4>2. data[k].type \notin {8, 9}
        BY <1>8, <1>9, <3>4
      <4> QED  BY <2>5, <3>4, <4>1, <4>2
    <3>5. k < m \/ k = m \/ k > m
      OBVIOUS
    <3> QED  BY ONLY <3>1, <3>2, <3>3, <3>4, <3>5
  <2>8. n + 1 \in 0..N
    BY <1>13
  <2> QED  BY ONLY <2>1, <2>3, <2>7, <2>8
<1> HIDE DEF S
<1>14. \A n \in 0..N : n \in S
  <2>1. \A n \in 0..N : n < N /\ n \in S => n + 1 \in S
    BY <1>13
  <2> QED  BY ONLY <1>12, <2>1, N \in Nat, Induction
<1>15. last[B] = Found(0)
  <2>1. N \in S
    BY <1>14
  <2>2. last[B + o[N - N]] = Found(N - N)
    BY <2>1 DEF S
  <2>3. N - N = 0 /\ B + 0 = B
    OBVIOUS
  <2> QED  BY ONLY <1>2, <2>2, <2>3
<1>16. ExtractName(list, B) = IF last[B] = -1 THEN <<>>
                              ELSE Slice(list, last[B] + 2, last[B] + At(list, last[B]) + 1)
  <2>1. PICK c \in Nat : c = o[N]
    <3>1. N \in 0..N
      OBVIOUS
    <3> QED  BY <1>2, <3>1
  <2>2. Len(list) = B + c + 3
    BY <1>1, <2>1
  <2>3. B \in 0..(Len(list) - 1)
    BY <2>2
  <2> QED  BY <1>7, <2>3
<1>17. CASE reads
  <2>1. last[B] = e /\ e # -1
    BY <1>15, <1>17
  <2>2. crc[1] \in {1, 2} /\ crc[2] \in {8, 9}
    BY <1>10, <1>17
  <2>3. Slice(list, e + 2, e + At(list, e) + 1) = SubSeq(crc, 3, crc[1] + 1)
    <3>1. Len(list) = e + 3 /\ Len(crc) = 3
      BY <1>5
    <3> QED  BY ONLY <1>6, <2>2, <3>1, list \in Seq(Byte), e \in Nat, crc \in Seq(Byte), CrcValue
  <2> QED  BY ONLY <1>16, <2>1, <2>2, <2>3 DEF NameAmong
<1>18. CASE ~reads /\ m = 0
  <2>1. last[B] = -1
    BY <1>15, <1>18
  <2> QED  BY ONLY <1>8, <1>10, <1>16, <1>18, <2>1 DEF NameAmong
<1>19. CASE ~reads /\ m # 0
  <2>1. m \in 1..N
    BY <1>19
  <2>2. PICK q \in Nat : q = B + o[m - 1]
    BY <1>2, <1>9, <2>1
  <2>3. last[B] = q /\ q # -1
    BY <1>15, <1>19, <2>1, <2>2
  <2>4. Slice(list, q + 2, q + At(list, q) + 1) = data[m].value
    <3>1. q + 2 + Len(data[m].value) <= Len(list)
      <4>1. PICK a, b, c \in Nat : a = o[m - 1] /\ b = o[m] /\ c = o[N] /\ b <= c
        <5>1. N \in 0..N /\ m \in 0..N /\ m - 1 \in 0..N
          BY <2>1
        <5> QED  BY ONLY <1>3, <1>nat, <5>1
      <4>2. PICK v \in Nat : v = Len(data[m].value)
        BY <1>9, <2>1 DEF Structure
      <4>3. b = a + 2 + v
        BY <1>2, <2>1, <4>1, <4>2
      <4>4. b <= c
        BY <4>1
      <4>5. L = B + c + 3
        BY <1>4, <1>5, <4>1
      <4>6. B + a + 2 + v <= L
        BY ONLY <4>3, <4>4, <4>5, a \in Nat, b \in Nat, c \in Nat, v \in Nat, B \in Nat
      <4> QED  BY <1>5, <2>2, <4>1, <4>2, <4>6
    <3>2. Placed(list, data[m], q) /\ data[m] \in Structure
      BY <1>1, <1>9, <2>1, <2>2
    <3> QED  BY ONLY <3>1, <3>2, list \in Seq(Byte), q \in Nat, PlacedValue
  <2>5. Names(data) # {}
    BY <1>8, <1>19
  <2> QED  BY ONLY <1>8, <1>10, <1>16, <1>19, <2>3, <2>4, <2>5 DEF NameAmong
<1> QED  BY <1>17, <1>18, <1>19
-----------------------------------------------------------------------------
(* An advertisement taken apart.                                           *)
LEMMA AirFields ==
  ASSUME NEW f \in Frames
  PROVE  LET a == AirBytes(f)
             h == FormatEnd(f.phy)
             A == AddressPart(f)
             S == Structures(f)
         IN  /\ h \in {4, 5} /\ a \in Seq(Byte) /\ Len(a) = h + 2 + Len(A) + Len(S) + 3
             /\ A \in Seq(Byte) /\ S \in Seq(Byte)
             /\ At(a, h) = AirHeader(f)
             /\ \A k \in 1..Len(A) : a[h + 2 + k] = A[k]
             /\ \A k \in 1..Len(S) : a[h + 2 + Len(A) + k] = S[k]
             /\ \A k \in 1..3 : a[h + 2 + Len(A) + Len(S) + k] = f.crc[k]
<1>1. PICK a : a = AirBytes(f)
  OBVIOUS
<1>2. PICK h \in {4, 5} : h = FormatEnd(f.phy) /\ h = 4 + Coded(f)
  <2>1. FormatEnd(f.phy) = 4 + Coded(f) /\ FormatEnd(f.phy) \in {4, 5}
    BY DEF FormatEnd, Coded
  <2> QED  BY <2>1
<1>3. PICK A, S, p : A = AddressPart(f) /\ S = Structures(f) /\ p = AirPayload(f)
  OBVIOUS
<1>4. PICK d \in {0, 1} : d = Coded(f)
  BY DEF Coded
<1>5. h = 4 + d
  BY <1>2, <1>4
<1>6. /\ A \in Seq(Byte) /\ S \in Seq(Byte) /\ p \in Seq(Byte) /\ Len(p) = Len(A) + Len(S)
      /\ \A k \in 1..Len(A) : p[k] = A[k]
      /\ \A k \in 1..Len(S) : p[Len(A) + k] = S[k]
  BY <1>3, PayloadTyped
<1>7. PICK nA, nS \in Nat : nA = Len(A) /\ nS = Len(S)
  BY <1>6
<1>8. /\ a \in Seq(Byte) /\ Len(a) = 9 + d + (nA + nS)
      /\ a[5 + d] = AirHeader(f)
      /\ \A k \in 1..(nA + nS) : a[6 + d + k] = p[k]
      /\ \A k \in 1..3 : a[6 + d + (nA + nS) + k] = f.crc[k]
  <2>1. /\ a \in Seq(Byte) /\ Len(a) = 9 + d + Len(p)
        /\ a[5 + d] = AirHeader(f)
        /\ \A k \in 1..Len(p) : a[6 + d + k] = p[k]
        /\ \A k \in 1..3 : a[6 + d + Len(p) + k] = f.crc[k]
    BY ONLY <1>1, <1>3, <1>4, f \in Frames, AirBytesTyped
  <2>2. Len(p) = nA + nS
    BY ONLY <1>6, <1>7
  <2> QED  BY ONLY <2>1, <2>2
<1>9. /\ 9 + d + (nA + nS) = h + 2 + nA + nS + 3 /\ h + 1 = 5 + d
      /\ 6 + d + (nA + nS) = h + 2 + nA + nS
  BY ONLY <1>5, d \in {0, 1}, nA \in Nat, nS \in Nat
<1>10. \A k \in 1..nA : a[h + 2 + k] = A[k]
  <2>1. \A k \in 1..nA : 6 + d + k = h + 2 + k /\ k \in 1..(nA + nS)
    BY ONLY <1>5, d \in {0, 1}, nA \in Nat, nS \in Nat
  <2> QED  BY ONLY <1>6, <1>7, <1>8, <2>1
<1>11. \A k \in 1..nS : a[h + 2 + nA + k] = S[k]
  <2>1. \A k \in 1..nS : 6 + d + (nA + k) = h + 2 + nA + k /\ nA + k \in 1..(nA + nS)
    BY ONLY <1>5, d \in {0, 1}, nA \in Nat, nS \in Nat
  <2>2. \A k \in 1..nS : a[6 + d + (nA + k)] = p[nA + k]
    BY ONLY <1>8, <2>1
  <2> QED  BY ONLY <1>6, <1>7, <2>1, <2>2
<1>12. At(a, h) = AirHeader(f)
  BY ONLY <1>8, <1>9 DEF At
<1>13. \A k \in 1..3 : a[h + 2 + nA + nS + k] = f.crc[k]
  BY ONLY <1>8, <1>9
<1> QED  BY ONLY <1>1, <1>2, <1>3, <1>6, <1>7, <1>8, <1>9, <1>10, <1>11, <1>12, <1>13

LEMMA HeaderBits ==
  ASSUME NEW t \in 0..15, NEW x \in {0, 1}
  PROVE  ((t + 64 * x) % 16) = t /\ Bit(t + 64 * x, 6) = x
<1>1. 2^6 = 64
  OBVIOUS
<1>2. ((t + 64 * x) % 16) = t /\ (((t + 64 * x) \div 64) % 2) = x
  OBVIOUS
<1> QED  BY ONLY <1>1, <1>2 DEF Bit

LEMMA HeaderFields ==
  ASSUME NEW f \in Frames, IsAdv(f)
  PROVE  /\ AdvType(AirBytes(f), FormatEnd(f.phy)) = f.advType
         /\ TxAddrType(AirBytes(f), FormatEnd(f.phy)) = f.txAdd
<1>1. PICK t \in 0..15 : t = f.advType
  BY FrameTyped DEF FrameOK, IsAdv
<1>2. PICK x \in {0, 1} : x = f.txAdd
  BY FrameTyped DEF FrameOK
<1>3. At(AirBytes(f), FormatEnd(f.phy)) = t + 64 * x
  <2>1. At(AirBytes(f), FormatEnd(f.phy)) = AirHeader(f)
    BY AirFields
  <2> QED  BY <1>1, <1>2, <2>1 DEF AirHeader
<1> QED  BY ONLY <1>1, <1>2, <1>3, HeaderBits, t \in 0..15, x \in {0, 1} DEF AdvType, TxAddrType

LEMMA FlagBits ==
  ASSUME NEW f, FrameOK(f)
  PROVE  /\ Bit(ExtendedFlags(f), 0) = (IF f.advA = <<>> THEN 0 ELSE 1)
         /\ Bit(ExtendedFlags(f), 1) = (IF f.targetA = <<>> THEN 0 ELSE 1)
<1>1. PICK a \in {0, 1} : a = IF f.advA = <<>> THEN 0 ELSE 1
  OBVIOUS
<1>2. PICK t \in {0, 1} : t = IF f.targetA = <<>> THEN 0 ELSE 1
  OBVIOUS
<1>3. PICK d \in {0, 1} : d = IF f.adi = <<>> THEN 0 ELSE 1
  OBVIOUS
<1>4. ExtendedFlags(f) = a + 2 * t + 8 * d
  <2>1. Flag(f.advA, 1) = a /\ Flag(f.targetA, 2) = 2 * t /\ Flag(f.adi, 8) = 8 * d
    BY <1>1, <1>2, <1>3 DEF Flag
  <2> QED  BY ONLY <2>1 DEF ExtendedFlags
<1>5. 2^0 = 1 /\ 2^1 = 2
  OBVIOUS
<1>6. (((a + 2 * t + 8 * d) \div 1) % 2) = a /\ (((a + 2 * t + 8 * d) \div 2) % 2) = t
  OBVIOUS
<1> QED  BY ONLY <1>1, <1>2, <1>4, <1>5, <1>6 DEF Bit

LEMMA ReversedTwice ==
  ASSUME NEW list \in Seq(Byte), NEW copy \in Seq(Byte), Len(copy) = Len(list),
         \A k \in 1..Len(list) : copy[k] = Reversed(list)[k]
  PROVE  Reversed(copy) = list
<1>1. PICK n \in Nat : n = Len(list)
  OBVIOUS
<1>2. Reversed(list) = [i \in 1..n |-> list[n + 1 - i]]
  BY <1>1 DEF Reversed
<1>3. \A k \in 1..n : copy[k] = list[n + 1 - k]
  BY <1>1, <1>2
<1>4. Reversed(copy) = [i \in 1..n |-> copy[n + 1 - i]]
  BY <1>1 DEF Reversed
<1>5. \A k \in 1..n : n + 1 - k \in 1..n /\ n + 1 - (n + 1 - k) = k
  OBVIOUS
<1>6. \A k \in 1..n : Reversed(copy)[k] = list[k]
  BY ONLY <1>3, <1>4, <1>5
<1>7. Reversed(copy) \in Seq(Byte) /\ Len(Reversed(copy)) = n
  BY <1>1, ReversedList
<1> QED  BY <1>1, <1>6, <1>7, SeqEqual

LEMMA AddressRead ==
  ASSUME NEW list \in Seq(Byte), NEW o \in Nat, o + 6 <= Len(list), NEW addr \in Seq(Byte),
         Len(addr) = 6, \A k \in 1..6 : list[o + k] = Reversed(addr)[k], NEW x
  PROVE  Address(list, o, x) = addr \o <<x>>
<1>1. PICK j \in Nat : j = o + 6
  OBVIOUS
<1>2. j - o = 6 /\ o <= j /\ j <= Len(list)
  BY <1>1
<1>3. PICK t : t = Slice(list, o, j)
  OBVIOUS
<1>4. t \in Seq(Byte) /\ Len(t) = j - o /\ \A k \in 1..(j - o) : t[k] = list[o + k]
  BY ONLY <1>2, <1>3, list \in Seq(Byte), o \in Nat, j \in Nat, SliceList
<1>5. Reversed(t) = addr
  <2>1. Len(t) = Len(addr) /\ \A k \in 1..Len(addr) : t[k] = Reversed(addr)[k]
    BY <1>2, <1>4
  <2>2. t \in Seq(Byte)
    BY <1>4
  <2> QED  BY ONLY <2>1, <2>2, addr \in Seq(Byte), ReversedTwice
<1> QED  BY ONLY <1>1, <1>3, <1>5 DEF Address
LEMMA FrameName ==
  ASSUME NEW f \in Frames
  PROVE  ExtractName(AirBytes(f), FormatEnd(f.phy) + 2 + Len(AddressPart(f))) = NameAmong(f.data, f.crc)
<1>1. PICK a : a = AirBytes(f)
  OBVIOUS
<1>2. PICK A, S : A = AddressPart(f) /\ S = Structures(f)
  OBVIOUS
<1>3. PICK h \in {4, 5} : h = FormatEnd(f.phy)
  BY AirFields
<1>4. /\ a \in Seq(Byte) /\ Len(a) = h + 2 + Len(A) + Len(S) + 3
      /\ A \in Seq(Byte) /\ S \in Seq(Byte)
      /\ \A k \in 1..Len(S) : a[h + 2 + Len(A) + k] = S[k]
      /\ \A k \in 1..3 : a[h + 2 + Len(A) + Len(S) + k] = f.crc[k]
  BY ONLY <1>1, <1>2, <1>3, f \in Frames, AirFields
<1>5. f.data \in Seq(Structure) /\ f.crc \in Seq(Byte) /\ Len(f.crc) = 3
  BY FrameTyped DEF FrameOK
<1>6. PICK data, crc : data = f.data /\ crc = f.crc
  OBVIOUS
<1>7. data \in Seq(Structure) /\ crc \in Seq(Byte) /\ Len(crc) = 3
  BY ONLY <1>5, <1>6
<1>8. PICK o : /\ Offsets(o, data) /\ o[Len(data)] = Len(S)
               /\ \A i \in 1..Len(data) : Placed(S, data[i], o[i - 1])
  BY <1>2, <1>5, <1>6, StructuresLaid
<1>9. PICK B \in Nat : B = h + 2 + Len(A)
  BY <1>4
<1>10. PICK N \in Nat : N = Len(data)
  BY <1>7
<1>11. PICK n \in Nat : n = Len(S)
  BY <1>4
<1>12. Len(a) = B + o[Len(data)] + 3
  BY ONLY <1>4, <1>8, <1>9
<1>13. \A k \in 1..n : a[B + k] = S[k]
  BY ONLY <1>4, <1>9, <1>11
<1>14. \A k \in 1..3 : a[B + o[Len(data)] + k] = crc[k]
  BY ONLY <1>4, <1>6, <1>8, <1>9
<1>15. ASSUME NEW i \in 1..N PROVE Placed(a, data[i], B + o[i - 1])
  <2>1. data[i] \in Structure
    BY <1>7, <1>10
  <2>2. i - 1 \in 0..N /\ i \in 0..N /\ N \in 0..N
    OBVIOUS
  <2>3. /\ o[i - 1] \in Nat /\ o[i] \in Nat /\ o[i] = o[i - 1] + 2 + Len(data[i].value)
    BY <1>8, <1>10, <2>2 DEF Offsets
  <2>4. PICK p \in Nat : p = o[i - 1]
    BY <2>3
  <2>5. o[i] <= n
    <3>1. \A k \in 0..Len(data) : \A j \in 0..k : o[j] <= o[k]
      BY ONLY <1>7, <1>8, OffsetsGrow
    <3>2. i \in 0..N /\ N \in 0..Len(data)
      BY <1>10, <2>2
    <3>3. o[i] <= o[N]
      BY ONLY <3>1, <3>2
    <3> QED  BY ONLY <1>8, <1>10, <1>11, <3>3
  <2>6. p + 2 + Len(data[i].value) <= n
    BY ONLY <2>3, <2>4, <2>5
  <2>7. Placed(S, data[i], p)
    BY ONLY <1>8, <1>10, <2>4, i \in 1..N
  <2>8. PICK s \in Structure : s = data[i]
    BY <2>1
  <2>9. p + 2 + Len(s.value) <= n /\ Placed(S, s, p)
    BY ONLY <2>6, <2>7, <2>8
  <2>10. Placed(a, s, B + p)
    BY ONLY <1>13, <2>9, s \in Structure, p \in Nat, B \in Nat, n \in Nat, PlacedCopied
  <2> QED  BY ONLY <2>4, <2>8, <2>10
<1>16. ExtractName(a, B) = NameAmong(data, crc)
  <2>1. \A i \in 1..Len(data) : Placed(a, data[i], B + o[i - 1])
    BY <1>10, <1>15
  <2>2. a \in Seq(Byte) /\ Offsets(o, data)
    BY ONLY <1>4, <1>8
  <2> QED  BY ONLY <1>7, <1>12, <1>14, <2>1, <2>2, B \in Nat, NameOf
<1> QED  BY ONLY <1>1, <1>2, <1>3, <1>6, <1>9, <1>16
LEMMA NotEmpty ==
  ASSUME NEW r, NEW x, x \in DOMAIN r
  PROVE  r # <<>>
  OBVIOUS

Device(b, f) ==
  IF b = None THEN f.advType = 7 /\ (f.targetA # <<>> \/ ~f.header)
  ELSE /\ b.type = PACKET_TYPE_ADVERTISING
       /\ b.name = AdvertisedName(f)
       /\ (f.advType = 7 => f.header) =>
            b.advAddress = IF f.advA = <<>> THEN None ELSE f.advA \o <<f.txAdd>>

(* The addresses of an advertisement, legacy or extended.                  *)
LEMMA LegacyAddress ==
  ASSUME NEW f \in Frames, f.advType \in {0, 1, 2, 4, 6}
  PROVE  LET a == AirBytes(f)
             h == FormatEnd(f.phy)
         IN  /\ ~Unreadable(a, PACKET_TYPE_ADVERTISING, h)
             /\ DataOffset(a, h) = h + 2 + Len(AddressPart(f))
             /\ AdvAddress(a, h) = IF f.advA = <<>> THEN None ELSE f.advA \o <<f.txAdd>>
<1>1. PICK a : a = AirBytes(f)
  OBVIOUS
<1>2. PICK A : A = AddressPart(f)
  OBVIOUS
<1>3. PICK h \in {4, 5} : h = FormatEnd(f.phy)
  BY AirFields
<1>4. FrameOK(f)
  BY FrameTyped
<1>5. PICK t \in {0, 1, 2, 4, 6} : t = f.advType
  OBVIOUS
<1>6. IsAdv(f) /\ f.advType # 7
  BY DEF IsAdv
<1>7. AdvType(a, h) = t /\ TxAddrType(a, h) = f.txAdd
  BY <1>1, <1>3, <1>5, <1>6, HeaderFields
<1>8. A = AddressBytes(f)
  BY <1>2, <1>6 DEF AddressPart
<1>9. /\ f.advA \in Seq(Byte) /\ Len(f.advA) = 6
      /\ Len(f.targetA) = IF t = 1 THEN 6 ELSE 0
  BY <1>4, <1>5 DEF FrameOK, AddressOK
<1>10. /\ A \in Seq(Byte) /\ Len(A) = 6 + Len(f.targetA)
       /\ \A k \in 1..6 : A[k] = Reversed(f.advA)[k]
  <2>1. /\ AddressBytes(f) \in Seq(Byte) /\ Len(AddressBytes(f)) = Len(f.advA) + Len(f.targetA)
        /\ \A k \in 1..Len(f.advA) : AddressBytes(f)[k] = Reversed(f.advA)[k]
    BY <1>4, AddressBytesList DEF FrameOK
  <2> QED  BY ONLY <1>8, <1>9, <2>1
<1>11. PICK nA \in {6, 12} : nA = Len(A) /\ nA = IF t = 1 THEN 12 ELSE 6
  BY <1>9, <1>10
<1>12. PICK nS \in Nat : nS = Len(Structures(f))
  BY PayloadTyped
<1>13. /\ a \in Seq(Byte) /\ Len(a) = h + 2 + nA + nS + 3
       /\ \A k \in 1..nA : a[h + 2 + k] = A[k]
  <2>1. /\ a \in Seq(Byte) /\ Len(a) = h + 2 + Len(A) + Len(Structures(f)) + 3
        /\ \A k \in 1..Len(A) : a[h + 2 + k] = A[k]
    BY ONLY <1>1, <1>2, <1>3, f \in Frames, AirFields
  <2> QED  BY ONLY <1>11, <1>12, <2>1
<1>14. PICK L \in Nat : L = Len(a)
  BY <1>13
<1>15. L = h + 2 + nA + nS + 3
  BY ONLY <1>13, <1>14
<1>16. ~(L <= h + 1) /\ h + 2 + 6 <= L /\ h + 2 \in Nat
  BY ONLY <1>15, nA \in {6, 12}, nS \in Nat, h \in {4, 5}
<1>17. ~Unreadable(a, PACKET_TYPE_ADVERTISING, h)
  <2>1. t # 7
    OBVIOUS
  <2> QED  BY ONLY <1>7, <1>14, <1>16, <2>1 DEF Unreadable
<1>18. DataOffset(a, h) = h + 2 + nA
  <2>1. CASE t = 1
    BY ONLY <1>7, <1>11, <2>1 DEF DataOffset
  <2>2. CASE t \in {0, 2, 4, 6}
    BY ONLY <1>7, <1>11, <2>2 DEF DataOffset
  <2> QED  BY <2>1, <2>2
<1>19. AdvAddress(a, h) = f.advA \o <<f.txAdd>>
  <2>1. AdvAddress(a, h) = Address(a, h + 2, TxAddrType(a, h))
    BY ONLY <1>7, t \in {0, 1, 2, 4, 6} DEF AdvAddress
  <2>2. PICK o \in Nat : o = h + 2
    OBVIOUS
  <2>3. PICK addr \in Seq(Byte) : addr = f.advA
    BY <1>9
  <2>4. \A k \in 1..6 : k \in 1..nA
    BY <1>11
  <2>5. o + 6 <= Len(a) /\ Len(addr) = 6 /\ \A k \in 1..6 : a[o + k] = Reversed(addr)[k]
    BY ONLY <1>9, <1>10, <1>13, <1>14, <1>16, <2>2, <2>3, <2>4
  <2>6. PICK x : x = f.txAdd
    OBVIOUS
  <2>7. Address(a, o, x) = addr \o <<x>>
    <3>1. a \in Seq(Byte)
      BY <1>13
    <3> QED  BY ONLY <2>5, <3>1, o \in Nat, addr \in Seq(Byte), AddressRead
  <2> QED  BY ONLY <1>7, <2>1, <2>2, <2>3, <2>6, <2>7
<1>20. f.advA # <<>>
  <2>1. PICK addr \in Seq(Byte) : addr = f.advA
    BY <1>9
  <2>2. Len(addr) = 6
    BY ONLY <1>9, <2>1
  <2>3. addr # <<>>
    BY ONLY <2>2, addr \in Seq(Byte), EmptySeq
  <2> QED  BY ONLY <2>1, <2>3
<1> QED  BY ONLY <1>1, <1>2, <1>3, <1>11, <1>17, <1>18, <1>19, <1>20

LEMMA ExtendedAddress ==
  ASSUME NEW f \in Frames, f.advType = 7
  PROVE  LET a == AirBytes(f)
             h == FormatEnd(f.phy)
         IN  /\ f.header /\ f.targetA = <<>> => ~Unreadable(a, PACKET_TYPE_ADVERTISING, h)
             /\ DataOffset(a, h) = h + 2 + Len(AddressPart(f))
             /\ f.header => AdvAddress(a, h) = IF f.advA = <<>> THEN None ELSE f.advA \o <<f.txAdd>>
<1>1. PICK a : a = AirBytes(f)
  OBVIOUS
<1>2. PICK A : A = AddressPart(f)
  OBVIOUS
<1>3. PICK h \in {4, 5} : h = FormatEnd(f.phy)
  BY AirFields
<1>4. FrameOK(f)
  BY FrameTyped
<1>5. IsAdv(f)
  BY DEF IsAdv
<1>6. AdvType(a, h) = 7 /\ TxAddrType(a, h) = f.txAdd
  BY <1>1, <1>3, <1>5, HeaderFields
<1>7. A = ExtendedHeader(f)
  BY <1>2, <1>5 DEF AddressPart
<1>8. /\ A \in Seq(Byte) /\ Len(A) = 1 + A[1] /\ A[1] \in 0..15
      /\ ~f.header => A[1] = 0
      /\ f.header => /\ A[1] >= 1 + Len(f.advA) /\ A[2] = ExtendedFlags(f)
                     /\ \A k \in 1..Len(f.advA) : A[2 + k] = Reversed(f.advA)[k]
  BY <1>4, <1>7, ExtendedHeaderList DEF FrameOK
<1>9. f.advA \in Seq(Byte) /\ Len(f.advA) \in {0, 6}
  BY <1>4 DEF FrameOK, AddressOK
<1>10. PICK m \in 0..15 : m = A[1]
  BY <1>8
<1>11. Len(A) = 1 + m
  BY ONLY <1>8, <1>10
<1>12. PICK nS \in Nat : nS = Len(Structures(f))
  BY PayloadTyped
<1>13. /\ a \in Seq(Byte) /\ Len(a) = h + 2 + (1 + m) + nS + 3
       /\ \A k \in 1..(1 + m) : a[h + 2 + k] = A[k]
  <2>1. /\ a \in Seq(Byte) /\ Len(a) = h + 2 + Len(A) + Len(Structures(f)) + 3
        /\ \A k \in 1..Len(A) : a[h + 2 + k] = A[k]
    BY ONLY <1>1, <1>2, <1>3, f \in Frames, AirFields
  <2> QED  BY ONLY <1>11, <1>12, <2>1
<1>14. PICK L \in Nat : L = Len(a)
  BY <1>13
<1>15. L = h + 2 + (1 + m) + nS + 3
  BY ONLY <1>13, <1>14
<1>16. At(a, h + 2) = m
  <2>1. 1 \in 1..(1 + m)
    OBVIOUS
  <2> QED  BY ONLY <1>10, <1>13, <2>1 DEF At
<1>17. DataOffset(a, h) = h + 2 + (1 + m)
  <2>1. (m % 64) = m /\ h + 2 + 1 + m = h + 2 + (1 + m)
    OBVIOUS
  <2>2. DataOffset(a, h) = h + 2 + 1 + (At(a, h + 2) % 64)
    BY ONLY <1>6 DEF DataOffset
  <2> QED  BY ONLY <1>16, <2>1, <2>2
<1>18. ASSUME f.header
       PROVE  /\ f.targetA = <<>> => ~Unreadable(a, PACKET_TYPE_ADVERTISING, h)
              /\ AdvAddress(a, h) = IF f.advA = <<>> THEN None ELSE f.advA \o <<f.txAdd>>
  <2>1. PICK na \in {0, 6} : na = Len(f.advA)
    BY <1>9
  <2>2. m >= 1 + na
    BY ONLY <1>8, <1>10, <1>18, <2>1
  <2>3. At(a, h + 3) = ExtendedFlags(f)
    <3>1. 2 \in 1..(1 + m) /\ h + 2 + 2 = h + 3 + 1
      BY ONLY <2>2, m \in 0..15, na \in {0, 6}, h \in {4, 5}
    <3> QED  BY ONLY <1>8, <1>13, <1>18, <3>1 DEF At
  <2>4. ~(L <= h + 1) /\ ~(L <= h + 3)
    BY ONLY <1>15, <2>2, m \in 0..15, na \in {0, 6}, nS \in Nat, h \in {4, 5}
  <2>5. /\ Bit(ExtendedFlags(f), 0) = (IF f.advA = <<>> THEN 0 ELSE 1)
        /\ Bit(ExtendedFlags(f), 1) = (IF f.targetA = <<>> THEN 0 ELSE 1)
    BY ONLY <1>4, FlagBits
  <2>6. f.targetA = <<>> => ~Unreadable(a, PACKET_TYPE_ADVERTISING, h)
    <3>1. f.targetA = <<>> => Bit(At(a, h + 3), 1) # 1
      BY ONLY <2>3, <2>5
    <3> QED  BY ONLY <1>14, <2>4, <3>1 DEF Unreadable
  <2>7. h + 2 + 1 = h + 3
    OBVIOUS
  <2>8. CASE f.advA = <<>>
    <3>1. Bit(At(a, h + 2 + 1), 0) # 1
      BY ONLY <2>3, <2>5, <2>7, <2>8
    <3>2. AdvAddress(a, h) = None
      BY ONLY <1>6, <3>1 DEF AdvAddress
    <3> QED  BY ONLY <2>6, <2>8, <3>2
  <2>9. CASE f.advA # <<>>
    <3>1. na = 6
      <4>1. Len(f.advA) = 0 => f.advA = <<>>
        BY <1>9, EmptySeq
      <4> QED  BY <2>1, <2>9, <4>1
    <3>2. Bit(At(a, h + 2 + 1), 0) = 1
      BY ONLY <2>3, <2>5, <2>7, <2>9
    <3>3. AdvAddress(a, h) = Address(a, h + 2 + 2, TxAddrType(a, h))
      BY ONLY <1>6, <3>2 DEF AdvAddress
    <3>4. PICK o \in Nat : o = h + 2 + 2
      OBVIOUS
    <3>5. PICK addr \in Seq(Byte) : addr = f.advA
      BY <1>9
    <3>6. Len(addr) = 6
      BY <2>1, <3>1, <3>5
    <3>7. o + 6 <= L
      BY ONLY <1>15, <2>2, <3>1, <3>4, m \in 0..15, nS \in Nat, h \in {4, 5}
    <3>8. ASSUME NEW k \in 1..6 PROVE a[o + k] = Reversed(addr)[k]
      <4>1. 2 + k \in 1..(1 + m) /\ h + 2 + (2 + k) = o + k
        BY ONLY <2>2, <3>1, <3>4, m \in 0..15, h \in {4, 5}, k \in 1..6
      <4>2. a[h + 2 + (2 + k)] = A[2 + k]
        BY ONLY <1>13, <4>1
      <4>3. A[2 + k] = Reversed(addr)[k]
        BY <1>8, <1>18, <3>5, <3>6
      <4> QED  BY ONLY <4>1, <4>2, <4>3
    <3>9. PICK x : x = f.txAdd
      OBVIOUS
    <3>10. Address(a, o, x) = addr \o <<x>>
      <4>1. a \in Seq(Byte) /\ o + 6 <= Len(a)
        BY <1>13, <1>14, <3>7
      <4> QED  BY ONLY <3>6, <3>8, <4>1, o \in Nat, addr \in Seq(Byte), AddressRead
    <3> QED  BY ONLY <1>6, <2>6, <2>9, <3>3, <3>4, <3>5, <3>9, <3>10
  <2> QED  BY ONLY <2>8, <2>9
<1> QED  BY ONLY <1>1, <1>2, <1>3, <1>11, <1>17, <1>18

LEMMA DeviceOf ==
  ASSUME NEW f \in Frames, f.advType \in {0, 1, 2, 4, 6, 7}
  PROVE  Device(BlePacket(PACKET_TYPE_ADVERTISING, AirBytes(f), f.phy), f)
<1>1. PICK a : a = AirBytes(f)
  OBVIOUS
<1>2. PICK h : h = FormatEnd(f.phy)
  OBVIOUS
<1>3. PICK b : b = BlePacket(PACKET_TYPE_ADVERTISING, a, f.phy)
  OBVIOUS
<1>4. /\ (f.advType = 7 => f.header /\ f.targetA = <<>>) => ~Unreadable(a, PACKET_TYPE_ADVERTISING, h)
      /\ DataOffset(a, h) = h + 2 + Len(AddressPart(f))
      /\ (f.advType = 7 => f.header) =>
           AdvAddress(a, h) = IF f.advA = <<>> THEN None ELSE f.advA \o <<f.txAdd>>
  <2>1. CASE f.advType = 7
    BY ONLY <1>1, <1>2, <2>1, f \in Frames, ExtendedAddress
  <2>2. CASE f.advType # 7
    <3>1. f.advType \in {0, 1, 2, 4, 6}
      BY <2>2
    <3> QED  BY ONLY <1>1, <1>2, <2>2, <3>1, f \in Frames, LegacyAddress
  <2> QED  BY ONLY <2>1, <2>2
<1>5. CASE Unreadable(a, PACKET_TYPE_ADVERTISING, h)
  <2>1. b = None
    BY ONLY <1>2, <1>3, <1>5 DEF BlePacket
  <2>2. f.advType = 7 /\ (f.targetA # <<>> \/ ~f.header)
    BY <1>4, <1>5
  <2> QED  BY ONLY <1>1, <1>3, <2>1, <2>2 DEF Device
<1>6. CASE ~Unreadable(a, PACKET_TYPE_ADVERTISING, h)
  <2>1. AdvType(a, h) = f.advType
    <3>1. IsAdv(f)
      BY DEF IsAdv
    <3> QED  BY <1>1, <1>2, <3>1, HeaderFields
  <2>2. PICK name : name = IF AdvType(a, h) = 1 THEN Direct
                           ELSE IF AdvType(a, h) \in {0, 2, 4, 6, 7}
                                THEN ExtractName(a, DataOffset(a, h)) ELSE <<>>
    OBVIOUS
  <2>3. b = [type |-> PACKET_TYPE_ADVERTISING, advType |-> AdvType(a, h),
             advAddress |-> AdvAddress(a, h), scanAddress |-> ScanAddress(a, h), name |-> name]
    BY ONLY <1>2, <1>3, <1>6, <2>2 DEF BlePacket, PACKET_TYPE_ADVERTISING, PACKET_TYPE_DATA
  <2>4. /\ "type" \in DOMAIN b /\ b.type = PACKET_TYPE_ADVERTISING
        /\ b.advAddress = AdvAddress(a, h) /\ b.name = name
    BY ONLY <2>3
  <2>5. b # None
    BY ONLY <2>4, NotEmpty DEF None
  <2>6. name = AdvertisedName(f)
    <3>1. CASE f.advType = 1
      BY ONLY <2>1, <2>2, <3>1 DEF AdvertisedName
    <3>2. CASE f.advType # 1
      <4>1. name = ExtractName(a, h + 2 + Len(AddressPart(f)))
        BY <1>4, <2>1, <2>2, <3>2
      <4>2. ExtractName(a, h + 2 + Len(AddressPart(f))) = NameAmong(f.data, f.crc)
        BY ONLY <1>1, <1>2, f \in Frames, FrameName
      <4>3. AdvertisedName(f) = NameAmong(f.data, f.crc)
        BY ONLY <3>2 DEF AdvertisedName, NameAmong, Names, CrcReadsAsName
      <4> QED  BY ONLY <4>1, <4>2, <4>3
    <3> QED  BY ONLY <3>1, <3>2
  <2> QED  BY ONLY <1>1, <1>3, <1>4, <2>4, <2>5, <2>6 DEF Device
<1> QED  BY <1>5, <1>6
-----------------------------------------------------------------------------
(* What the reader makes of a frame.                                       *)
HasTwoDigits(n) == n = (n % 256) + 256 * ((n \div 256) % 256)

LEMMA TwoDigits ==
  ASSUME NEW n \in Nat, n <= 514
  PROVE  HasTwoDigits(n)
<1>1. CASE n < 256
  <2>1. n % 256 = n /\ n \div 256 = 0
    BY ONLY n \in Nat, <1>1
  <2> QED  BY ONLY n \in Nat, <2>1 DEF HasTwoDigits
<1>2. CASE n >= 256 /\ n < 512
  <2>1. n % 256 = n - 256 /\ n \div 256 = 1
    BY ONLY n \in Nat, <1>2
  <2> QED  BY ONLY n \in Nat, <2>1 DEF HasTwoDigits
<1>3. CASE n >= 512
  <2>1. n % 256 = n - 512 /\ n \div 256 = 2
    BY ONLY n \in Nat, n <= 514, <1>3
  <2> QED  BY ONLY n \in Nat, <2>1 DEF HasTwoDigits
<1> QED  BY ONLY n \in Nat, <1>1, <1>2, <1>3

LEMMA EnvelopeLength ==
  ASSUME SenderOK, NEW id \in Byte, NEW payload \in SmallPayload
  PROVE  PayloadLength(Envelope(id, payload)) = Len(payload)
<1>1. PICK e : e = Envelope(id, payload)
  OBVIOUS
<1>2. PICK n \in Nat : n = Len(payload) /\ n <= 514
  BY DEF SmallPayload
<1>3. /\ e \in Seq(Byte) /\ Len(e) = 6 + n
      /\ e[1] = IF protover = 1 THEN 6 ELSE n % 256
      /\ e[2] = IF protover = 1 THEN n ELSE (n \div 256) % 256
      /\ e[3] = protover
  <2>1. /\ e \in Seq(Byte) /\ Len(e) = 6 + Len(payload) /\ e[3] = protover
        /\ e[1] = LengthBytes(payload)[1] /\ e[2] = LengthBytes(payload)[2]
    BY ONLY SenderOK, id \in Byte, payload \in SmallPayload, <1>1, EnvelopeList
  <2>2. /\ LengthBytes(payload)[1] = IF protover = 1 THEN 6 ELSE Len(payload) % 256
        /\ LengthBytes(payload)[2] = IF protover = 1 THEN Len(payload)
                                     ELSE (Len(payload) \div 256) % 256
    BY ONLY SenderOK, payload \in SmallPayload, LengthBytesOf DEF PROTOVER_V1
  <2> QED  BY ONLY <1>2, <2>1, <2>2
<1>4. PayloadLength(e) = IF e[3] = 1 THEN e[2] ELSE e[1] + 256 * e[2]
  <2>1. e \in Seq(Byte) /\ Len(e) > 2
    BY <1>2, <1>3
  <2> QED  BY ONLY <2>1, PayloadLengthOf
<1>5. n = (n % 256) + 256 * ((n \div 256) % 256)
  <2>1. HasTwoDigits(n)
    BY ONLY n \in Nat, <1>2, TwoDigits
  <2> QED  BY ONLY <2>1 DEF HasTwoDigits
<1>6. PayloadLength(e) = n
  <2>1. CASE protover = 1
    BY <1>3, <1>4, <2>1
  <2>2. CASE protover # 1
    BY <1>3, <1>4, <1>5, <2>2
  <2> QED  BY <2>1, <2>2
<1> QED  BY <1>1, <1>2, <1>6

LEMMA RewrittenLength ==
  ASSUME NEW w \in Seq(Byte), Len(w) > 5, w[3] \in 1..3,
         NEW n \in Nat, n <= 514, w[3] = 1 => n \in Byte
  PROVE  LET u == WithLength(w, n)
         IN  /\ u \in Seq(Byte) /\ Len(u) = Len(w) /\ PayloadLength(u) = n
             /\ \A k \in 3..Len(w) : u[k] = w[k]
<1>0. HasTwoDigits(n)
  BY TwoDigits
<1>1. PICK u : u = WithLength(w, n)
  OBVIOUS
<1>2. CASE w[3] = 1
  <2>1. PICK b : b = <<n>>
    OBVIOUS
  <2>2. b \in Seq(Byte) /\ Len(b) = 1 /\ b[1] = n
    <3>1. n \in Byte
      BY <1>2
    <3>2. <<n>> \in Seq(Byte) /\ Len(<<n>>) = 1 /\ <<n>>[1] = n
      BY ONLY <3>1
    <3> QED  BY <2>1, <3>2
  <2>3. u = Overwrite(w, 1, b)
    BY <1>1, <1>2, <2>1 DEF WithLength, At, PROTOVER_POS, PROTOVER_V2, PAYLOAD_LEN_POS_V1
  <2>4. /\ u \in Seq(Byte) /\ Len(u) = Len(w)
        /\ \A k \in 1..1 : u[k] = w[k]
        /\ \A k \in 1..Len(b) : u[1 + k] = b[k]
        /\ \A k \in (1 + Len(b) + 1)..Len(w) : u[k] = w[k]
    <3>1. b \in Seq(Byte) /\ 1 \in Nat /\ 1 + Len(b) <= Len(w)
      BY <2>2
    <3> QED  BY ONLY <2>3, <3>1, w \in Seq(Byte), OverwriteList
  <2>5. u[1 + 1] = b[1] /\ \A k \in 3..Len(w) : u[k] = w[k]
    BY <2>2, <2>4
  <2>6. u[3] = 1 /\ u[2] = n
    BY <1>2, <2>2, <2>5
  <2>7. PayloadLength(u) = n
    <3>1. u \in Seq(Byte) /\ Len(u) > 2
      BY <2>4
    <3>2. PayloadLength(u) = IF u[3] = 1 THEN u[2] ELSE u[1] + 256 * u[2]
      BY ONLY <3>1, PayloadLengthOf
    <3> QED  BY <2>6, <3>2
  <2> QED  BY <1>1, <2>4, <2>5, <2>7
<1>3. CASE w[3] # 1
  <2>1. PICK b : b = ToLittleEndian(n, 2)
    OBVIOUS
  <2>2. b \in Seq(Byte) /\ Len(b) = 2 /\ b[1] = n % 256 /\ b[2] = (n \div 256) % 256
    BY <2>1, ToTwo
  <2>3. u = Overwrite(w, 0, b)
    BY <1>1, <1>3, <2>1 DEF WithLength, At, PROTOVER_POS, PROTOVER_V2, PAYLOAD_LEN_POS
  <2>4. /\ u \in Seq(Byte) /\ Len(u) = Len(w)
        /\ \A k \in 1..Len(b) : u[0 + k] = b[k]
        /\ \A k \in (0 + Len(b) + 1)..Len(w) : u[k] = w[k]
    <3>1. b \in Seq(Byte) /\ 0 \in Nat /\ 0 + Len(b) <= Len(w)
      BY ONLY <2>2, Len(w) > 5, w \in Seq(Byte)
    <3> QED  BY ONLY <2>3, <3>1, w \in Seq(Byte), OverwriteList
  <2>5. u[0 + 1] = b[1] /\ u[0 + 2] = b[2] /\ \A k \in 3..Len(w) : u[k] = w[k]
    BY <2>2, <2>4
  <2>6. u[3] # 1 /\ u[1] = n % 256 /\ u[2] = (n \div 256) % 256
    BY <1>3, <2>2, <2>5
  <2>7. PayloadLength(u) = n
    <3>1. u \in Seq(Byte) /\ Len(u) > 2
      BY <2>4
    <3>2. PayloadLength(u) = IF u[3] = 1 THEN u[2] ELSE u[1] + 256 * u[2]
      BY ONLY <3>1, PayloadLengthOf
    <3>3. n = (n % 256) + 256 * ((n \div 256) % 256)
      BY ONLY <1>0 DEF HasTwoDigits
    <3> QED  BY <2>6, <3>2, <3>3
  <2> QED  BY <1>1, <2>4, <2>5, <2>7
<1> QED  BY <1>2, <1>3

(* A packet with all its attributes.                                       *)
PacketFields == {"valid", "protover", "packetCounter", "id", "payloadLength", "packetList"}
HasFields(p) == PacketFields \subseteq DOMAIN p
HasAirFields(p) == HasFields(p) /\ {"timestamp", "phy", "OK", "blePacket"} \subseteq DOMAIN p

(* A packet that is what was on the air, heard when it began.              *)
Sniffed(p) == /\ p.valid /\ p.id \in AirPackets /\ p.packetCounter \in CounterValues
              /\ "valid" \in DOMAIN p /\ "timestamp" \in DOMAIN p
Carries(list, f) == /\ list \in Seq(Byte) /\ Len(list) = BLEPACKET_POS + Len(AirBytes(f))
                    /\ From(list, BLEPACKET_POS) = AirBytes(f)
                    /\ ValidatePacketList(list)
Measured(p, h) == /\ p.timestamp = h.start /\ p.phy = h.frame.phy
                  /\ p.payloadLength = BLE_HEADER_LENGTH + Len(AirBytes(h.frame))
Faithful(p, h) == Sniffed(p) /\ Carries(p.packetList, h.frame) /\ Measured(p, h)

(* An advertisement whose CRC was right is taken for one, and taken apart. *)
Identified(p, f) ==
  (p.OK /\ IsAdv(f)) => p.blePacket = BlePacket(PACKET_TYPE_ADVERTISING, AirBytes(f), f.phy)

LEMMA CounterTyped ==
  ASSUME NEW e \in Seq(Byte), Len(e) > 5
  PROVE  PacketCounter(e) \in CounterValues
<1>1. PICK sl : sl = Slice(e, 3, 5)
  OBVIOUS
<1>2. sl \in Seq(Byte) /\ Len(sl) = 2
  <2>1. e \in Seq(Byte) /\ 3 \in Nat /\ 5 \in Nat /\ 3 <= 5 /\ 5 <= Len(e)
    BY ONLY e \in Seq(Byte), Len(e) > 5
  <2>2. Slice(e, 3, 5) \in Seq(Byte) /\ Len(Slice(e, 3, 5)) = 5 - 3
    BY ONLY ZenonT(60), <2>1, SliceList
  <2> QED  BY <1>1, <2>2
<1>3. sl[1] \in Nat /\ sl[1] <= 255 /\ sl[2] \in Nat /\ sl[2] <= 255
  <2>1. 1 \in 1..Len(sl) /\ 2 \in 1..Len(sl)
    BY <1>2
  <2>2. sl \in Seq(Byte)
    BY <1>2
  <2>3. sl[1] \in Nat /\ sl[1] <= 255
    BY ONLY <2>1, <2>2, ByteIn
  <2>4. sl[2] \in Nat /\ sl[2] <= 255
    BY ONLY <2>1, <2>2, ByteIn
  <2> QED  BY ONLY <2>3, <2>4
<1>4. ParseLittleEndian(sl) = sl[1] + 256 * sl[2]
  <2>1. Len(sl) = 2 /\ sl[1] \in Int /\ sl[2] \in Int
    BY <1>2, <1>3
  <2> QED  BY ONLY <2>1, ParseTwo
<1>5. PacketCounter(e) = ParseLittleEndian(sl)
  BY <1>1 DEF PacketCounter, PACKETCOUNTER_POS
<1>6. PICK a \in Nat : a = sl[1] /\ a <= 255
  BY ONLY <1>3
<1>7. PICK b \in Nat : b = sl[2] /\ b <= 255
  BY ONLY <1>3
<1>8. PacketCounter(e) = a + 256 * b /\ a <= 255 /\ b <= 255
  BY ONLY SMTT(30), <1>4, <1>5, <1>6, <1>7
<1>9. a + 256 * b \in 0..(256 * 256 - 1)
  <2>1. a <= 255 /\ b <= 255
    BY ONLY <1>8
  <2>2. a + 256 * b <= 255 + 256 * 255
    BY ONLY a \in Nat, b \in Nat, <2>1
  <2> QED  BY ONLY SMTT(30), a \in Nat, b \in Nat, <2>2
<1> QED  BY ONLY <1>8, <1>9 DEF CounterValues

LEMMA FrameSent ==
  ASSUME protover \in ProtoVers, clock \in Nat, NEW f \in Frames, NEW crcOK \in BOOLEAN
  PROVE  /\ PacketId(f) \in Byte /\ FramePayload(f, crcOK) \in SmallPayload
         /\ FrameList(f, crcOK) = Envelope(PacketId(f), FramePayload(f, crcOK))
<1>1. PacketId(f) \in Byte
  BY DEF PacketId, EVENT_PACKET_ADV_PDU, EVENT_PACKET_DATA_PDU, Byte
<1>2. FramePayload(f, crcOK) \in SmallPayload
  BY FrameBytes
<1>3. FrameList(f, crcOK) = Envelope(PacketId(f), FramePayload(f, crcOK))
  BY DEF FrameList, FramePayload, Padded, BleHeader, FlagsByte
<1> QED  BY <1>1, <1>2, <1>3

LEMMA FrameRead ==
  ASSUME SenderOK, protover \in ProtoVers, clock \in 0..(TimerPeriod - 1),
         NEW f \in Frames, NEW crcOK \in BOOLEAN
  PROVE  LET p == ReadPacket(FrameList(f, crcOK))
         IN  /\ Faithful(p, [frame |-> f, start |-> clock])
             /\ p.protover = protover /\ p.packetList[3] = protover
             /\ HasAirFields(p) /\ Identified(p, f)
<1>1. PICK T \in 1..4 : T = TimestampSize
  BY PacketAssumption
<1>2. PICK d \in {0, 1} : d = Coded(f)
  BY DEF Coded
<1>3. PICK pl : pl = FramePayload(f, crcOK)
  OBVIOUS
<1>4. PICK air : air = AirBytes(f)
  OBVIOUS
<1>5. clock \in Nat
  BY Period
<1>6. /\ pl \in Seq(Byte) /\ Len(pl) = 7 + T + Len(air)
      /\ air \in Seq(Byte) /\ Len(air) = 9 + d + Len(AirPayload(f))
      /\ pl[1] = BLE_HEADER_LENGTH /\ pl[2] = FlagsByte(f, crcOK)
      /\ \A k \in 1..T : pl[6 + k] = ToLittleEndian(clock, TimestampSize)[k]
      /\ \A k \in 1..(6 + d) : pl[6 + T + k] = air[k]
      /\ \A k \in (7 + d)..Len(air) : pl[7 + T + k] = air[k]
      /\ pl \in SmallPayload
  BY ZenonT(60), <1>1, <1>2, <1>3, <1>4, <1>5, FrameBytes
<1>7. PICK m \in Nat : m = Len(air) /\ m >= 9 + d
  <2>1. Len(AirPayload(f)) \in Nat
    BY FrameTyped DEF FrameOK, Byte
  <2> QED  BY <1>6, <2>1
<1>8. PICK id \in AirPackets : id = PacketId(f)
  BY DEF PacketId, AirPackets
<1>9. id \in Byte
  BY DEF AirPackets, EVENT_PACKET_ADV_PDU, EVENT_PACKET_DATA_PDU, Byte
<1>10. PICK e : e = FrameList(f, crcOK)
  OBVIOUS
<1>11. e = Envelope(id, pl)
  BY <1>3, <1>8, <1>10 DEF FrameList, FramePayload, Padded, BleHeader, FlagsByte
<1>12. /\ e \in Seq(Byte) /\ Len(e) = 6 + Len(pl)
       /\ e[3] = protover /\ e[4] = counter % 256 /\ e[5] = (counter \div 256) % 256
       /\ e[6] = id /\ \A k \in 1..Len(pl) : e[6 + k] = pl[k]
  <2>1. SenderOK /\ id \in Byte /\ pl \in SmallPayload
    BY <1>6, <1>9
  <2>2. LET x == Envelope(id, pl)
        IN  /\ x \in Seq(Byte) /\ Len(x) = 6 + Len(pl)
            /\ x[3] = protover /\ x[4] = counter % 256 /\ x[5] = (counter \div 256) % 256
            /\ x[6] = id /\ \A k \in 1..Len(pl) : x[6 + k] = pl[k]
    BY ONLY <2>1, EnvelopeList
  <2> QED  BY ONLY <1>11, <2>2
<1>13. PayloadLength(e) = Len(pl)
  <2>1. SenderOK /\ id \in Byte /\ pl \in SmallPayload
    BY <1>6, <1>9
  <2> QED  BY ONLY <1>11, <2>1, EnvelopeLength
<1>14. /\ Len(e) = 13 + T + m /\ Len(pl) = 7 + T + m
       /\ e[7] = BLE_HEADER_LENGTH /\ e[8] = FlagsByte(f, crcOK)
  <2>1. Len(e) = 13 + T + m /\ Len(pl) = 7 + T + m
    BY ONLY SMTT(30), <1>6, <1>7, <1>12, T \in 1..4, m \in Nat
  <2>2. 1 \in 1..Len(pl) /\ 2 \in 1..Len(pl)
    BY <2>1
  <2>3. e[6 + 1] = pl[1] /\ e[6 + 2] = pl[2]
    BY <1>12, <2>2
  <2> QED  BY <1>6, <2>1, <2>3
<1>15. PICK phy \in 0..2 : phy = f.phy
  BY FrameTyped
<1>16. Phy(At(e, FLAGS_POS)) = phy
  <2>1. At(e, FLAGS_POS) = FlagsByte(f, crcOK)
    BY <1>14 DEF At, FLAGS_POS
  <2>2. FlagsByte(f, crcOK) = (IF crcOK THEN 1 ELSE 0) + 16 * phy
    BY <1>15 DEF FlagsByte
  <2> QED  BY <2>1, <2>2 DEF Phy
<1>17. PaddingPos(phy) = 18 + T + d
  BY <1>1, <1>2, <1>15 DEF PaddingPos, BLEPACKET_POS, TIMESTAMP_POS, Coded
<1>18. PICK v \in 1..3 : v = protover
  BY DEF SenderOK, PROTOVER_V1, PROTOVER_V2, PROTOVER_V3
<1>19. ReadPacket(e) = AirPacket(e)
  <2>1. ~(Len(e) <= ID_POS) /\ ~(At(e, PROTOVER_POS) > PROTOVER_V3)
    BY <1>12, <1>14, <1>18 DEF ID_POS, At, PROTOVER_POS, PROTOVER_V3
  <2>2. ValidatePacketList(e)
    BY <1>13, <1>14 DEF ValidatePacketList, HEADER_LENGTH
  <2>3. At(e, ID_POS) \in AirPackets /\ Len(e) # HEADER_LENGTH
    BY <1>12, <1>14 DEF At, ID_POS, HEADER_LENGTH
  <2>4. At(e, BLE_HEADER_LEN_POS) = BLE_HEADER_LENGTH
    BY <1>14 DEF At, BLE_HEADER_LEN_POS
  <2>5. ~(Len(e) <= RSSI_POS) /\ ~(Len(e) <= PaddingPos(phy))
    BY <1>7, <1>14, <1>17 DEF RSSI_POS
  <2> QED  BY <1>16, <2>1, <2>2, <2>3, <2>4, <2>5 DEF ReadPacket
<1>20. PICK w : w = Without(e, 18 + T + d)
  OBVIOUS
<1>21. /\ w \in Seq(Byte) /\ Len(w) = 12 + T + m
       /\ \A k \in 1..(12 + T + m) : w[k] = IF k <= 18 + T + d THEN e[k] ELSE e[k + 1]
  <2>1. e \in Seq(Byte) /\ 18 + T + d \in 0..(Len(e) - 1) /\ Len(e) - 1 = 12 + T + m
    BY <1>7, <1>12, <1>14
  <2> QED  BY ONLY <1>20, <2>1, WithoutList
<1>22. w[3] = protover
  <2>1. 3 \in 1..(12 + T + m) /\ 3 <= 18 + T + d
    OBVIOUS
  <2> QED  BY <1>12, <1>21, <2>1
<1>23. PICK u : u = Unpadded(e, phy)
  OBVIOUS
<1>24. /\ u \in Seq(Byte) /\ Len(u) = 12 + T + m /\ PayloadLength(u) = 6 + T + m
       /\ \A k \in 3..(12 + T + m) : u[k] = w[k]
  <2>1. u = WithLength(w, 6 + T + m)
    <3>1. PayloadLength(e) - 1 = 6 + T + m
      BY <1>13, <1>14
    <3> QED  BY <1>17, <1>20, <1>23, <3>1 DEF Unpadded
  <2>2. /\ w \in Seq(Byte) /\ Len(w) > 5 /\ w[3] \in 1..3
        /\ 6 + T + m \in Nat /\ 6 + T + m <= 514
        /\ w[3] = 1 => 6 + T + m \in Byte
    <3>1. 7 + T + m <= 514 /\ (protover = 1 => 7 + T + m \in Byte)
      BY <1>6, <1>14 DEF SmallPayload, PROTOVER_V1
    <3>2. protover = 1 => 6 + T + m \in Byte
      BY <3>1 DEF Byte
    <3> QED  BY <1>18, <1>21, <1>22, <3>1, <3>2
  <2>3. LET x == WithLength(w, 6 + T + m)
        IN  /\ x \in Seq(Byte) /\ Len(x) = Len(w) /\ PayloadLength(x) = 6 + T + m
            /\ \A k \in 3..Len(w) : x[k] = w[k]
    BY ONLY <2>2, RewrittenLength
  <2> QED  BY <1>21, <2>1, <2>3
<1>25. u[3] = protover
  BY <1>22, <1>24
<1>26. From(u, BLEPACKET_POS) = air
  <2>1. BLEPACKET_POS = 12 + T /\ 12 + T \in 0..Len(u)
    BY <1>1, <1>24 DEF BLEPACKET_POS, TIMESTAMP_POS
  <2>2. PICK r : r = From(u, 12 + T)
    OBVIOUS
  <2>3. r \in Seq(Byte) /\ Len(r) = m /\ \A k \in 1..m : r[k] = u[12 + T + k]
    <3>1. /\ From(u, 12 + T) \in Seq(Byte) /\ Len(From(u, 12 + T)) = Len(u) - (12 + T)
          /\ \A k \in 1..(Len(u) - (12 + T)) : From(u, 12 + T)[k] = u[12 + T + k]
      <4>1. u \in Seq(Byte) /\ 12 + T \in 0..Len(u)
        BY <1>24, <2>1
      <4> QED  BY ONLY <4>1, FromList
    <3>2. Len(u) - (12 + T) = m
      BY <1>24
    <3> QED  BY ONLY <2>2, <3>1, <3>2
  <2>4. ASSUME NEW k \in 1..m PROVE r[k] = air[k]
    <3>1. /\ 12 + T + k \in 3..(12 + T + m) /\ 12 + T + k \in 1..(12 + T + m)
          /\ r[k] = u[12 + T + k]
      BY <2>3
    <3>2. r[k] = w[12 + T + k]
      BY <1>24, <3>1
    <3>3. CASE k <= 6 + d
      <4>1. 12 + T + k <= 18 + T + d /\ 12 + T + k = 6 + (6 + T + k) /\ 6 + T + k \in 1..Len(pl)
        BY <1>14, <3>3
      <4>2. w[12 + T + k] = e[12 + T + k]
        BY <1>21, <3>1, <4>1
      <4>3. e[6 + (6 + T + k)] = pl[6 + T + k]
        BY <1>12, <4>1
      <4>4. pl[6 + T + k] = air[k]
        BY <1>6, <3>3
      <4> QED  BY <3>2, <4>1, <4>2, <4>3, <4>4
    <3>4. CASE k > 6 + d
      <4>1. /\ ~(12 + T + k <= 18 + T + d) /\ 12 + T + k + 1 = 6 + (7 + T + k)
            /\ 7 + T + k \in 1..Len(pl) /\ k \in (7 + d)..Len(air)
        BY <1>7, <1>14, <3>4
      <4>2. w[12 + T + k] = e[12 + T + k + 1]
        BY <1>21, <3>1, <4>1
      <4>3. e[6 + (7 + T + k)] = pl[7 + T + k]
        BY <1>12, <4>1
      <4>4. pl[7 + T + k] = air[k]
        BY <1>6, <4>1
      <4> QED  BY <3>2, <4>1, <4>2, <4>3, <4>4
    <3> QED  BY <3>3, <3>4
  <2>5. r = air
    BY ONLY <1>6, <1>7, <2>3, <2>4, SeqEqual
  <2> QED  BY <2>1, <2>2, <2>5
<1>27. ValidatePacketList(u)
  BY <1>24 DEF ValidatePacketList, HEADER_LENGTH
<1>28. Timestamp(e) = clock
  <2>1. PICK ts : ts = ToLittleEndian(clock, TimestampSize)
    OBVIOUS
  <2>2. /\ ts \in Seq(Byte) /\ Len(ts) = T /\ ParseLittleEndian(ts) = clock % TimerPeriod
    <3>1. clock \in Int
      BY <1>5
    <3>2. LET list == ToLittleEndian(clock, TimestampSize)
          IN  /\ list \in Seq(Byte) /\ Len(list) = TimestampSize
              /\ ParseLittleEndian(list) = clock % TimerPeriod
      BY ONLY <3>1, ToSome
    <3> QED  BY <1>1, <2>1, <3>2
  <2>3. PICK sl : sl = Slice(e, 12, 12 + T)
    OBVIOUS
  <2>4. sl \in Seq(Byte) /\ Len(sl) = T /\ \A k \in 1..T : sl[k] = e[12 + k]
    <3>1. PICK i \in Nat : i = 12
      OBVIOUS
    <3>2. PICK j \in Nat : j = 12 + T
      OBVIOUS
    <3>3. e \in Seq(Byte) /\ i \in Nat /\ j \in Nat /\ i <= j /\ j <= Len(e)
      BY <1>12, <1>14, <3>1, <3>2
    <3>4. /\ Slice(e, i, j) \in Seq(Byte) /\ Len(Slice(e, i, j)) = j - i
          /\ \A k \in 1..(j - i) : Slice(e, i, j)[k] = e[i + k]
      BY ONLY <3>3, SliceList
    <3>5. j - i = T /\ sl = Slice(e, i, j)
      BY <2>3, <3>1, <3>2
    <3> QED  BY ONLY <3>1, <3>4, <3>5
  <2>5. ASSUME NEW k \in 1..T PROVE sl[k] = ts[k]
    <3>1. 12 + k = 6 + (6 + k) /\ 6 + k \in 1..Len(pl)
      BY <1>14
    <3>2. e[6 + (6 + k)] = pl[6 + k]
      BY <1>12, <3>1
    <3> QED  BY <1>6, <2>1, <2>4, <3>1, <3>2
  <2>6. sl = ts
    BY ONLY <2>2, <2>4, <2>5, SeqEqual
  <2>7. clock % TimerPeriod = clock
    BY Period
  <2>8. Timestamp(e) = ParseLittleEndian(sl)
    BY <1>1, <2>3 DEF Timestamp, TIMESTAMP_POS, BLEPACKET_POS
  <2> QED  BY <2>2, <2>6, <2>7, <2>8
<1>29. PacketCounter(e) \in CounterValues
  <2>1. e \in Seq(Byte) /\ Len(e) > 5
    BY <1>12, <1>14
  <2> QED  BY ONLY <2>1, CounterTyped
<1>30. PICK p : p = ReadPacket(e)
  OBVIOUS
<1>31. /\ p.valid /\ p.id = id /\ p.packetList = u /\ p.timestamp = clock /\ p.phy = phy
       /\ p.payloadLength = 6 + T + m /\ p.packetCounter = PacketCounter(e)
       /\ p.protover = protover /\ HasAirFields(p)
       /\ p.OK => p.blePacket = BlePacket(PacketType(u, id), From(u, BLEPACKET_POS), phy)
  <2>1. /\ At(e, PROTOVER_POS) = protover /\ At(e, ID_POS) = id
        /\ PayloadLength(e) - 1 = 6 + T + m
    BY <1>12, <1>13, <1>14 DEF At, PROTOVER_POS, ID_POS
  <2>2. PICK OK : OK = FlagsOK(At(e, FLAGS_POS))
    OBVIOUS
  <2>3. PICK b : b = IF OK THEN BlePacket(PacketType(u, id), From(u, BLEPACKET_POS), phy) ELSE None
    OBVIOUS
  <2>4. p = [valid |-> TRUE, OK |-> OK, protover |-> protover,
             packetCounter |-> PacketCounter(e), id |-> id, payloadLength |-> 6 + T + m,
             packetList |-> u, timestamp |-> clock, phy |-> phy, blePacket |-> b]
    BY <1>16, <1>19, <1>23, <1>28, <1>30, <2>1, <2>2, <2>3 DEF AirPacket
  <2>5. p.OK = OK /\ p.blePacket = b
    BY <2>4
  <2>6. p.OK => p.blePacket = BlePacket(PacketType(u, id), From(u, BLEPACKET_POS), phy)
    BY ONLY <2>3, <2>5
  <2>7. /\ p.valid /\ p.id = id /\ p.packetList = u /\ p.timestamp = clock /\ p.phy = phy
        /\ p.payloadLength = 6 + T + m /\ p.packetCounter = PacketCounter(e)
        /\ p.protover = protover /\ HasAirFields(p)
    BY <2>4 DEF HasAirFields, HasFields, PacketFields
  <2> QED  BY ONLY <2>6, <2>7
<1>32. Faithful(p, [frame |-> f, start |-> clock])
  <2>1. BLEPACKET_POS = 12 + T /\ BLE_HEADER_LENGTH = 6 + T
    BY <1>1 DEF BLEPACKET_POS, TIMESTAMP_POS, BLE_HEADER_LENGTH
  <2>2. "valid" \in DOMAIN p /\ "timestamp" \in DOMAIN p
    BY <1>31 DEF HasAirFields, HasFields, PacketFields
  <2>3. PICK h : h = [frame |-> f, start |-> clock]
    OBVIOUS
  <2>4. h.frame = f /\ h.start = clock
    BY <2>3
  <2>5. Sniffed(p)
    BY <1>8, <1>29, <1>31, <2>2 DEF Sniffed
  <2>6. Carries(u, f)
    BY <1>4, <1>7, <1>24, <1>26, <1>27, <2>1 DEF Carries
  <2>7. Measured(p, h)
    BY <1>4, <1>7, <1>15, <1>31, <2>1, <2>4 DEF Measured
  <2>8. p.packetList = u
    BY <1>31
  <2> QED  BY ONLY <2>3, <2>4, <2>5, <2>6, <2>7, <2>8 DEF Faithful
<1>33. ASSUME IsAdv(f) PROVE PacketType(u, id) = PACKET_TYPE_ADVERTISING
  <2>1. At(u, PROTOVER_POS) = v
    BY <1>18, <1>25 DEF At, PROTOVER_POS
  <2>2. CASE v = 3
    <3>1. id = EVENT_PACKET_ADV_PDU
      BY <1>8, <1>18, <1>33, <2>2 DEF PacketId, PROTOVER_V3
    <3> QED  BY <2>1, <2>2, <3>1 DEF PacketType, PROTOVER_V3
  <2>3. CASE v # 3
    <3>1. PICK addr : addr = f.accessAddress
      OBVIOUS
    <3>2. addr = ADV_ACCESS_ADDRESS /\ addr \in Seq(Byte) /\ Len(addr) = 4
      BY FrameTyped, <1>33, <3>1 DEF FrameOK
    <3>3. PICK i, j \in Nat : i = 12 + T /\ j = 12 + T + 4
      OBVIOUS
    <3>4. BLEPACKET_POS = i /\ BLEPACKET_POS + 4 = j /\ j - i = 4
      BY <1>1, <3>3 DEF BLEPACKET_POS, TIMESTAMP_POS
    <3>5. PICK sl : sl = Slice(u, i, j)
      OBVIOUS
    <3>6. sl \in Seq(Byte) /\ Len(sl) = 4 /\ \A k \in 1..4 : sl[k] = u[i + k]
      <4>1. u \in Seq(Byte) /\ i <= j /\ j <= Len(u)
        BY <1>7, <1>24, <3>3
      <4>2. /\ Slice(u, i, j) \in Seq(Byte) /\ Len(Slice(u, i, j)) = j - i
            /\ \A k \in 1..(j - i) : Slice(u, i, j)[k] = u[i + k]
        BY ONLY <4>1, i \in Nat, j \in Nat, SliceList
      <4> QED  BY ONLY <3>4, <3>5, <4>2
    <3>7. ASSUME NEW k \in 1..4 PROVE sl[k] = addr[k]
      <4>1. sl[k] = air[k]
        <5>1. From(u, i) = air
          BY <1>26, <3>4
        <5>2. u \in Seq(Byte) /\ i \in 0..Len(u) /\ k \in 1..(Len(u) - i)
          BY <1>7, <1>24, <3>3
        <5>3. From(u, i)[k] = u[i + k]
          BY ONLY <5>2, FromList
        <5> QED  BY ONLY <3>6, <5>1, <5>3, k \in 1..4
      <4>2. air[k] = f.accessAddress[k]
        BY <1>4, AirBytesTyped
      <4> QED  BY ONLY <3>1, <4>1, <4>2
    <3>8. sl = addr
      BY ONLY <3>2, <3>6, <3>7, SeqEqual
    <3>9. v < 3
      BY <2>3
    <3> QED  BY ONLY <2>1, <3>2, <3>4, <3>5, <3>8, <3>9 DEF PacketType, PROTOVER_V3
  <2> QED  BY <2>2, <2>3
<1>34. Identified(p, f)
  BY ONLY <1>4, <1>15, <1>26, <1>31, <1>33 DEF Identified
<1> QED  BY ONLY <1>10, <1>25, <1>30, <1>31, <1>32, <1>34

(* What the reader makes of any other packet.                              *)
LEMMA CommonTyped ==
  ASSUME NEW e \in Seq(Byte), Len(e) > 5
  PROVE  LET p == Common(e)
         IN  /\ p.valid /\ p.id = e[6] /\ p.protover = e[3] /\ p.packetList = e
             /\ p.payloadLength = PayloadLength(e) /\ p.payloadLength \in Nat
             /\ p.packetCounter \in CounterValues
             /\ HasFields(p) /\ "timestamp" \notin DOMAIN p
<1>1. PICK c : c = PacketCounter(e)
  OBVIOUS
<1>2. c \in CounterValues
  BY ONLY e \in Seq(Byte), Len(e) > 5, <1>1, CounterTyped
<1>3. PICK n : n = PayloadLength(e)
  OBVIOUS
<1>4. n \in Nat
  <2>1. e \in Seq(Byte) /\ Len(e) > 2 /\ 1 \in 1..Len(e) /\ 2 \in 1..Len(e)
    OBVIOUS
  <2>2. e[1] \in Nat /\ e[2] \in Nat
    BY ONLY <2>1, ByteIn
  <2>3. n = IF e[3] = 1 THEN e[2] ELSE e[1] + 256 * e[2]
    BY ONLY <1>3, <2>1, PayloadLengthOf
  <2> QED  BY <2>2, <2>3
<1>5. PICK p : p = Common(e)
  OBVIOUS
<1>6. PICK x, y : x = e[3] /\ y = e[6]
  OBVIOUS
<1>7. p = [valid |-> TRUE, OK |-> FALSE, protover |-> x, packetCounter |-> c, id |-> y,
           payloadLength |-> n, packetList |-> e]
  BY <1>1, <1>3, <1>5, <1>6 DEF Common, At, PROTOVER_POS, ID_POS
<1>8. /\ p.valid /\ p.id = y /\ p.protover = x /\ p.packetList = e /\ p.payloadLength = n
      /\ p.packetCounter = c /\ HasFields(p) /\ "timestamp" \notin DOMAIN p
  BY <1>7 DEF HasFields, PacketFields
<1> QED  BY <1>2, <1>3, <1>4, <1>5, <1>6, <1>8

LEMMA OtherRead ==
  ASSUME SenderOK, NEW o \in Others
  PROVE  LET e == Envelope(o.id, o.payload)
         IN  /\ e \in Seq(Byte) /\ Len(e) > 5 /\ e[6] = o.id /\ e[3] = protover
             /\ o.id \in Byte \ AirPackets
             /\ ReadPacket(e) = Common(e)
<1>1. o.id \in Byte \ AirPackets /\ o.payload \in Seq(Byte) /\ Len(o.payload) \in Byte
  BY PacketsAssumption DEF OtherOK
<1>2. PICK id \in Byte : id = o.id
  BY <1>1
<1>3. PICK pl \in SmallPayload : pl = o.payload
  <2>1. \A b \in Byte : b <= 514
    BY DEF Byte
  <2> QED  BY <1>1, <2>1 DEF SmallPayload
<1>4. PICK e : e = Envelope(id, pl)
  OBVIOUS
<1>5. e \in Seq(Byte) /\ Len(e) = 6 + Len(pl) /\ e[3] = protover /\ e[6] = id
  <2>1. LET x == Envelope(id, pl)
        IN  x \in Seq(Byte) /\ Len(x) = 6 + Len(pl) /\ x[3] = protover /\ x[6] = id
    BY ONLY SenderOK, id \in Byte, pl \in SmallPayload, EnvelopeList
  <2> QED  BY ONLY <1>4, <2>1
<1>6. PayloadLength(e) = Len(pl)
  BY ONLY SenderOK, id \in Byte, pl \in SmallPayload, <1>4, EnvelopeLength
<1>7. PICK n \in Nat : n = Len(pl)
  BY DEF SmallPayload
<1>8. Len(e) = 6 + n /\ PayloadLength(e) = n
  BY <1>5, <1>6, <1>7
<1>9. PICK v \in 1..3 : v = protover
  BY DEF SenderOK, PROTOVER_V1, PROTOVER_V2, PROTOVER_V3
<1>10. ReadPacket(e) = Common(e)
  <2>1. ~(Len(e) <= ID_POS) /\ ~(At(e, PROTOVER_POS) > PROTOVER_V3)
    BY <1>5, <1>8, <1>9 DEF ID_POS, At, PROTOVER_POS, PROTOVER_V3
  <2>2. ValidatePacketList(e)
    BY <1>8 DEF ValidatePacketList, HEADER_LENGTH
  <2>3. At(e, ID_POS) \notin AirPackets
    BY <1>1, <1>2, <1>5 DEF At, ID_POS
  <2> QED  BY <2>1, <2>2, <2>3 DEF ReadPacket
<1>11. Len(e) > 5
  BY <1>8
<1> QED  BY <1>1, <1>2, <1>3, <1>4, <1>5, <1>10, <1>11
-----------------------------------------------------------------------------
(* The conversion for a Wireshark of version 2.                            *)
LEMMA ConvertedFields ==
  ASSUME NEW p, HasFields(p)
  PROVE  LET q == HandlePacketCompatibility(p)
         IN  /\ DOMAIN q = DOMAIN p
             /\ q.valid = p.valid /\ q.id = p.id /\ q.protover = p.protover
             /\ q.payloadLength = p.payloadLength /\ q.packetCounter = p.packetCounter
             /\ HasAirFields(p) => /\ q.timestamp = p.timestamp /\ q.phy = p.phy
                                   /\ q.OK = p.OK /\ q.blePacket = p.blePacket
             /\ q.packetList = IF supportedProtocolVersion = PROTOVER_V2 /\ p.protover > PROTOVER_V2
                               THEN ConvertPacketListProtoVer2(p) ELSE p.packetList
<1>1. PICK l : l = ConvertPacketListProtoVer2(p)
  OBVIOUS
<1>2. CASE supportedProtocolVersion = PROTOVER_V2 /\ p.protover > PROTOVER_V2
  <2>1. PICK q : q = [p EXCEPT !.packetList = l]
    OBVIOUS
  <2>2. HandlePacketCompatibility(p) = q
    BY <1>1, <1>2, <2>1 DEF HandlePacketCompatibility, Converted
  <2>3. /\ DOMAIN q = DOMAIN p /\ q.packetList = l
        /\ \A x \in DOMAIN p \ {"packetList"} : q[x] = p[x]
    BY <2>1 DEF HasFields, PacketFields
  <2>4. /\ q.valid = p.valid /\ q.id = p.id /\ q.protover = p.protover
        /\ q.payloadLength = p.payloadLength /\ q.packetCounter = p.packetCounter
    BY <2>3 DEF HasFields, PacketFields
  <2>5. HasAirFields(p) => /\ q.timestamp = p.timestamp /\ q.phy = p.phy
                           /\ q.OK = p.OK /\ q.blePacket = p.blePacket
    BY <2>3 DEF HasAirFields, HasFields
  <2> QED  BY ONLY <1>1, <1>2, <2>2, <2>3, <2>4, <2>5
<1>3. CASE ~(supportedProtocolVersion = PROTOVER_V2 /\ p.protover > PROTOVER_V2)
  <2>1. HandlePacketCompatibility(p) = p
    BY <1>3 DEF HandlePacketCompatibility, Converted
  <2> QED  BY ONLY <1>3, <2>1
<1> QED  BY <1>2, <1>3

Renamed(list, id) == [list EXCEPT ![PROTOVER_POS + 1] = 2, ![ID_POS + 1] = id]

LEMMA RenamedList ==
  ASSUME NEW list \in Seq(Byte), Len(list) > 5, NEW id \in Byte
  PROVE  /\ Renamed(list, id) \in Seq(Byte) /\ Len(Renamed(list, id)) = Len(list)
         /\ Renamed(list, id)[3] = 2
         /\ \A k \in (1..Len(list)) \ {3, 6} : Renamed(list, id)[k] = list[k]
<1>1. PICK r : r = [list EXCEPT ![3] = 2, ![6] = id]
  OBVIOUS
<1>2. Renamed(list, id) = r
  BY <1>1 DEF Renamed, PROTOVER_POS, ID_POS
<1>3. 2 \in Byte
  BY DEF Byte
<1>4. /\ r \in Seq(Byte) /\ Len(r) = Len(list) /\ r[3] = 2
      /\ \A k \in (1..Len(list)) \ {3, 6} : r[k] = list[k]
  BY <1>1, <1>3
<1> QED  BY <1>2, <1>4

LEMMA ConvertedFrame ==
  ASSUME NEW p, NEW h, h.frame \in Frames, Faithful(p, h), HasAirFields(p),
         p.protover \in 1..3, p.packetList[3] = p.protover, Converted(p) => TimeDelta(p) \in Int
  PROVE  LET q == HandlePacketCompatibility(p)
         IN  /\ Faithful(q, h)
             /\ q.OK = p.OK /\ q.blePacket = p.blePacket
             /\ supportedProtocolVersion = PROTOVER_V2 /\ p.protover = PROTOVER_V3 =>
                  ParseLittleEndian(Slice(q.packetList, TIMESTAMP_POS, BLEPACKET_POS))
                    = TimeDelta(p) % TimerPeriod
<1>1. PICK T \in 1..4 : T = TimestampSize
  BY PacketAssumption
<1>2. BLEPACKET_POS = 12 + T /\ TIMESTAMP_POS = 12
  BY <1>1 DEF BLEPACKET_POS, TIMESTAMP_POS
<1>3. PICK x : x = p.packetList
  OBVIOUS
<1>4. PICK air : air = AirBytes(h.frame)
  OBVIOUS
<1>5. Sniffed(p) /\ Carries(x, h.frame) /\ Measured(p, h)
  BY <1>3 DEF Faithful
<1>6. PICK q : q = HandlePacketCompatibility(p)
  OBVIOUS
<1>7. HasFields(p)
  BY DEF HasAirFields
<1>8. /\ DOMAIN q = DOMAIN p /\ q.valid = p.valid /\ q.id = p.id /\ q.protover = p.protover
      /\ q.payloadLength = p.payloadLength /\ q.packetCounter = p.packetCounter
      /\ q.timestamp = p.timestamp /\ q.phy = p.phy
      /\ q.OK = p.OK /\ q.blePacket = p.blePacket
      /\ q.packetList = IF supportedProtocolVersion = PROTOVER_V2 /\ p.protover > PROTOVER_V2
                        THEN ConvertPacketListProtoVer2(p) ELSE p.packetList
  BY ONLY <1>6, <1>7, HasAirFields(p), ConvertedFields
<1>9. Sniffed(q)
  BY ONLY <1>5, <1>8 DEF Sniffed
<1>10. Measured(q, h)
  BY ONLY <1>5, <1>8 DEF Measured
<1>11. CASE ~(supportedProtocolVersion = PROTOVER_V2 /\ p.protover > PROTOVER_V2)
  <2>1. q.packetList = x
    BY <1>3, <1>8, <1>11
  <2>2. Faithful(q, h)
    BY ONLY <1>5, <1>9, <1>10, <2>1 DEF Faithful
  <2>3. ~(supportedProtocolVersion = PROTOVER_V2 /\ p.protover = PROTOVER_V3)
    BY <1>11 DEF PROTOVER_V2, PROTOVER_V3
  <2> QED  BY <1>6, <1>8, <2>2, <2>3
<1>12. CASE supportedProtocolVersion = PROTOVER_V2 /\ p.protover > PROTOVER_V2
  <2>1. x \in Seq(Byte) /\ x[3] = 3
    BY <1>3, <1>5, <1>12 DEF Carries, PROTOVER_V2
  <2>2. PICK m \in Nat : m = Len(air) /\ Len(x) = 12 + T + m
    <3>1. Len(x) = 12 + T + Len(air)
      BY <1>2, <1>4, <1>5 DEF Carries
    <3>2. Len(air) \in Nat
      <4>1. Coded(h.frame) \in Nat /\ Len(AirPayload(h.frame)) \in Nat
        BY FrameTyped DEF FrameOK, Byte, Coded
      <4>2. air \in Seq(Byte)
        BY <1>4, AirBytesTyped
      <4> QED  BY <4>2
    <3> QED  BY <3>1, <3>2
  <2>3. PICK r : r = Renamed(x, 6)
    OBVIOUS
  <2>4. /\ r \in Seq(Byte) /\ Len(r) = 12 + T + m /\ r[3] = 2
        /\ \A k \in (1..(12 + T + m)) \ {3, 6} : r[k] = x[k]
    <3>1. x \in Seq(Byte) /\ Len(x) > 5 /\ 6 \in Byte
      <4>1. 6 \in Byte
        BY DEF Byte
      <4> QED  BY <2>1, <2>2, <4>1
    <3>2. /\ Renamed(x, 6) \in Seq(Byte) /\ Len(Renamed(x, 6)) = Len(x) /\ Renamed(x, 6)[3] = 2
          /\ \A k \in (1..Len(x)) \ {3, 6} : Renamed(x, 6)[k] = x[k]
      BY ONLY <3>1, RenamedList
    <3> QED  BY ONLY <2>2, <2>3, <3>2
  <2>5. PICK ts : ts = ToLittleEndian(TimeDelta(p), TimestampSize)
    OBVIOUS
  <2>6. /\ ts \in Seq(Byte) /\ Len(ts) = T
        /\ ParseLittleEndian(ts) = TimeDelta(p) % TimerPeriod
    <3>1. PICK v \in Int : v = TimeDelta(p)
      BY <1>12 DEF Converted
    <3>2. LET list == ToLittleEndian(v, TimestampSize)
          IN  /\ list \in Seq(Byte) /\ Len(list) = TimestampSize
              /\ ParseLittleEndian(list) = v % TimerPeriod
      BY ONLY v \in Int, ToSome
    <3> QED  BY ONLY <1>1, <2>5, <3>1, <3>2
  <2>7. PICK o : o = Overwrite(r, 12, ts)
    OBVIOUS
  <2>8. /\ o \in Seq(Byte) /\ Len(o) = 12 + T + m
        /\ \A k \in 1..12 : o[k] = r[k]
        /\ \A k \in 1..T : o[12 + k] = ts[k]
        /\ \A k \in (12 + T + 1)..(12 + T + m) : o[k] = r[k]
    <3>1. PICK i \in Nat : i = 12
      OBVIOUS
    <3>2. r \in Seq(Byte) /\ ts \in Seq(Byte) /\ i \in Nat /\ i + Len(ts) <= Len(r)
      BY <2>4, <2>6, <3>1
    <3>3. /\ Overwrite(r, i, ts) \in Seq(Byte) /\ Len(Overwrite(r, i, ts)) = Len(r)
          /\ \A k \in 1..i : Overwrite(r, i, ts)[k] = r[k]
          /\ \A k \in 1..Len(ts) : Overwrite(r, i, ts)[i + k] = ts[k]
          /\ \A k \in (i + Len(ts) + 1)..Len(r) : Overwrite(r, i, ts)[k] = r[k]
      BY ONLY <3>2, OverwriteList
    <3>4. i = 12 /\ Len(r) = 12 + T + m /\ Len(ts) = T /\ o = Overwrite(r, i, ts)
      BY <2>4, <2>6, <2>7, <3>1
    <3> QED  BY ONLY <3>3, <3>4
  <2>9. q.packetList = o
    <3>1. ConvertPacketListProtoVer2(p) = o
      <4>1. p.id = 2 \/ p.id = 6
        BY <1>5 DEF Sniffed, AirPackets, EVENT_PACKET_ADV_PDU, EVENT_PACKET_DATA_PDU
      <4> QED  BY <1>2, <1>3, <2>3, <2>5, <2>7, <4>1
               DEF ConvertPacketListProtoVer2, Renamed, EVENT_PACKET_ADV_PDU, EVENT_PACKET_DATA_PDU
    <3> QED  BY <1>8, <1>12, <3>1
  <2>10. o[1] = x[1] /\ o[2] = x[2] /\ o[3] = 2
    <3>1. o[1] = r[1] /\ o[2] = r[2] /\ o[3] = r[3]
      BY ONLY <2>8
    <3>2. 1 \in (1..(12 + T + m)) \ {3, 6} /\ 2 \in (1..(12 + T + m)) \ {3, 6}
      OBVIOUS
    <3> QED  BY ONLY <2>4, <3>1, <3>2
  <2>11. PayloadLength(o) = PayloadLength(x)
    <3>1. x \in Seq(Byte) /\ Len(x) > 2 /\ o \in Seq(Byte) /\ Len(o) > 2
      BY <2>1, <2>2, <2>8
    <3>2. PayloadLength(x) = IF x[3] = 1 THEN x[2] ELSE x[1] + 256 * x[2]
      BY ONLY <3>1, PayloadLengthOf
    <3>3. PayloadLength(o) = IF o[3] = 1 THEN o[2] ELSE o[1] + 256 * o[2]
      BY ONLY <3>1, PayloadLengthOf
    <3> QED  BY <2>1, <2>10, <3>2, <3>3
  <2>12. ValidatePacketList(o)
    <3>1. PayloadLength(x) + HEADER_LENGTH = Len(x)
      BY <1>5 DEF Carries, ValidatePacketList
    <3> QED  BY <2>2, <2>8, <2>11, <3>1 DEF ValidatePacketList
  <2>13. From(o, 12 + T) = From(x, 12 + T)
    <3>1. PICK j \in Nat : j = 12 + T
      OBVIOUS
    <3>2. j \in 0..Len(o) /\ j \in 0..Len(x) /\ o \in Seq(Byte) /\ x \in Seq(Byte)
      BY <2>1, <2>2, <2>8, <3>1
    <3>3. /\ From(o, j) \in Seq(Byte) /\ Len(From(o, j)) = Len(o) - j
          /\ \A k \in 1..(Len(o) - j) : From(o, j)[k] = o[j + k]
      BY ONLY <3>2, FromList
    <3>4. /\ From(x, j) \in Seq(Byte) /\ Len(From(x, j)) = Len(x) - j
          /\ \A k \in 1..(Len(x) - j) : From(x, j)[k] = x[j + k]
      BY ONLY <3>2, FromList
    <3>5. Len(o) - j = m /\ Len(x) - j = m
      BY <2>2, <2>8, <3>1
    <3>6. ASSUME NEW k \in 1..m PROVE From(o, j)[k] = From(x, j)[k]
      <4>1. /\ j + k \in (12 + T + 1)..(12 + T + m)
            /\ j + k \in (1..(12 + T + m)) \ {3, 6}
        BY <3>1
      <4>2. o[j + k] = x[j + k]
        BY <2>4, <2>8, <4>1
      <4> QED  BY <3>3, <3>4, <3>5, <4>2
    <3>7. From(o, j) = From(x, j)
      BY ONLY <3>3, <3>4, <3>5, <3>6, SeqEqual
    <3> QED  BY <3>1, <3>7
  <2>14. Carries(o, h.frame)
    BY <1>2, <1>4, <1>5, <2>2, <2>8, <2>12, <2>13 DEF Carries
  <2>15. Faithful(q, h)
    BY ONLY <1>9, <1>10, <2>9, <2>14 DEF Faithful
  <2>16. Slice(o, 12, 12 + T) = ts
    <3>1. PICK i \in Nat : i = 12
      OBVIOUS
    <3>2. PICK j \in Nat : j = 12 + T
      OBVIOUS
    <3>3. o \in Seq(Byte) /\ i \in Nat /\ j \in Nat /\ i <= j /\ j <= Len(o)
      BY ONLY <2>8, <3>1, <3>2, T \in 1..4, m \in Nat, i \in Nat, j \in Nat
    <3>4. /\ Slice(o, i, j) \in Seq(Byte) /\ Len(Slice(o, i, j)) = j - i
          /\ \A k \in 1..(j - i) : Slice(o, i, j)[k] = o[i + k]
      BY ONLY <3>3, SliceList
    <3>5. PICK sl : sl = Slice(o, i, j)
      OBVIOUS
    <3>6. j - i = T
      BY <3>1, <3>2
    <3>7. sl \in Seq(Byte) /\ Len(sl) = T /\ \A k \in 1..T : sl[k] = ts[k]
      BY ONLY <2>8, <3>1, <3>4, <3>5, <3>6
    <3>8. sl = ts
      BY ONLY <2>6, <3>7, SeqEqual
    <3> QED  BY <3>1, <3>2, <3>5, <3>8
  <2>17. ParseLittleEndian(Slice(q.packetList, TIMESTAMP_POS, BLEPACKET_POS))
           = TimeDelta(p) % TimerPeriod
    BY <1>2, <2>6, <2>9, <2>16
  <2> QED  BY <1>6, <1>8, <2>15, <2>17
<1> QED  BY <1>11, <1>12

LEMMA ConvertedOther ==
  ASSUME NEW p, HasFields(p), p.packetList \in Seq(Byte), Len(p.packetList) > 5,
         p.id \in Byte, p.id \notin AirPackets
  PROVE  HandlePacketCompatibility(p).packetList \in Seq(Byte)
<1>1. PICK x \in Seq(Byte) : x = p.packetList /\ Len(x) > 5
  OBVIOUS
<1>2. PICK id \in Byte : id = p.id
  OBVIOUS
<1>3. Renamed(x, id) \in Seq(Byte)
  <2>1. x \in Seq(Byte) /\ Len(x) > 5 /\ id \in Byte
    BY <1>1
  <2> QED  BY ONLY <2>1, RenamedList
<1>4. ConvertPacketListProtoVer2(p) = Renamed(x, id)
  BY <1>1, <1>2 DEF ConvertPacketListProtoVer2, Renamed, AirPackets
<1>5. HandlePacketCompatibility(p).packetList \in {ConvertPacketListProtoVer2(p), p.packetList}
  BY ConvertedFields
<1> QED  BY <1>1, <1>3, <1>4, <1>5
-----------------------------------------------------------------------------
(* How long the packet before was on the air.                              *)
LEMMA AirTimeOf ==
  ASSUME NEW f \in Frames
  PROVE  LET n == Len(AirPayload(f))
         IN  /\ AirTime(f) = IF f.phy = 0 THEN 8 * (10 + n)
                             ELSE IF f.phy = 1 THEN 4 * (11 + n)
                             ELSE IF f.ci = 0 THEN 376 + 64 * (5 + n) + 24
                             ELSE 376 + 16 * (5 + n) + 6
             /\ AirTime(f) \in Nat
<1>1. PICK y \in 0..2 : y = f.phy
  BY FrameTyped
<1>2. PICK n \in Nat : n = Len(AirPayload(f))
  BY PayloadTyped
<1>3. PICK c \in {0, 1} : c = f.ci
  BY FrameTyped DEF FrameOK, PHY_CODED_CI_S8, PHY_CODED_CI_S2
<1>4. AirTime(f) = IF y = 0 THEN 8 * (10 + n)
                   ELSE IF y = 1 THEN 4 * (11 + n)
                   ELSE IF c = 0 THEN 376 + 64 * (5 + n) + 24
                   ELSE 376 + 16 * (5 + n) + 6
  <2>1. /\ PHY_1M = 0 /\ PHY_2M = 1 /\ PHY_CODED = 2
        /\ PHY_CODED_CI_S8 = 0 /\ PHY_CODED_CI_S2 = 1
    BY DEF PHY_1M, PHY_2M, PHY_CODED, PHY_CODED_CI_S8, PHY_CODED_CI_S2
  <2>2. /\ 80 + 256 + 16 + 24 = 376 /\ 2 + n + 3 = 5 + n
        /\ 1 + 4 + (2 + n + 3) = 10 + n /\ 2 + 4 + (2 + n + 3) = 11 + n
    OBVIOUS
  <2>3. CASE y = 0
    BY <1>1, <1>2, <2>1, <2>2, <2>3 DEF AirTime
  <2>4. CASE y = 1
    BY <1>1, <1>2, <2>1, <2>2, <2>4 DEF AirTime
  <2>5. CASE y = 2 /\ c = 0
    BY <1>1, <1>2, <1>3, <2>1, <2>2, <2>5 DEF AirTime
  <2>6. CASE y = 2 /\ c = 1
    BY <1>1, <1>2, <1>3, <2>1, <2>2, <2>6 DEF AirTime
  <2> QED  BY <2>3, <2>4, <2>5, <2>6
<1>5. AirTime(f) \in Nat
  BY ONLY <1>4, n \in Nat
<1> QED  BY <1>1, <1>2, <1>3, <1>4, <1>5

LEMMA PacketTime ==
  ASSUME NEW h, h.frame \in Frames, Faithful(lastReceivedTimestampPacket, h),
         lastReceivedPacket.payloadLength \in Nat
  PROVE  /\ GetPacketTime(lastReceivedTimestampPacket) \in Int
         /\ lastReceivedPacket = lastReceivedTimestampPacket =>
              GetPacketTime(lastReceivedTimestampPacket) = AirTime(h.frame)
<1>1. PICK T \in 1..4 : T = TimestampSize
  BY PacketAssumption
<1>2. PICK f \in Frames : f = h.frame
  OBVIOUS
<1>3. PICK y \in 0..2 : y = f.phy
  BY FrameTyped
<1>4. PICK n \in Nat : n = Len(AirPayload(f))
  BY PayloadTyped
<1>5. PICK c \in {0, 1} : c = f.ci
  BY FrameTyped DEF FrameOK, PHY_CODED_CI_S8, PHY_CODED_CI_S2
<1>6. PICK air : air = AirBytes(f)
  OBVIOUS
<1>7. PICK d \in {0, 1} : d = Coded(f)
  BY DEF Coded
<1>8. air \in Seq(Byte) /\ Len(air) = 9 + d + n /\ (y = 2 => air[5] = c)
  BY <1>3, <1>4, <1>5, <1>6, <1>7, AirBytesTyped DEF PHY_CODED
<1>9. PICK l \in Nat : l = lastReceivedPacket.payloadLength
  OBVIOUS
<1>10. PICK p : p = lastReceivedTimestampPacket
  OBVIOUS
<1>11. PICK x : x = p.packetList
  OBVIOUS
<1>12. p.phy = y /\ p.payloadLength = 6 + T + (9 + d + n)
  BY <1>1, <1>2, <1>3, <1>6, <1>8, <1>10 DEF Faithful, Measured, BLE_HEADER_LENGTH
<1>13. /\ x \in Seq(Byte) /\ Len(x) = 12 + T + (9 + d + n) /\ From(x, 12 + T) = air
  BY <1>1, <1>2, <1>6, <1>8, <1>10, <1>11 DEF Faithful, Carries, BLEPACKET_POS, TIMESTAMP_POS
<1>14. y = 2 => At(x, BLEPACKET_POS + 4) = c
  <2>1. PICK j \in Nat : j = 12 + T
    OBVIOUS
  <2>2. j \in 0..Len(x) /\ x \in Seq(Byte)
    BY <1>13, <2>1
  <2>3. \A k \in 1..(Len(x) - j) : From(x, j)[k] = x[j + k]
    BY ONLY <2>2, FromList
  <2>4. 5 \in 1..(Len(x) - j)
    BY <1>13, <2>1
  <2>5. air[5] = x[j + 5]
    BY <1>13, <2>1, <2>3, <2>4
  <2>6. BLEPACKET_POS + 4 + 1 = j + 5
    BY <1>1, <2>1 DEF BLEPACKET_POS, TIMESTAMP_POS
  <2> QED  BY <1>8, <2>5, <2>6 DEF At
<1>15. PICK b \in Int : b = l - (6 + T)
  OBVIOUS
<1>16. GetPacketTime(p) = IF y = 0 THEN 8 * (1 + b)
                          ELSE IF y = 1 THEN 4 * (2 + b)
                          ELSE IF c = 0 THEN 376 + 64 * (b - 5) + 24
                          ELSE 376 + 16 * (b - 5) + 6
  <2>1. /\ PHY_1M = 0 /\ PHY_2M = 1 /\ PHY_CODED = 2
        /\ PHY_CODED_CI_S8 = 0 /\ PHY_CODED_CI_S2 = 1 /\ BLE_HEADER_LENGTH = 6 + T
    BY <1>1 DEF PHY_1M, PHY_2M, PHY_CODED, PHY_CODED_CI_S8, PHY_CODED_CI_S2, BLE_HEADER_LENGTH
  <2>2. 80 + 256 + 16 + 24 = 376 /\ b - 4 - 1 = b - 5
    OBVIOUS
  <2>3. CASE y = 0
    BY <1>9, <1>12, <1>15, <2>1, <2>3 DEF GetPacketTime
  <2>4. CASE y = 1
    BY <1>9, <1>12, <1>15, <2>1, <2>4 DEF GetPacketTime
  <2>5. CASE y = 2 /\ c = 0
    BY <1>9, <1>11, <1>12, <1>14, <1>15, <2>1, <2>2, <2>5 DEF GetPacketTime
  <2>6. CASE y = 2 /\ c = 1
    BY <1>9, <1>11, <1>12, <1>14, <1>15, <2>1, <2>2, <2>6 DEF GetPacketTime
  <2> QED  BY <2>3, <2>4, <2>5, <2>6
<1>17. AirTime(f) = IF y = 0 THEN 8 * (10 + n)
                    ELSE IF y = 1 THEN 4 * (11 + n)
                    ELSE IF c = 0 THEN 376 + 64 * (5 + n) + 24
                    ELSE 376 + 16 * (5 + n) + 6
  BY <1>3, <1>4, <1>5, AirTimeOf
<1>18. GetPacketTime(p) \in Int
  BY ONLY <1>16, b \in Int
<1>19. lastReceivedPacket = p => GetPacketTime(p) = AirTime(f)
  <2>1. SUFFICES ASSUME lastReceivedPacket = p PROVE GetPacketTime(p) = AirTime(f)
    OBVIOUS
  <2>2. b = 9 + d + n
    BY <1>9, <1>12, <1>15, <2>1
  <2>3. y = 2 <=> d = 1
    BY <1>3, <1>7 DEF Coded, PHY_CODED
  <2> QED  BY ONLY <1>16, <1>17, <2>2, <2>3, y \in 0..2, d \in {0, 1}, n \in Nat
<1> QED  BY <1>2, <1>10, <1>18, <1>19

(* The time from the packet before is a number, and the right one if no    *)
(* other packet came in between.                                           *)
LEMMA DeltaOf ==
  ASSUME NEW p, p.timestamp \in Int,
         NEW h, lastReceivedTimestampPacket # None =>
                  /\ h.frame \in Frames /\ h.start \in Int
                  /\ Faithful(lastReceivedTimestampPacket, h)
                  /\ lastReceivedPacket.payloadLength \in Nat
  PROVE  /\ TimeDelta(p) \in Int
         /\ (lastReceivedTimestampPacket # None /\ lastReceivedPacket = lastReceivedTimestampPacket) =>
              TimeDelta(p) = p.timestamp - (h.start + AirTime(h.frame))
<1>1. CASE lastReceivedTimestampPacket = None
  BY <1>1 DEF TimeDelta
<1>2. CASE lastReceivedTimestampPacket # None
  <2>1. PICK g : g = GetPacketTime(lastReceivedTimestampPacket)
    OBVIOUS
  <2>2. g \in Int /\ (lastReceivedPacket = lastReceivedTimestampPacket => g = AirTime(h.frame))
    BY <1>2, <2>1, PacketTime
  <2>3. lastReceivedTimestampPacket.timestamp = h.start
    BY <1>2 DEF Faithful, Measured
  <2>4. TimeDelta(p) = p.timestamp - (h.start + g)
    BY <1>2, <2>1, <2>3 DEF TimeDelta
  <2>5. h.start \in Int
    BY <1>2
  <2> QED  BY <2>2, <2>4, <2>5
<1> QED  BY <1>1, <1>2
-----------------------------------------------------------------------------
(* The inductive invariant.  What the reader knows and what was on the air *)
(* agree: packet is the frame of heard, lastReceivedTimestampPacket the    *)
(* last frame that was heard, and the length of lastReceivedPacket, which  *)
(* the time of the packet before is computed from, is that of the same     *)
(* packet if its id is a sniffed one's.  Unless lastReceivedTimestamp-     *)
(* Packet lost a byte: then it has no timestamp, and nothing is computed   *)
(* from it.                                                                *)
Remembered == IF packet.valid /\ packet.id \in AirPackets THEN heard ELSE heardBefore

Heard(h) == h.frame \in Frames /\ h.start \in 0..(TimerPeriod - 1)

VariablesOK == /\ supportedProtocolVersion \in {2, 3}
               /\ protover \in ProtoVers
               /\ clock \in 0..(TimerPeriod - 1)
               /\ counter \in 0..MaxPackets
               /\ adjacent \in BOOLEAN
               /\ damaged \in BOOLEAN
               /\ ended \in BOOLEAN

PacketOK == packet.valid => /\ packet.packetList \in Seq(Byte)
                            /\ packet.payloadLength \in Nat
                            /\ packet.packetCounter \in CounterValues

HeardOK == heard # <<>> => /\ Heard(heard) /\ Faithful(packet, heard)
                           /\ Identified(packet, heard.frame)
                           /\ packet # None
                           /\ lastReceivedPacket = packet
                           /\ lastReceivedTimestampPacket = packet

RememberedOK ==
  /\ lastReceivedTimestampPacket = None => Remembered = <<>>
  /\ Remembered # <<>> => /\ Heard(Remembered)
                          /\ Faithful(lastReceivedTimestampPacket, Remembered)
                          /\ lastReceivedPacket.payloadLength \in Nat
  /\ (lastReceivedTimestampPacket # None /\ Remembered = <<>>) =>
       /\ ~HasTime(lastReceivedTimestampPacket)
       /\ lastReceivedTimestampPacket.protover = PROTOVER_V1
  /\ (lastReceivedPacket # None /\ lastReceivedPacket.id \in AirPackets) =>
       lastReceivedTimestampPacket = lastReceivedPacket

IInv == /\ VariablesOK
        /\ PacketOK
        /\ HeardOK
        /\ RememberedOK
        /\ LossDetected
        /\ DeltaExact

LEMMA InitInvariant == Init => IInv
<1> SUFFICES ASSUME Init PROVE IInv
  OBVIOUS
<1>1. TimerPeriod \in Nat /\ TimerPeriod > 0 /\ TimerPeriod = 256^TimestampSize
  BY Period DEF TimerPeriod
<1>2. VariablesOK
  <2>1. clock \in 0..(TimerPeriod - 1)
    <3>1. clock \in Clocks
      BY DEF Init
    <3>2. \A x \in Clocks : x \in 0..(256^TimestampSize - 1)
      BY ReaderAssumption
    <3>3. \A x \in Clocks : x \in 0..(TimerPeriod - 1)
      BY ONLY <1>1, <3>2
    <3> QED  BY ONLY <3>1, <3>3
  <2>2. counter \in 0..MaxPackets
    BY ReaderAssumption DEF Init
  <2>3. /\ supportedProtocolVersion \in {2, 3} /\ protover \in ProtoVers
        /\ adjacent \in BOOLEAN /\ damaged \in BOOLEAN /\ ended \in BOOLEAN
    BY DEF Init, PROTOVER_V2, PROTOVER_V3
  <2> QED  BY ONLY <2>1, <2>2, <2>3 DEF VariablesOK
<1>3. packet.valid = FALSE
  BY DEF Init, InvalidPacket
<1>4. PacketOK /\ HeardOK /\ LossDetected /\ DeltaExact
  BY <1>3 DEF Init, PacketOK, HeardOK, LossDetected, DeltaExact, Unprocessed
<1>5. RememberedOK
  BY <1>3 DEF Init, RememberedOK, Remembered, None
<1> QED  BY <1>2, <1>4, <1>5 DEF IInv

LEMMA SentTyped ==
  ASSUME VariablesOK, NEW time \in Nat, Sent(time)
  PROVE  /\ SenderOK /\ protover \in ProtoVers /\ clock \in Nat /\ ~ended
         /\ protover' \in ProtoVers /\ protover' = protover
         /\ clock' \in 0..(TimerPeriod - 1) /\ counter' \in 0..MaxPackets
<1>1. SenderOK
  BY ReaderAssumption DEF VariablesOK, SenderOK
<1>2. PICK c \in Nat : c = clock + time + Gap
  BY ReaderAssumption, Period DEF VariablesOK
<1>3. PICK t \in Nat : t = TimerPeriod /\ t > 0
  BY Period
<1>4. c % t \in 0..(t - 1)
  BY ONLY c \in Nat, t \in Nat, <1>3
<1>5. clock' = c % t
  BY SMTT(30), <1>2, <1>3 DEF Sent
<1>6. counter' \in 0..MaxPackets
  BY ReaderAssumption DEF VariablesOK, Sent
<1>7. clock \in Nat
  BY Period DEF VariablesOK
<1> QED  BY <1>1, <1>3, <1>4, <1>5, <1>6, <1>7 DEF VariablesOK, Sent

(* A frame that the reader cannot convert: only a packet before without a  *)
(* timestamp makes it raise.                                               *)
LEMMA RaisedFrame ==
  ASSUME IInv, NEW p, NEW h, Faithful(p, h), p.protover = protover, protover \in 1..3, Raises(p),
         h.frame \in Frames
  PROVE  /\ supportedProtocolVersion = PROTOVER_V2 /\ protover = PROTOVER_V3
         /\ lastReceivedTimestampPacket.protover = PROTOVER_V1
<1>1. RememberedOK /\ Converted(p)
  BY DEF IInv, Raises
<1>2. supportedProtocolVersion = PROTOVER_V2 /\ protover = PROTOVER_V3
  BY <1>1 DEF Converted, PROTOVER_V2, PROTOVER_V3
<1>3. ~(Len(p.packetList) < BLEPACKET_POS)
  <2>1. PICK n \in Nat : n = Len(AirBytes(h.frame))
    <3>1. AirBytes(h.frame) \in Seq(Byte)
      BY AirBytesTyped
    <3> QED  BY <3>1
  <2>2. PICK b \in Nat : b = BLEPACKET_POS
    BY PacketAssumption DEF BLEPACKET_POS, TIMESTAMP_POS
  <2>3. Len(p.packetList) = b + n
    BY <2>1, <2>2 DEF Faithful, Carries
  <2> QED  BY <2>2, <2>3
<1>4. lastReceivedTimestampPacket # None /\ ~HasTime(lastReceivedTimestampPacket)
  BY <1>3 DEF Raises
<1>5. Remembered = <<>>
  BY <1>1, <1>4 DEF RememberedOK, Faithful, Sniffed, HasTime
<1> QED  BY <1>1, <1>2, <1>4, <1>5 DEF RememberedOK

(* A frame that arrives whole.                                             *)
LEMMA FrameStep ==
  ASSUME IInv, NEW f \in Frames, NEW crcOK \in BOOLEAN, GetFrame(f, crcOK)
  PROVE  IInv'
<1>1. VariablesOK /\ Sent(AirTime(f)) /\ AirTime(f) \in Nat
  BY AirTimeOf DEF IInv, GetFrame
<1>2. /\ SenderOK /\ protover \in ProtoVers /\ clock \in Nat /\ ~ended
      /\ protover' \in ProtoVers /\ protover' = protover
      /\ clock' \in 0..(TimerPeriod - 1) /\ counter' \in 0..MaxPackets
  BY ONLY <1>1, SentTyped
<1>3. RememberedOK /\ clock \in 0..(TimerPeriod - 1)
  BY <1>1, <1>2 DEF IInv, VariablesOK
<1>4. PICK h : h = [frame |-> f, start |-> clock]
  OBVIOUS
<1>5. h.frame = f /\ h.start = clock /\ h # <<>> /\ Heard(h)
  <2>1. h.frame = f /\ h.start = clock /\ "frame" \in DOMAIN h
    BY <1>4
  <2> QED  BY <1>3, <2>1, NotEmpty DEF Heard
<1>6. PICK p : p = ReadPacket(FrameList(f, crcOK))
  OBVIOUS
<1>7. /\ Faithful(p, h) /\ p.protover = protover /\ p.packetList[3] = protover /\ HasAirFields(p)
      /\ Identified(p, f)
  BY ONLY <1>2, <1>3, <1>4, <1>6, f \in Frames, crcOK \in BOOLEAN, FrameRead
<1>8. p.timestamp = clock /\ p.valid /\ p.id \in AirPackets
  BY <1>5, <1>7 DEF Faithful, Sniffed, Measured
<1>9. p.protover \in 1..3 /\ p.packetList[3] = p.protover
  BY <1>2, <1>7 DEF SenderOK, PROTOVER_V1, PROTOVER_V2, PROTOVER_V3
<1>10. GetPacket(FrameList(f, crcOK), h, FALSE)
  BY <1>4 DEF GetFrame
<1>11. CASE Raises(p)
  <2>1. /\ ended' = TRUE
        /\ UNCHANGED <<supportedProtocolVersion, packet, lastReceivedPacket,
                       lastReceivedTimestampPacket, heard, heardBefore, adjacent, damaged>>
    BY <1>6, <1>8, <1>10, <1>11 DEF GetPacket, history
  <2>2. /\ supportedProtocolVersion = PROTOVER_V2 /\ protover = PROTOVER_V3
        /\ lastReceivedTimestampPacket.protover = PROTOVER_V1
    BY ONLY IInv, <1>5, <1>7, <1>9, <1>11, f \in Frames, RaisedFrame
  <2>3. VariablesOK'
    BY <1>1, <1>2, <2>1 DEF VariablesOK
  <2>4. PacketOK' /\ HeardOK' /\ LossDetected' /\ DeltaExact'
    BY <1>2, <2>1, <2>2 DEF IInv, PacketOK, HeardOK, LossDetected, Unprocessed, DeltaExact
  <2>5. RememberedOK'
    BY <1>3, <2>1 DEF RememberedOK, Remembered
  <2> QED  BY <2>3, <2>4, <2>5 DEF IInv
<1>12. CASE ~Raises(p)
  <2>1. PICK g : g = Remembered
    OBVIOUS
  <2>2. Converted(p) => (lastReceivedTimestampPacket # None => g # <<>>)
    BY <1>3, <1>8, <1>12, <2>1 DEF Raises, RememberedOK
  <2>3. g # <<>> => /\ lastReceivedTimestampPacket # None
                    /\ g.frame \in Frames /\ g.start \in Int
                    /\ Faithful(lastReceivedTimestampPacket, g)
                    /\ lastReceivedPacket.payloadLength \in Nat
    BY <1>3, <2>1, Period DEF RememberedOK, Heard
  <2>4. Converted(p) =>
          /\ TimeDelta(p) \in Int
          /\ (lastReceivedTimestampPacket # None /\ lastReceivedPacket = lastReceivedTimestampPacket) =>
               TimeDelta(p) = p.timestamp - (g.start + AirTime(g.frame))
    <3>1. p.timestamp \in Int
      BY <1>2, <1>8
    <3> QED  BY ONLY <2>2, <2>3, <3>1, DeltaOf
  <2>5. PICK q : q = HandlePacketCompatibility(p)
    OBVIOUS
  <2>6. /\ Faithful(q, h)
        /\ q.OK = p.OK /\ q.blePacket = p.blePacket
        /\ supportedProtocolVersion = PROTOVER_V2 /\ p.protover = PROTOVER_V3 =>
             ParseLittleEndian(Slice(q.packetList, TIMESTAMP_POS, BLEPACKET_POS))
               = TimeDelta(p) % TimerPeriod
    <3>1. h.frame \in Frames
      BY <1>5
    <3>2. Converted(p) => TimeDelta(p) \in Int
      BY <2>4
    <3> QED  BY ONLY <1>7, <1>9, <2>5, <3>1, <3>2, ConvertedFrame
  <2>7. Sniffed(q) /\ Carries(q.packetList, f) /\ Measured(q, h)
    BY <1>5, <2>6 DEF Faithful
  <2>8. /\ packet' = q /\ lastReceivedPacket' = q /\ lastReceivedTimestampPacket' = q
        /\ supportedProtocolVersion' = supportedProtocolVersion /\ ended' = ended
        /\ heard' = h /\ heardBefore' = g /\ damaged' = FALSE
        /\ adjacent' = (lastReceivedPacket # None /\ lastReceivedPacket.id \in AirPackets)
    <3>1. /\ packet' = q /\ HandlePacketHistory(packet') /\ Record(h, FALSE)
          /\ supportedProtocolVersion' = supportedProtocolVersion /\ ended' = ended
      BY <1>6, <1>8, <1>10, <1>12, <2>5 DEF GetPacket
    <3> QED  BY <2>1, <2>7, <3>1 DEF HandlePacketHistory, Record, Remembered, Sniffed
  <2>9. VariablesOK'
    BY <1>1, <1>2, <2>8 DEF VariablesOK
  <2>10. q # None
    BY <2>7, NotEmpty DEF Sniffed, None
  <2>11. PICK n \in Nat : n = q.payloadLength
    <3>1. Len(AirBytes(f)) \in Nat
      <4>1. AirBytes(f) \in Seq(Byte)
        BY AirBytesTyped
      <4> QED  BY <4>1
    <3>2. BLE_HEADER_LENGTH \in Nat
      BY PacketAssumption DEF BLE_HEADER_LENGTH
    <3>3. q.payloadLength = BLE_HEADER_LENGTH + Len(AirBytes(f))
      BY <1>5, <2>7 DEF Measured
    <3> QED  BY <3>1, <3>2, <3>3
  <2>12. PacketOK'
    BY <2>7, <2>8, <2>11 DEF PacketOK, Sniffed, Carries
  <2>13. HeardOK'
    <3>1. Identified(q, f)
      BY ONLY <1>7, <2>6 DEF Identified
    <3> QED  BY <1>5, <2>6, <2>8, <2>10, <3>1 DEF HeardOK, Identified
  <2>14. RememberedOK'
    <3>1. Remembered' = h
      BY <2>7, <2>8 DEF Remembered, Sniffed
    <3> QED  BY <1>5, <2>6, <2>8, <2>10, <2>11, <3>1 DEF RememberedOK
  <2>15. LossDetected'
    <3>1. ~Unprocessed'
      BY <2>7, <2>8 DEF Unprocessed, Sniffed, HasTime
    <3> QED  BY <1>2, <2>8, <3>1 DEF LossDetected
  <2>16. DeltaExact'
    <3>1. SUFFICES ASSUME heardBefore' # <<>>, adjacent', supportedProtocolVersion' = PROTOVER_V2,
                          protover' = PROTOVER_V3
                   PROVE  ParseLittleEndian(Slice(q.packetList, TIMESTAMP_POS, BLEPACKET_POS))
                            = (h.start - (g.start + AirTime(g.frame))) % TimerPeriod
      BY <2>8 DEF DeltaExact
    <3>2. lastReceivedTimestampPacket # None /\ lastReceivedPacket = lastReceivedTimestampPacket
      BY <1>3, <2>3, <2>8, <3>1 DEF RememberedOK
    <3>3. p.protover = PROTOVER_V3 /\ supportedProtocolVersion = PROTOVER_V2
      BY <1>2, <1>7, <2>8, <3>1
    <3>4. Converted(p)
      BY <3>3 DEF Converted, PROTOVER_V2, PROTOVER_V3
    <3> QED  BY <1>5, <1>8, <2>4, <2>6, <3>2, <3>3, <3>4
  <2> QED  BY <2>9, <2>12, <2>13, <2>14, <2>15, <2>16 DEF IInv
<1> QED  BY <1>11, <1>12

(* Any other packet that arrives whole.                                    *)
LEMMA OtherStep ==
  ASSUME IInv, NEW o \in Others, GetOther(o)
  PROVE  IInv'
<1>1. VariablesOK /\ Sent(0) /\ 0 \in Nat
  BY DEF IInv, GetOther
<1>2. /\ SenderOK /\ ~ended /\ protover' \in ProtoVers
      /\ clock' \in 0..(TimerPeriod - 1) /\ counter' \in 0..MaxPackets
  BY ONLY <1>1, SentTyped
<1>3. RememberedOK
  BY DEF IInv
<1>4. PICK e : e = Envelope(o.id, o.payload)
  OBVIOUS
<1>5. /\ e \in Seq(Byte) /\ Len(e) > 5 /\ e[6] = o.id
      /\ o.id \in Byte \ AirPackets /\ ReadPacket(e) = Common(e)
  BY ONLY o \in Others, <1>2, <1>4, OtherRead
<1>6. PICK p : p = Common(e)
  OBVIOUS
<1>7. /\ p.valid /\ p.id = o.id /\ p.packetList = e /\ p.payloadLength \in Nat
      /\ p.packetCounter \in CounterValues /\ HasFields(p)
  BY ONLY <1>5, <1>6, CommonTyped
<1>8. PICK q : q = HandlePacketCompatibility(p)
  OBVIOUS
<1>9. /\ DOMAIN q = DOMAIN p /\ q.valid = p.valid /\ q.id = p.id
      /\ q.payloadLength = p.payloadLength /\ q.packetCounter = p.packetCounter
  BY ONLY <1>7, <1>8, ConvertedFields
<1>10. q.packetList \in Seq(Byte)
  <2>1. /\ HasFields(p) /\ p.packetList \in Seq(Byte) /\ Len(p.packetList) > 5
        /\ p.id \in Byte /\ p.id \notin AirPackets
    BY <1>5, <1>7
  <2> QED  BY ONLY <1>8, <2>1, ConvertedOther
<1>11. q # None
  <2>1. "valid" \in DOMAIN q
    BY <1>7, <1>9 DEF HasFields, PacketFields
  <2> QED  BY <2>1, NotEmpty DEF None
<1>12. /\ q.valid /\ q.id \notin AirPackets /\ q.payloadLength \in Nat
       /\ q.packetCounter \in CounterValues
  BY <1>5, <1>7, <1>9
<1>13. /\ packet' = q /\ lastReceivedPacket' = q
       /\ lastReceivedTimestampPacket' = lastReceivedTimestampPacket
       /\ supportedProtocolVersion' = supportedProtocolVersion /\ ended' = ended
       /\ heard' = <<>> /\ heardBefore' = Remembered /\ damaged' = FALSE
       /\ adjacent' = (lastReceivedPacket # None /\ lastReceivedPacket.id \in AirPackets)
  <2>1. ~Raises(p)
    BY <1>5, <1>7 DEF Raises
  <2>2. /\ packet' = q /\ HandlePacketHistory(packet') /\ Record(<<>>, FALSE)
        /\ supportedProtocolVersion' = supportedProtocolVersion /\ ended' = ended
    BY <1>4, <1>5, <1>6, <1>7, <1>8, <2>1 DEF GetOther, GetPacket
  <2> QED  BY <1>12, <2>2 DEF HandlePacketHistory, Record, Remembered
<1>14. VariablesOK'
  BY <1>1, <1>2, <1>13 DEF VariablesOK
<1>15. PacketOK'
  BY <1>10, <1>12, <1>13 DEF PacketOK
<1>16. LossDetected'
  BY <1>2, <1>12, <1>13 DEF LossDetected, Unprocessed
<1>17. RememberedOK'
  <2>1. Remembered' = Remembered
    BY <1>12, <1>13 DEF Remembered
  <2> QED  BY <1>3, <1>12, <1>13, <2>1 DEF RememberedOK
<1> QED  BY <1>13, <1>14, <1>15, <1>16, <1>17 DEF IInv, HeardOK, DeltaExact

(* A packet that lost a byte.                                              *)
LEMMA DamagedStep ==
  ASSUME IInv, NEW time \in Nat, Sent(time), NEW id \in Byte, NEW payload \in SmallPayload,
         GetDamaged(Envelope(id, payload))
  PROVE  IInv'
<1>1. VariablesOK /\ Sent(time) /\ time \in Nat
  BY DEF IInv
<1>2. /\ SenderOK /\ ~ended /\ protover' \in ProtoVers /\ protover' = protover
      /\ clock' \in 0..(TimerPeriod - 1) /\ counter' \in 0..MaxPackets
  BY ONLY <1>1, SentTyped
<1>3. RememberedOK
  BY DEF IInv
<1>4. PICK i \in 0..(Len(Envelope(id, payload)) - 1) :
        GetPacket(Without(Envelope(id, payload), i), <<>>, TRUE)
  BY DEF GetDamaged
<1>5. PICK w : w = Without(Envelope(id, payload), i)
  OBVIOUS
<1>6. PICK p : p = ReadPacket(w)
  OBVIOUS
<1>7. CASE ~p.valid
  <2>1. /\ packet' = p /\ lastReceivedPacket' = lastReceivedPacket
        /\ lastReceivedTimestampPacket' = lastReceivedTimestampPacket
        /\ supportedProtocolVersion' = supportedProtocolVersion /\ ended' = ended
        /\ Record(<<>>, TRUE)
    BY <1>4, <1>5, <1>6, <1>7 DEF GetPacket
  <2>2. /\ heard' = <<>> /\ heardBefore' = Remembered /\ damaged' = TRUE
        /\ adjacent' = (lastReceivedPacket # None /\ lastReceivedPacket.id \in AirPackets)
    BY <2>1 DEF Record, Remembered
  <2>3. VariablesOK'
    BY <1>1, <1>2, <2>1, <2>2 DEF VariablesOK
  <2>4. PacketOK' /\ LossDetected'
    BY <1>2, <1>7, <2>1 DEF PacketOK, LossDetected, Unprocessed
  <2>5. RememberedOK'
    <3>1. Remembered' = Remembered
      BY <1>7, <2>1, <2>2 DEF Remembered
    <3> QED  BY <1>3, <2>1, <3>1 DEF RememberedOK
  <2> QED  BY <2>2, <2>3, <2>4, <2>5 DEF IInv, HeardOK, DeltaExact
<1>8. CASE p.valid
  <2>1. /\ w \in Seq(Byte) /\ w[3] = 1 /\ PayloadLength(w) \in {0, protover} /\ Len(w) <= 9
    <3>1. /\ SenderOK /\ id \in Byte /\ payload \in SmallPayload
          /\ i \in 0..(Len(Envelope(id, payload)) - 1)
          /\ ReadPacket(Without(Envelope(id, payload), i)).valid
      BY <1>2, <1>5, <1>6, <1>8
    <3> QED  BY ONLY <1>5, <3>1, DamagedList
  <2>2. Len(w) > 5 /\ p = Common(w)
    BY <1>6, <1>8, <2>1, ReadValid
  <2>3. /\ p.protover = 1 /\ p.packetList = w /\ p.payloadLength = PayloadLength(w)
        /\ p.payloadLength \in Nat /\ p.packetCounter \in CounterValues
        /\ HasFields(p) /\ "timestamp" \notin DOMAIN p
    BY ONLY <2>1, <2>2, CommonTyped
  <2>4. HandlePacketCompatibility(p) = p /\ ~Raises(p)
    BY <2>3 DEF HandlePacketCompatibility, Raises, Converted, PROTOVER_V2
  <2>5. p # None
    BY <2>3, NotEmpty DEF HasFields, PacketFields, None
  <2>6. /\ packet' = p /\ HandlePacketHistory(packet') /\ Record(<<>>, TRUE)
        /\ supportedProtocolVersion' = supportedProtocolVersion /\ ended' = ended
    BY <1>4, <1>5, <1>6, <1>8, <2>4 DEF GetPacket
  <2>7. /\ lastReceivedPacket' = p
        /\ lastReceivedTimestampPacket' = IF p.id \in AirPackets THEN p
                                          ELSE lastReceivedTimestampPacket
        /\ heard' = <<>> /\ heardBefore' = Remembered /\ damaged' = TRUE
        /\ adjacent' = (lastReceivedPacket # None /\ lastReceivedPacket.id \in AirPackets)
    BY <2>6 DEF HandlePacketHistory, Record, Remembered
  <2>8. VariablesOK'
    BY <1>1, <1>2, <2>6, <2>7 DEF VariablesOK
  <2>9. PacketOK'
    BY <2>1, <2>3, <2>6 DEF PacketOK
  <2>10. LossDetected'
    BY <1>2, <2>1, <2>3, <2>6, <2>7 DEF LossDetected, Unprocessed, PROTOVER_V1, PROTOVER_V3
  <2>11. RememberedOK'
    <3>1. CASE p.id \in AirPackets
      <4>1. Remembered' = <<>> /\ lastReceivedTimestampPacket' = p
        BY <1>8, <2>6, <2>7, <3>1 DEF Remembered
      <4> QED  BY <2>3, <2>5, <2>7, <4>1 DEF RememberedOK, HasTime, PROTOVER_V1
    <3>2. CASE p.id \notin AirPackets
      <4>1. Remembered' = Remembered /\ lastReceivedTimestampPacket' = lastReceivedTimestampPacket
        BY <2>6, <2>7, <3>2 DEF Remembered
      <4> QED  BY <1>3, <2>3, <2>5, <2>7, <3>2, <4>1 DEF RememberedOK
    <3> QED  BY <3>1, <3>2
  <2> QED  BY <2>7, <2>8, <2>9, <2>10, <2>11 DEF IInv, HeardOK, DeltaExact
<1> QED  BY <1>7, <1>8

(* A packet that is lost.                                                  *)
LEMMA LoseStep ==
  ASSUME IInv, NEW f \in Frames, Lose(f)
  PROVE  IInv'
<1>1. VariablesOK /\ Sent(AirTime(f)) /\ AirTime(f) \in Nat
  BY AirTimeOf DEF IInv, Lose
<1>2. /\ SenderOK /\ ~ended /\ protover' \in ProtoVers /\ protover' = protover
      /\ clock' \in 0..(TimerPeriod - 1) /\ counter' \in 0..MaxPackets
  BY ONLY <1>1, SentTyped
<1>3. UNCHANGED <<supportedProtocolVersion, lastReceivedPacket, lastReceivedTimestampPacket,
                  packet, ended, heard, heardBefore, adjacent, damaged>>
  BY DEF Lose, reader, history
<1>4. VariablesOK'
  BY <1>1, <1>2, <1>3 DEF VariablesOK
<1>5. PacketOK' /\ HeardOK' /\ LossDetected' /\ DeltaExact'
  BY <1>2, <1>3 DEF IInv, PacketOK, HeardOK, LossDetected, DeltaExact, Unprocessed
<1>6. RememberedOK'
  <2>1. Remembered' = Remembered
    BY <1>3 DEF Remembered
  <2> QED  BY <1>2, <1>3, <2>1 DEF IInv, RememberedOK
<1> QED  BY <1>4, <1>5, <1>6 DEF IInv

LEMMA NextInvariant == IInv /\ [Next]_vars => IInv'
<1> SUFFICES ASSUME IInv, [Next]_vars PROVE IInv'
  OBVIOUS
<1>1. ASSUME NEW f \in Frames, NEW crcOK \in BOOLEAN, GetFrame(f, crcOK) PROVE IInv'
  BY ONLY <1>1, IInv, FrameStep
<1>2. ASSUME NEW f \in Frames, GetDamagedFrame(f) PROVE IInv'
  <2>1. Sent(AirTime(f)) /\ AirTime(f) \in Nat /\ GetDamaged(FrameList(f, TRUE))
    BY <1>2, AirTimeOf DEF GetDamagedFrame
  <2>2. SenderOK /\ protover \in ProtoVers /\ clock \in Nat
    BY ONLY <2>1, VariablesOK, IInv, SentTyped DEF IInv
  <2>3. /\ PacketId(f) \in Byte /\ FramePayload(f, TRUE) \in SmallPayload
        /\ FrameList(f, TRUE) = Envelope(PacketId(f), FramePayload(f, TRUE))
    BY <2>2, FrameSent
  <2>4. GetDamaged(Envelope(PacketId(f), FramePayload(f, TRUE)))
    BY ONLY <2>1, <2>3
  <2> QED  BY ONLY IInv, <2>1, <2>3, <2>4, DamagedStep
<1>3. ASSUME NEW f \in Frames, Lose(f) PROVE IInv'
  BY ONLY <1>3, IInv, LoseStep
<1>4. ASSUME NEW o \in Others, GetOther(o) PROVE IInv'
  BY ONLY <1>4, IInv, OtherStep
<1>5. ASSUME NEW o \in Others, GetDamagedOther(o) PROVE IInv'
  <2>1. Sent(0) /\ 0 \in Nat /\ GetDamaged(Envelope(o.id, o.payload))
    BY <1>5 DEF GetDamagedOther
  <2>2. o.id \in Byte /\ o.payload \in SmallPayload
    <3>1. \A b \in Byte : b <= 514
      BY DEF Byte
    <3> QED  BY PacketsAssumption, <3>1 DEF OtherOK, SmallPayload
  <2> QED  BY ONLY IInv, <2>1, <2>2, DamagedStep
<1>6. CASE UNCHANGED vars
  BY <1>6 DEF vars, IInv, VariablesOK, PacketOK, HeardOK, RememberedOK, Remembered,
              LossDetected, DeltaExact, Unprocessed
<1> QED  BY <1>1, <1>2, <1>3, <1>4, <1>5, <1>6 DEF Next

LEMMA Invariance == Spec => []IInv
  BY InitInvariant, NextInvariant, PTL DEF Spec

-----------------------------------------------------------------------------
(* Every packet that getPacket calls valid has a list of bytes, a length   *)
(* and a counter, and the last sniffed one that the reader remembers has a *)
(* timestamp of the dongle's clock, or it is of version 1 and has none: a  *)
(* list that lost a byte may read as such a packet.                        *)
THEOREM PacketReaderTypes == Spec => []TypeOK
<1>1. IInv => TypeOK
  <2> SUFFICES ASSUME IInv PROVE TypeOK
    OBVIOUS
  <2>1. PacketOK
    BY DEF IInv
  <2>2. /\ clock \in 0..(TimerPeriod - 1) /\ counter \in 0..MaxPackets
        /\ adjacent \in BOOLEAN /\ damaged \in BOOLEAN /\ ended \in BOOLEAN
    BY DEF IInv, VariablesOK
  <2>3. ASSUME lastReceivedTimestampPacket # None
        PROVE  IF HasTime(lastReceivedTimestampPacket)
               THEN lastReceivedTimestampPacket.timestamp \in 0..(TimerPeriod - 1)
               ELSE lastReceivedTimestampPacket.protover = PROTOVER_V1
    BY <2>3 DEF IInv, RememberedOK, Heard, Faithful, Measured, Sniffed, HasTime
  <2> QED  BY <2>1, <2>2, <2>3 DEF PacketOK, TypeOK
<1> QED  BY <1>1, Invariance, PTL

(* A packet that was sniffed and arrived whole is returned with the bytes  *)
(* that were on the air and a length that fits, by readPayload and by the  *)
(* conversion for a Wireshark of version 2 alike: whatever was sent before *)
(* or got lost, for frames of any length, PHY and version, and timestamps  *)
(* of one to four bytes.                                                   *)
THEOREM PacketAirBytesExact == Spec => []AirBytesExact
<1>1. IInv => AirBytesExact
  BY DEF IInv, HeardOK, Faithful, Sniffed, Carries, AirBytesExact
<1> QED  BY <1>1, Invariance, PTL

(* No packet that lost a byte on the line passes validatePacketList, but   *)
(* for the one case that LossDetected names, whatever payload is sent with *)
(* whatever id and counter; _processBLEPacket never asks a packet for a    *)
(* time it does not have; and getPacket raises only in a conversion that   *)
(* follows such a list, remembered as a sniffed packet of version 1.       *)
THEOREM PacketLossDetected == Spec => []LossDetected
<1>1. IInv => LossDetected
  BY DEF IInv
<1> QED  BY <1>1, Invariance, PTL

(* The time that convertPacketListProtoVer2 writes into a packet is the    *)
(* one from the end of the packet before to the start of this one, modulo  *)
(* the period of the dongle's clock, if no packet without a timestamp came *)
(* in between: for frames of any length on any PHY.                        *)
THEOREM PacketDeltaExact == Spec => []DeltaExact
<1>1. IInv => DeltaExact
  BY DEF IInv
<1> QED  BY <1>1, Invariance, PTL

(* The device listed for a frame is the one that sent it, under the last   *)
(* name it gave: readPayload, BlePacket, extractAddresses and extractName  *)
(* take legacy and extended advertisements of any addresses, any number of *)
(* structures of any length and any CRC apart rightly, in every version of *)
(* the protocol and on every PHY, whatever was sent before or got lost.    *)
THEOREM PacketDeviceExact == Spec => []DeviceExact
<1>1. IInv => DeviceExact
  <2> SUFFICES ASSUME IInv, heard # <<>>, packet.OK, heard.frame.advType \in {0, 1, 2, 4, 6, 7}
               PROVE  Device(packet.blePacket, heard.frame)
    BY DEF DeviceExact, Device
  <2>1. PICK f \in Frames : f = heard.frame
    BY DEF IInv, HeardOK, Heard
  <2>2. f.advType \in {0, 1, 2, 4, 6, 7}
    BY <2>1
  <2>3. IsAdv(f)
    BY <2>2 DEF IsAdv
  <2>4. packet.blePacket = BlePacket(PACKET_TYPE_ADVERTISING, AirBytes(f), f.phy)
    BY <2>1, <2>3 DEF IInv, HeardOK, Identified
  <2>5. Device(BlePacket(PACKET_TYPE_ADVERTISING, AirBytes(f), f.phy), f)
    BY ONLY <2>2, f \in Frames, DeviceOf
  <2> QED  BY ONLY <2>1, <2>4, <2>5
<1> QED  BY <1>1, Invariance, PTL
=============================================================================
