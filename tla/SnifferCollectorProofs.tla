----------------------- MODULE SnifferCollectorProofs -----------------------
(***************************************************************************)
(* Proofs about SnifferCollector for any buffer, counter and timer, any    *)
(* number of packets and any losses.                                       *)
(***************************************************************************)
EXTENDS SnifferCollector, SequenceTheorems, WellFoundedInduction, TLAPS

(* The packets of which anything is kept.                                  *)
Received == arrived \cup {stamped} \cup (IF thread = "getPacket" THEN {} ELSE {packet})

(* Packets on the line are in order and later than any received.           *)
LineInv ==
  /\ \A i \in DOMAIN line : line[i].n <= sent
  /\ \A i, j \in DOMAIN line : i < j => line[i].n < line[j].n
  /\ \A m \in Received : m <= sent /\ \A i \in DOMAIN line : m < line[i].n

(* The packet being worked on is later than those buffered.                *)
PacketInv ==
  /\ thread # "getPacket" => packet \in Nat /\ \A m \in arrived : m < packet
  /\ thread = "find" => connectEventPacketCounterValue = PacketCounter(packet)

(* The reference of the packet times.                                      *)
ReferenceInv ==
  /\ last_time # None => last_timestamp = Timestamp(stamped)
  /\ gapless => last_time # None /\ last_time = stamped + offset

(* While the user's thread holds the lock the buffer is as it was sliced.  *)
FetchInv ==
  /\ FetchedOnceInOrder
  /\ lock => returnList = SliceTo(buffer, number)

(* The last event on the line says whether the device is in a connection,  *)
(* unless it was lost; without one the host knows.                         *)
LastEvent(i) == /\ line[i].id \in Events
                /\ \A j \in DOMAIN line : i < j => line[j].id \notin Events

EventInv ==
  ~eventLost =>
    /\ \A i \in DOMAIN line : LastEvent(i) => linked = (line[i].id = "EVENT_CONNECT")
    /\ (\A i \in DOMAIN line : line[i].id \notin Events) => inConnection = linked

(* The counters of the connection events.                                  *)
BooksInv ==
  /\ opened # None => connectEventPacketCounterValue = PacketCounter(opened)
  /\ inConnection => opened # None
  /\ packetsInLastConnection # None /\ ~inConnection =>
       /\ opened # None /\ closed # None
       /\ packetsInLastConnection = PacketCounter(closed) - PacketCounter(opened)

IInv == TypeOK /\ LineInv /\ PacketInv /\ ReferenceInv /\ FetchInv /\ EventInv /\ BooksInv
-----------------------------------------------------------------------------
(* The elements of two sequences one after the other.                      *)
LEMMA Concatenated ==
  ASSUME NEW S, NEW a \in Seq(S), NEW b \in Seq(S), NEW r, r = a \o b
  PROVE  /\ r \in Seq(S) /\ Len(r) = Len(a) + Len(b)
         /\ DOMAIN r = 1..(Len(a) + Len(b))
         /\ \A k \in 1..Len(a) : r[k] = a[k]
         /\ \A k \in 1..Len(b) : r[Len(a) + k] = b[k]
  <1>1. Len(a) \in Nat /\ Len(b) \in Nat
    BY LenProperties
  <1>2. r \in Seq(S) /\ Len(r) = Len(a) + Len(b)
    BY ConcatProperties
  <1>3. \A k \in 1..(Len(a) + Len(b)) : r[k] = IF k <= Len(a) THEN a[k] ELSE b[k - Len(a)]
    BY ConcatProperties
  <1>4. DOMAIN r = 1..(Len(a) + Len(b))
    BY <1>2, LenProperties
  <1>5. ASSUME NEW k \in 1..Len(a) PROVE r[k] = a[k]
    BY <1>1, <1>3
  <1>6. ASSUME NEW k \in 1..Len(b) PROVE r[Len(a) + k] = b[k]
    <2>1. /\ Len(a) + k \in 1..(Len(a) + Len(b))
          /\ ~(Len(a) + k <= Len(a))
          /\ (Len(a) + k) - Len(a) = k
      BY <1>1
    <2> QED BY <1>3, <2>1
  <1> QED BY <1>2, <1>4, <1>5, <1>6

(* The elements of a part of a sequence.                                   *)
LEMMA Part ==
  ASSUME NEW S, NEW s \in Seq(S), NEW m \in Nat, NEW n \in Nat,
         m <= n, n <= Len(s), NEW r, r = SubSeq(s, m + 1, n)
  PROVE  /\ r \in Seq(S) /\ Len(r) = n - m
         /\ DOMAIN r = 1..(n - m)
         /\ \A k \in 1..(n - m) : m + k \in DOMAIN s /\ r[k] = s[m + k]
  <1>1. Len(s) \in Nat /\ DOMAIN s = 1..Len(s)
    BY LenProperties
  <1>2. \A k \in (m + 1)..n : s[k] \in S
    <2> SUFFICES ASSUME NEW k \in (m + 1)..n PROVE s[k] \in S
      OBVIOUS
    <2>1. k \in 1..Len(s)
      BY <1>1
    <2> QED BY <2>1, ElementOfSeq
  <1>3. m + 1 \in Int /\ n \in Int
    OBVIOUS
  <1>4. /\ r \in Seq(S)
        /\ Len(r) = IF m + 1 <= n THEN n - (m + 1) + 1 ELSE 0
        /\ \A k \in 1..(n - (m + 1) + 1) : r[k] = s[(m + 1) + k - 1]
    BY <1>2, <1>3, SubSeqProperties
  <1>5. Len(r) = n - m
    BY <1>4
  <1>6. DOMAIN r = 1..(n - m)
    BY <1>4, <1>5, LenProperties
  <1>7. ASSUME NEW k \in 1..(n - m) PROVE m + k \in DOMAIN s /\ r[k] = s[m + k]
    <2>1. k \in 1..(n - (m + 1) + 1) /\ (m + 1) + k - 1 = m + k /\ m + k \in 1..Len(s)
      BY <1>1
    <2> QED BY <1>1, <1>4, <2>1
  <1> QED BY <1>4, <1>5, <1>6, <1>7

(* The elements of a sequence but the first.                               *)
LEMMA Rest ==
  ASSUME NEW S, NEW s \in Seq(S), s # <<>>, NEW r, r = Tail(s)
  PROVE  /\ r \in Seq(S)
         /\ DOMAIN r = 1..(Len(s) - 1)
         /\ \A k \in DOMAIN r : k + 1 \in DOMAIN s /\ r[k] = s[k + 1]
         /\ 1 \in DOMAIN s /\ Head(s) = s[1]
  <1>1. Len(s) \in Nat /\ DOMAIN s = 1..Len(s) /\ Len(s) # 0
    BY LenProperties, EmptySeq
  <1>2. /\ r \in Seq(S) /\ Len(r) = Len(s) - 1
        /\ \A k \in 1..Len(r) : r[k] = s[k + 1]
    BY HeadTailProperties
  <1>3. DOMAIN r = 1..Len(r)
    BY <1>2, LenProperties
  <1>4. \A k \in 1..Len(r) : k + 1 \in 1..Len(s)
    BY <1>1, <1>2
  <1>5. 1 \in 1..Len(s)
    BY <1>1
  <1> QED BY <1>1, <1>2, <1>3, <1>4, <1>5

(* What a sequence without one of its elements is.                         *)
Without(s, i) == SubSeq(s, 1, i - 1) \o SubSeq(s, i + 1, Len(s))

LEMMA RemoveAt ==
  ASSUME NEW S, NEW s \in Seq(S), NEW i \in DOMAIN s, NEW r,
         r = Without(s, i)
  PROVE  /\ r \in Seq(S)
         /\ DOMAIN r = 1..(Len(s) - 1)
         /\ \A k \in DOMAIN r : /\ k < i => k \in DOMAIN s /\ r[k] = s[k]
                                /\ k >= i => k + 1 \in DOMAIN s /\ r[k] = s[k + 1]
  <1> DEFINE a == SubSeq(s, 1, i - 1)
             b == SubSeq(s, i + 1, Len(s))
  <1>1. i \in 1..Len(s) /\ Len(s) \in Nat /\ DOMAIN s = 1..Len(s)
    BY LenProperties
  <1>a. PICK h \in Nat : h = i - 1
    BY <1>1
  <1>2. /\ a \in Seq(S) /\ Len(a) = h
        /\ \A k \in 1..h : a[k] = s[k]
    <2>1. 0 \in Nat /\ h <= Len(s) /\ 0 <= h /\ a = SubSeq(s, 0 + 1, h)
      BY <1>1, <1>a
    <2> HIDE DEF a
    <2>2. /\ a \in Seq(S) /\ Len(a) = h - 0
          /\ \A k \in 1..(h - 0) : a[k] = s[0 + k]
      BY <2>1, Part
    <2> QED BY <2>2
  <1>3. /\ b \in Seq(S) /\ Len(b) = Len(s) - i
        /\ \A k \in 1..(Len(s) - i) : b[k] = s[i + k]
    BY <1>1, Part
  <1> HIDE DEF a, b
  <1>4. r = a \o b
    BY DEF a, b, Without
  <1>5. /\ r \in Seq(S) /\ DOMAIN r = 1..(Len(a) + Len(b))
        /\ \A k \in 1..Len(a) : r[k] = a[k]
        /\ \A k \in 1..Len(b) : r[Len(a) + k] = b[k]
    <2>1. a \in Seq(S) /\ b \in Seq(S)
      BY <1>2, <1>3
    <2> QED BY ONLY <1>4, <2>1, Concatenated
  <1>6. DOMAIN r = 1..(Len(s) - 1)
    BY <1>1, <1>a, <1>2, <1>3, <1>5
  <1>7. ASSUME NEW k \in DOMAIN r, k < i PROVE k \in DOMAIN s /\ r[k] = s[k]
    <2>1. k \in 1..h /\ k \in 1..Len(s)
      BY <1>1, <1>a, <1>6, <1>7
    <2> QED BY <1>1, <1>2, <1>5, <2>1
  <1>8. ASSUME NEW k \in DOMAIN r, k >= i PROVE k + 1 \in DOMAIN s /\ r[k] = s[k + 1]
    <2>1. PICK l \in 1..(Len(s) - i) : k = h + l /\ i + l = k + 1 /\ k + 1 \in 1..Len(s)
      <3>1. PICK l \in Int : l = k - h
        BY <1>a, <1>6
      <3>2. i \in Nat /\ k \in Nat /\ Len(s) \in Nat /\ 1 <= i /\ k <= Len(s) - 1 /\ h = i - 1
        BY <1>1, <1>a, <1>6
      <3>3. l \in 1..(Len(s) - i) /\ k = h + l /\ i + l = k + 1 /\ k + 1 \in 1..Len(s)
        BY <1>a, <1>8, <3>1, <3>2
      <3> QED BY <3>3
    <2> QED BY <1>1, <1>2, <1>3, <1>5, <2>1
  <1> QED BY <1>5, <1>6, <1>7, <1>8

(* Two parts of an increasing sequence.                                    *)
LEMMA SplitParts ==
  ASSUME NEW s \in Seq(Nat), NEW e \in 0..Len(s)
  PROVE  /\ SubSeq(s, 1, e) \in Seq(Nat) /\ SubSeq(s, e + 1, Len(s)) \in Seq(Nat)
         /\ Increasing(s) => \E A :
              /\ A = Elements(SubSeq(s, 1, e))
              /\ Elements(s) = A \cup Elements(SubSeq(s, e + 1, Len(s)))
              /\ Increasing(SubSeq(s, e + 1, Len(s)))
              /\ \A m \in A, n \in Elements(SubSeq(s, e + 1, Len(s))) : m < n
  <1>a. PICK a : a = SubSeq(s, 1, e)
    OBVIOUS
  <1>b. PICK b : b = SubSeq(s, e + 1, Len(s))
    OBVIOUS
  <1>1. Len(s) \in Nat /\ e \in Nat /\ e <= Len(s) /\ DOMAIN s = 1..Len(s)
    BY LenProperties
  <1>2. /\ a \in Seq(Nat) /\ DOMAIN a = 1..e
        /\ \A k \in 1..e : a[k] = s[k]
    <2>1. /\ a \in Seq(Nat) /\ DOMAIN a = 1..(e - 0)
          /\ \A k \in 1..(e - 0) : a[k] = s[0 + k]
      <3>1. 0 \in Nat /\ 0 <= e /\ a = SubSeq(s, 0 + 1, e)
        BY <1>1, <1>a
      <3> QED BY <1>1, <3>1, Part
    <2> QED BY <1>1, <2>1
  <1>3. /\ b \in Seq(Nat) /\ DOMAIN b = 1..(Len(s) - e)
        /\ \A k \in 1..(Len(s) - e) : e + k \in DOMAIN s /\ b[k] = s[e + k]
    BY <1>1, <1>b, Part
  <1>4. Elements(s) \subseteq Elements(a) \cup Elements(b)
    <2> SUFFICES ASSUME NEW i \in 1..Len(s) PROVE s[i] \in Elements(a) \cup Elements(b)
      BY <1>1 DEF Elements
    <2>1. CASE i <= e
      <3>1. i \in DOMAIN a /\ a[i] = s[i]
        BY <1>1, <1>2, <2>1
      <3> QED BY <3>1 DEF Elements
    <2>2. CASE ~(i <= e)
      <3>1. PICK k \in 1..(Len(s) - e) : e + k = i
        <4>1. i - e \in 1..(Len(s) - e) /\ e + (i - e) = i
          BY <1>1, <2>2
        <4> QED BY <4>1
      <3>2. k \in DOMAIN b /\ b[k] = s[i]
        BY <1>3, <3>1
      <3> QED BY <3>2 DEF Elements
    <2> QED BY <2>1, <2>2
  <1>5. Elements(a) \subseteq Elements(s)
    <2> SUFFICES ASSUME NEW k \in 1..e PROVE a[k] \in Elements(s)
      BY <1>2 DEF Elements
    <2>1. k \in DOMAIN s /\ a[k] = s[k]
      BY <1>1, <1>2
    <2> QED BY <2>1 DEF Elements
  <1>6. Elements(b) \subseteq Elements(s)
    BY <1>3 DEF Elements
  <1>7. ASSUME Increasing(s)
        PROVE  /\ Increasing(b)
               /\ \A m \in Elements(a), n \in Elements(b) : m < n
    <2>1. Increasing(b)
      <3> SUFFICES ASSUME NEW i \in DOMAIN b, NEW j \in DOMAIN b, i < j
                   PROVE  b[i] < b[j]
        BY DEF Increasing
      <3>1. /\ e + i \in DOMAIN s /\ e + j \in DOMAIN s
            /\ b[i] = s[e + i] /\ b[j] = s[e + j]
        BY <1>3
      <3>2. e + i < e + j
        BY <1>1, <1>3
      <3> QED BY <1>7, <3>1, <3>2 DEF Increasing
    <2>2. ASSUME NEW i \in DOMAIN a, NEW j \in DOMAIN b PROVE a[i] < b[j]
      <3>1. i \in DOMAIN s /\ e + j \in DOMAIN s /\ i < e + j
        BY <1>1, <1>2, <1>3
      <3>2. a[i] = s[i] /\ b[j] = s[e + j]
        BY <1>2, <1>3
      <3> QED BY <1>7, <3>1, <3>2 DEF Increasing
    <2> QED BY <2>1, <2>2 DEF Elements
  <1>8. PICK A : A = Elements(a)
    OBVIOUS
  <1>9. ASSUME Increasing(s)
        PROVE  /\ Elements(s) = A \cup Elements(b)
               /\ Increasing(b)
               /\ \A m \in A, n \in Elements(b) : m < n
    BY <1>4, <1>5, <1>6, <1>7, <1>8, <1>9
  <1> QED BY <1>2, <1>3, <1>8, <1>9, <1>a, <1>b

(* A later packet at the end.                                              *)
LEMMA AppendLater ==
  ASSUME NEW s \in Seq(Nat), NEW x \in Nat
  PROVE  /\ Append(s, x) \in Seq(Nat)
         /\ Elements(Append(s, x)) = Elements(s) \cup {x}
         /\ Increasing(s) /\ (\A m \in Elements(s) : m < x) => Increasing(Append(s, x))
  <1> DEFINE t == Append(s, x)
  <1>1. /\ t \in Seq(Nat) /\ DOMAIN t = 1..(Len(s) + 1) /\ Len(s) \in Nat
        /\ DOMAIN s = 1..Len(s) /\ t[Len(s) + 1] = x /\ \A k \in 1..Len(s) : t[k] = s[k]
    <2>1. /\ t \in Seq(Nat) /\ Len(t) = Len(s) + 1 /\ t[Len(s) + 1] = x
          /\ \A k \in 1..Len(s) : t[k] = s[k]
      BY AppendProperties
    <2> HIDE DEF t
    <2> QED BY <2>1, LenProperties
  <1> HIDE DEF t
  <1>2. Elements(t) = Elements(s) \cup {x}
    <2>1. ASSUME NEW k \in DOMAIN t PROVE t[k] \in Elements(s) \cup {x}
      BY <1>1 DEF Elements
    <2>2. ASSUME NEW k \in DOMAIN s PROVE s[k] \in Elements(t)
      <3>1. k \in 1..Len(s) /\ k \in DOMAIN t
        BY <1>1
      <3> QED BY <1>1, <3>1 DEF Elements
    <2>3. x \in Elements(t)
      <3>1. Len(s) + 1 \in DOMAIN t
        BY <1>1
      <3> QED BY <1>1, <3>1 DEF Elements
    <2> QED BY <2>1, <2>2, <2>3 DEF Elements
  <1>3. ASSUME Increasing(s), \A m \in Elements(s) : m < x PROVE Increasing(t)
    <2> SUFFICES ASSUME NEW i \in DOMAIN t, NEW j \in DOMAIN t, i < j PROVE t[i] < t[j]
      BY DEF Increasing
    <2>1. i \in 1..Len(s) /\ i \in DOMAIN s /\ t[i] = s[i]
      BY <1>1
    <2>a. s[i] \in Elements(s)
      BY <2>1 DEF Elements
    <2>2. CASE j = Len(s) + 1
      BY <1>1, <1>3, <2>1, <2>2, <2>a
    <2>3. CASE j # Len(s) + 1
      <3>1. j \in DOMAIN s /\ t[j] = s[j]
        BY <1>1, <2>3
      <3> QED BY <1>3, <2>1, <3>1 DEF Increasing
    <2> QED BY <2>2, <2>3
  <1> QED BY <1>1, <1>2, <1>3 DEF t
-----------------------------------------------------------------------------
(* The types of the packets on the line.                                   *)
LEMMA LineType ==
  ASSUME TypeOK
  PROVE  /\ Len(line) \in Nat /\ DOMAIN line = 1..Len(line)
         /\ \A k \in DOMAIN line : line[k].n \in Nat /\ line[k].id \in IDs
  <1>1. line \in Seq([n : Nat, id : IDs])
    BY DEF TypeOK
  <1>2. Len(line) \in Nat /\ DOMAIN line = 1..Len(line)
    BY <1>1, LenProperties
  <1>3. \A k \in DOMAIN line : line[k] \in [n : Nat, id : IDs]
    BY <1>1, <1>2, ElementOfSeq
  <1> QED BY <1>2, <1>3

(* The initial states satisfy the invariant.                               *)
LEMMA InitIInv == Init => IInv
  <1> SUFFICES ASSUME Init PROVE IInv
    OBVIOUS
  <1>1. 0 \in 0..(TimerPeriod - 1)
    BY CollectorAssumption
  <1>2. TypeOK
    <2>1. line \in Seq([n : Nat, id : IDs]) /\ buffer \in Seq(Nat) /\ returnList \in Seq(Nat)
      BY EmptySeq DEF Init
    <2>2. /\ linked \in BOOLEAN /\ lock \in BOOLEAN /\ inConnection \in BOOLEAN
          /\ eventLost \in BOOLEAN /\ gapless \in BOOLEAN
      BY DEF Init
    <2>3. /\ packet \in Nat \cup {None} /\ connectEventPacketCounterValue = None
          /\ packetsInLastConnection = None /\ currentConnectRequest = None
          /\ opened = None /\ closed = None /\ last_time = None
          /\ sent \in Nat /\ thread \in {"getPacket", "append", "find"}
          /\ number \in Numbers \cup {0} /\ stamped \in Nat /\ offset \in Nat
      BY DEF Init
    <2>4. arrived \subseteq Nat /\ handed \subseteq Nat /\ cut \subseteq Nat
      BY DEF Init
    <2>5. last_timestamp \in 0..(TimerPeriod - 1)
      BY <1>1 DEF Init
    <2> QED BY <2>1, <2>2, <2>3, <2>4, <2>5 DEF TypeOK
  <1>3. DOMAIN line = {} /\ DOMAIN buffer = {}
    BY DEF Init
  <1>4. LineInv
    BY <1>3 DEF Init, LineInv, Received
  <1>5. PacketInv /\ ReferenceInv /\ BooksInv
    BY DEF Init, PacketInv, ReferenceInv, BooksInv
  <1>6. EventInv
    BY <1>3 DEF Init, EventInv
  <1>7. Elements(buffer) = {}
    BY <1>3 DEF Elements
  <1>8. FetchInv
    BY <1>3, <1>7 DEF Init, FetchInv, FetchedOnceInOrder, Increasing
  <1> QED BY <1>2, <1>4, <1>5, <1>6, <1>8 DEF IInv

(* Packets the dongle sends go to the end of the line.                     *)
LEMMA Transmitted ==
  ASSUME TypeOK, NEW ids \in Seq(IDs), Transmit(ids)
  PROVE  /\ line' \in Seq([n : Nat, id : IDs])
         /\ sent' = sent + Len(ids) /\ sent' \in Nat
         /\ DOMAIN line' = 1..(Len(line) + Len(ids))
         /\ \A k \in DOMAIN line : line'[k] = line[k]
         /\ \A k \in DOMAIN line' : k \notin DOMAIN line =>
              /\ k - Len(line) \in DOMAIN ids
              /\ line'[k].n = sent + (k - Len(line))
              /\ line'[k].id = ids[k - Len(line)]
  <1> DEFINE new == [i \in 1..Len(ids) |-> [n |-> sent + i, id |-> ids[i]]]
  <1>1. Len(ids) \in Nat /\ Len(line) \in Nat /\ sent \in Nat
        /\ DOMAIN line = 1..Len(line) /\ line \in Seq([n : Nat, id : IDs])
        /\ DOMAIN ids = 1..Len(ids)
    BY LenProperties, LineType DEF TypeOK
  <1>2. \A i \in 1..Len(ids) : [n |-> sent + i, id |-> ids[i]] \in [n : Nat, id : IDs]
    <2> SUFFICES ASSUME NEW i \in 1..Len(ids)
                 PROVE  [n |-> sent + i, id |-> ids[i]] \in [n : Nat, id : IDs]
      OBVIOUS
    <2>1. ids[i] \in IDs /\ sent + i \in Nat
      BY <1>1, ElementOfSeq
    <2> QED BY <2>1
  <1>3. new \in Seq([n : Nat, id : IDs]) /\ Len(new) = Len(ids)
        /\ \A i \in 1..Len(ids) : new[i] = [n |-> sent + i, id |-> ids[i]]
    <2>1. new \in [1..Len(ids) -> [n : Nat, id : IDs]]
      BY <1>2
    <2>2. new \in Seq([n : Nat, id : IDs])
      BY <1>1, <2>1, SeqDef
    <2>3. DOMAIN new = 1..Len(new) /\ DOMAIN new = 1..Len(ids) /\ Len(new) \in Nat
      BY <2>1, <2>2, LenProperties
    <2>4. Len(new) = Len(ids)
      <3> HIDE DEF new
      <3>1. PICK a \in Nat : a = Len(new)
        BY <2>3
      <3>2. PICK b \in Nat : b = Len(ids)
        BY ZenonT(60), <1>1
      <3>3. 1..a = 1..b
        BY <2>3, <3>1, <3>2
      <3>4. a = b
        <4>1. a \in 1..a \/ a = 0
          OBVIOUS
        <4>2. b \in 1..b \/ b = 0
          OBVIOUS
        <4> QED BY ONLY <3>3, <4>1, <4>2, a \in Nat, b \in Nat
      <3> QED BY <3>1, <3>2, <3>4
    <2> QED BY <2>2, <2>4
  <1> HIDE DEF new
  <1>4. line' = line \o new /\ sent' = sent + Len(ids)
    BY DEF Transmit, new
  <1>5. /\ line' \in Seq([n : Nat, id : IDs])
        /\ DOMAIN line' = 1..(Len(line) + Len(ids))
        /\ \A k \in DOMAIN line : line'[k] = line[k]
        /\ \A k \in 1..Len(ids) : line'[Len(line) + k] = new[k]
    <2>1. /\ line' \in Seq([n : Nat, id : IDs])
          /\ DOMAIN line' = 1..(Len(line) + Len(new))
          /\ \A k \in 1..Len(line) : line'[k] = line[k]
          /\ \A k \in 1..Len(new) : line'[Len(line) + k] = new[k]
      <3>1. line \in Seq([n : Nat, id : IDs]) /\ new \in Seq([n : Nat, id : IDs])
            /\ line' = line \o new
        BY <1>1, <1>3, <1>4
      <3> QED BY ONLY <3>1, Concatenated
    <2> QED BY <1>1, <1>3, <2>1
  <1>6. ASSUME NEW k \in DOMAIN line', k \notin DOMAIN line
        PROVE  /\ k - Len(line) \in DOMAIN ids
               /\ line'[k].n = sent + (k - Len(line))
               /\ line'[k].id = ids[k - Len(line)]
    <2>1. PICK l \in 1..Len(ids) : l = k - Len(line) /\ Len(line) + l = k
      <3>1. k - Len(line) \in 1..Len(ids) /\ Len(line) + (k - Len(line)) = k
        BY <1>1, <1>5, <1>6
      <3> QED BY <3>1
    <2>2. line'[k] = new[l]
      BY <1>5, <2>1
    <2>3. new[l] = [n |-> sent + l, id |-> ids[l]]
      BY <1>3
    <2> QED BY <1>1, <2>1, <2>2, <2>3
  <1>7. sent' \in Nat
    BY <1>1, <1>4
  <1> QED BY <1>4, <1>5, <1>6, <1>7

(* What is received has a number.                                          *)
LEMMA ReceivedNat == TypeOK /\ PacketInv => Received \subseteq Nat
  BY DEF TypeOK, PacketInv, Received

(* What the dongle sends is in order and later than anything before.       *)
LEMMA TransmitLine ==
  ASSUME TypeOK, PacketInv, LineInv, NEW ids \in Seq(IDs), Transmit(ids)
  PROVE  LineInv'
  <1>1. /\ Len(ids) \in Nat /\ Len(line) \in Nat /\ sent \in Nat
        /\ DOMAIN line = 1..Len(line) /\ DOMAIN ids = 1..Len(ids)
        /\ \A k \in DOMAIN line : line[k].n \in Nat
    BY LineType, LenProperties DEF TypeOK
  <1>2. Received' = Received
    BY DEF Transmit, timing, Received
  <1>3. Received \subseteq Nat
    BY ReceivedNat
  <1>4. /\ sent' = sent + Len(ids)
        /\ DOMAIN line' = 1..(Len(line) + Len(ids))
        /\ \A k \in DOMAIN line : line'[k] = line[k]
        /\ \A k \in DOMAIN line' : k \notin DOMAIN line =>
              /\ k - Len(line) \in DOMAIN ids
              /\ line'[k].n = sent + (k - Len(line))
    BY Transmitted
  <1>5. ASSUME NEW k \in DOMAIN line'
        PROVE  /\ line'[k].n \in Nat /\ line'[k].n <= sent'
               /\ k \notin DOMAIN line => line'[k].n > sent
    BY <1>1, <1>4 DEF LineInv
  <1>6. ASSUME NEW i \in DOMAIN line', NEW j \in DOMAIN line', i < j
        PROVE  line'[i].n < line'[j].n
    <2>1. CASE j \in DOMAIN line
      BY <1>1, <1>4, <1>6, <2>1 DEF LineInv
    <2>2. CASE j \notin DOMAIN line /\ i \in DOMAIN line
      BY <1>1, <1>4, <1>5, <2>2 DEF LineInv
    <2>3. CASE j \notin DOMAIN line /\ i \notin DOMAIN line
      BY <1>1, <1>4, <1>6, <2>3
    <2> QED BY <2>1, <2>2, <2>3
  <1>7. ASSUME NEW m \in Received'
        PROVE  m <= sent' /\ \A k \in DOMAIN line' : m < line'[k].n
    <2>1. m \in Nat /\ m <= sent /\ \A k \in DOMAIN line : m < line[k].n
      BY <1>2, <1>3, <1>7 DEF LineInv
    <2>2. ASSUME NEW k \in DOMAIN line' PROVE m < line'[k].n
      BY <1>1, <1>4, <1>5, <2>1
    <2> QED BY <1>1, <1>4, <2>1, <2>2
  <1> QED BY <1>5, <1>6, <1>7 DEF LineInv

(* A packet that is lost leaves the others in order.                       *)
LEMMA LoseLine ==
  ASSUME TypeOK, PacketInv, LineInv, NEW i \in DOMAIN line,
         line' = Without(line, i),
         sent' = sent, Received' \subseteq Received
  PROVE  line' \in Seq([n : Nat, id : IDs]) /\ LineInv'
  <1>1. line \in Seq([n : Nat, id : IDs]) /\ sent \in Nat
    BY DEF TypeOK
  <1>2. /\ line' \in Seq([n : Nat, id : IDs])
        /\ DOMAIN line' = 1..(Len(line) - 1)
        /\ \A k \in DOMAIN line' : /\ k < i => k \in DOMAIN line /\ line'[k] = line[k]
                                   /\ k >= i => k + 1 \in DOMAIN line /\ line'[k] = line[k + 1]
    BY ONLY SMTT(30), <1>1, i \in DOMAIN line, line' = Without(line, i), RemoveAt
  <1>3. DOMAIN line' \subseteq Nat /\ DOMAIN line \subseteq Nat /\ i \in Nat
    BY <1>2, LineType
  <1>4. ASSUME NEW k \in DOMAIN line'
        PROVE  \E l \in DOMAIN line : line'[k] = line[l]
    BY <1>2, <1>3
  <1>5. ASSUME NEW k \in DOMAIN line', NEW l \in DOMAIN line', k < l
        PROVE  line'[k].n < line'[l].n
    <2>1. CASE l < i
      BY <1>2, <1>3, <1>5, <2>1 DEF LineInv
    <2>2. CASE k < i /\ l >= i
      <3>1. k \in DOMAIN line /\ l + 1 \in DOMAIN line /\ k < l + 1
        BY <1>2, <1>3, <1>5, <2>2
      <3> QED BY <1>2, <2>2, <3>1 DEF LineInv
    <2>3. CASE k >= i
      <3>1. k + 1 \in DOMAIN line /\ l + 1 \in DOMAIN line /\ k + 1 < l + 1 /\ l >= i
        BY <1>2, <1>3, <1>5, <2>3
      <3> QED BY <1>2, <2>3, <3>1 DEF LineInv
    <2> QED BY <1>3, <1>5, <2>1, <2>2, <2>3
  <1> QED BY <1>2, <1>4, <1>5 DEF LineInv

(* The first packet is taken from the line.                                *)
LEMMA GetLine ==
  ASSUME TypeOK, PacketInv, LineInv, line # <<>>, line' = Tail(line),
         sent' = sent, Received' \subseteq Received \cup {Head(line).n}
  PROVE  line' \in Seq([n : Nat, id : IDs]) /\ LineInv'
  <1>1. line \in Seq([n : Nat, id : IDs]) /\ sent \in Nat /\ Len(line) \in Nat
        /\ 1 \in DOMAIN line /\ Head(line) = line[1]
        /\ DOMAIN line \subseteq Nat
    BY LineType, Rest DEF TypeOK
  <1>2. /\ line' \in Seq([n : Nat, id : IDs])
        /\ DOMAIN line' = 1..(Len(line) - 1)
        /\ \A k \in DOMAIN line' : k + 1 \in DOMAIN line /\ line'[k] = line[k + 1]
    BY <1>1, Rest
  <1>3. ASSUME NEW k \in DOMAIN line', NEW l \in DOMAIN line', k < l
        PROVE  line'[k].n < line'[l].n
    <2>1. k + 1 \in DOMAIN line /\ l + 1 \in DOMAIN line /\ k + 1 < l + 1
      BY <1>1, <1>2, <1>3
    <2> QED BY <1>2, <2>1 DEF LineInv
  <1>4. ASSUME NEW k \in DOMAIN line'
        PROVE  line'[k].n <= sent /\ line[1].n < line'[k].n
    <2>1. k + 1 \in DOMAIN line /\ 1 < k + 1
      BY <1>1, <1>2
    <2> QED BY <1>1, <1>2, <2>1 DEF LineInv
  <1>5. ASSUME NEW m \in Received'
        PROVE  m <= sent' /\ \A k \in DOMAIN line' : m < line'[k].n
    <2>1. CASE m \in Received
      BY <1>2, <2>1 DEF LineInv
    <2>2. CASE m = Head(line).n
      BY <1>1, <1>4, <2>2 DEF LineInv
    <2> QED BY <1>5, <2>1, <2>2
  <1> QED BY <1>2, <1>3, <1>4, <1>5 DEF LineInv

(* Packets that are no events about the connection change nothing.         *)
LEMMA TransmitPlain ==
  ASSUME TypeOK, EventInv, NEW ids \in Seq(IDs), Transmit(ids),
         \A k \in DOMAIN ids : ids[k] \notin Events,
         UNCHANGED <<linked, eventLost>>
  PROVE  EventInv'
  <1>1. /\ DOMAIN line = 1..Len(line) /\ Len(line) \in Nat /\ Len(ids) \in Nat
        /\ inConnection' = inConnection
    BY LineType, LenProperties DEF Transmit, books
  <1>2. /\ DOMAIN line' = 1..(Len(line) + Len(ids))
        /\ \A k \in DOMAIN line : line'[k] = line[k]
        /\ \A k \in DOMAIN line' : k \notin DOMAIN line =>
              /\ k - Len(line) \in DOMAIN ids
              /\ line'[k].id = ids[k - Len(line)]
    BY Transmitted
  <1>3. DOMAIN line \subseteq DOMAIN line'
    BY <1>1, <1>2
  <1>4. ASSUME NEW k \in DOMAIN line', line'[k].id \in Events
        PROVE  k \in DOMAIN line /\ line[k].id \in Events
    BY <1>2, <1>4
  <1>5. ASSUME NEW k \in DOMAIN line', LastEvent(k)'
        PROVE  k \in DOMAIN line /\ LastEvent(k) /\ line'[k] = line[k]
    BY <1>2, <1>3, <1>4, <1>5 DEF LastEvent
  <1> QED BY <1>1, <1>2, <1>3, <1>5 DEF EventInv

(* An event sent is the last one on the line.                              *)
LEMMA TransmitEvent ==
  ASSUME TypeOK, NEW ids \in Seq(IDs), Transmit(ids), ids # <<>>,
         ids[Len(ids)] \in Events, linked' = (ids[Len(ids)] = "EVENT_CONNECT")
  PROVE  EventInv'
  <1>1. /\ DOMAIN line = 1..Len(line) /\ Len(line) \in Nat
        /\ DOMAIN ids = 1..Len(ids) /\ Len(ids) \in Nat /\ Len(ids) # 0
    BY LineType, LenProperties, EmptySeq
  <1>2. /\ DOMAIN line' = 1..(Len(line) + Len(ids))
        /\ \A k \in DOMAIN line' : k \notin DOMAIN line => line'[k].id = ids[k - Len(line)]
    BY Transmitted
  <1>3. PICK l \in Nat : l = Len(line) + Len(ids)
    BY <1>1
  <1>4. l \in DOMAIN line' /\ l \notin DOMAIN line /\ l - Len(line) = Len(ids)
    BY <1>1, <1>2, <1>3
  <1>5. line'[l].id = ids[Len(ids)]
    BY <1>2, <1>4
  <1>6. ASSUME NEW k \in DOMAIN line', LastEvent(k)' PROVE k = l
    <2>1. ~(k < l)
      BY <1>4, <1>5, <1>6 DEF LastEvent
    <2> QED BY <1>1, <1>2, <1>3, <2>1
  <1> QED BY <1>4, <1>5, <1>6 DEF EventInv

(* The loss of the last event is remembered, others do not matter.         *)
LEMMA LoseEvent ==
  ASSUME TypeOK, EventInv, NEW i \in DOMAIN line,
         line' = Without(line, i),
         ~eventLost' => ~eventLost /\ ~LastEvent(i),
         UNCHANGED <<linked, inConnection>>
  PROVE  EventInv'
  <1> SUFFICES ASSUME ~eventLost' PROVE EventInv'
    BY DEF EventInv
  <1>0. ~eventLost /\ ~LastEvent(i)
    OBVIOUS
  <1>1. line \in Seq([n : Nat, id : IDs]) /\ Len(line) \in Nat /\ DOMAIN line = 1..Len(line)
    BY LineType DEF TypeOK
  <1>2. /\ line' \in Seq([n : Nat, id : IDs])
        /\ DOMAIN line' = 1..(Len(line) - 1)
        /\ \A k \in DOMAIN line' : /\ k < i => k \in DOMAIN line /\ line'[k] = line[k]
                                   /\ k >= i => k + 1 \in DOMAIN line /\ line'[k] = line[k + 1]
    <2>1. line \in Seq([n : Nat, id : IDs])
      BY <1>1
    <2> QED BY ONLY SMTT(30), <2>1, i \in DOMAIN line, line' = Without(line, i), RemoveAt
  <1>3. DOMAIN line' = 1..(Len(line) - 1)
    BY <1>2
  <1>4. ASSUME NEW j \in DOMAIN line, j < i
        PROVE  j \in DOMAIN line' /\ line'[j] = line[j]
    BY <1>1, <1>2, <1>3, <1>4
  <1>5. ASSUME NEW j \in DOMAIN line, j > i
        PROVE  j - 1 \in DOMAIN line' /\ line'[j - 1] = line[j]
    <2>1. j - 1 \in DOMAIN line' /\ j - 1 >= i /\ (j - 1) + 1 = j
      BY <1>1, <1>3, <1>5
    <2> QED BY <1>2, <2>1
  (* An event later than some place of the new line is still there. *)
  <1>6. ASSUME NEW l \in DOMAIN line, NEW j \in DOMAIN line, l < j, l # i,
               line[j].id \in Events
        PROVE  \E m \in DOMAIN line' : /\ line'[m].id \in Events
                                       /\ IF l < i THEN l < m ELSE l - 1 < m
    <2>1. PICK e \in DOMAIN line : e # i /\ l < e /\ line[e].id \in Events
      <3>1. CASE j # i
        BY <1>6, <3>1
      <3>2. CASE j = i
        <4>1. PICK e \in DOMAIN line : i < e /\ line[e].id \in Events
          BY <1>0, <1>6, <3>2 DEF LastEvent
        <4> QED BY <1>1, <1>6, <3>2, <4>1
      <3> QED BY <3>1, <3>2
    <2>2. CASE e < i
      BY <1>1, <1>4, <2>1, <2>2
    <2>3. CASE e > i
      BY SMTT(30), <1>1, <1>5, <1>6, <2>1, <2>3
    <2> QED BY <1>1, <2>1, <2>2, <2>3
  <1>7. ASSUME NEW k \in DOMAIN line', LastEvent(k)'
        PROVE  linked' = (line'[k].id = "EVENT_CONNECT")
    <2>1. PICK l \in DOMAIN line : /\ l # i
                                   /\ line'[k] = line[l]
                                   /\ k = IF l < i THEN l ELSE l - 1
      <3>1. CASE k < i
        BY <1>1, <1>2, <1>3, <3>1
      <3>2. CASE k >= i
        <4>1. k + 1 \in DOMAIN line /\ line'[k] = line[k + 1] /\ k + 1 # i /\ ~(k + 1 < i)
              /\ k = (k + 1) - 1
          BY SMTT(30), <1>1, <1>2, <1>3, <3>2
        <4> QED BY <4>1
      <3> QED BY <1>1, <1>3, <3>1, <3>2
    <2>2. LastEvent(l)
      <3> SUFFICES ASSUME NEW j \in DOMAIN line, l < j, line[j].id \in Events PROVE FALSE
        BY <1>7, <2>1 DEF LastEvent
      <3>1. PICK m \in DOMAIN line' : line'[m].id \in Events /\ k < m
        BY <1>6, <2>1
      <3> QED BY <1>7, <3>1 DEF LastEvent
    <2> QED BY <1>0, <2>1, <2>2 DEF EventInv
  <1>8. ASSUME \A k \in DOMAIN line' : line'[k].id \notin Events
        PROVE  inConnection' = linked'
    <2>1. ASSUME NEW j \in DOMAIN line, j # i PROVE line[j].id \notin Events
      BY <1>1, <1>4, <1>5, <1>8, <2>1
    <2>2. line[i].id \notin Events
      BY <1>0, <1>1, <2>1 DEF LastEvent
    <2> QED BY <1>0, <2>1, <2>2 DEF EventInv
  <1> QED BY <1>7, <1>8 DEF EventInv

(* Events are handled in the order they were sent.                         *)
LEMMA GetEvent ==
  ASSUME TypeOK, EventInv, line # <<>>, line' = Tail(line),
         UNCHANGED <<linked, eventLost>>,
         inConnection' = IF Head(line).id \in Events THEN (Head(line).id = "EVENT_CONNECT")
                         ELSE inConnection
  PROVE  EventInv'
  <1> SUFFICES ASSUME ~eventLost PROVE EventInv'
    BY DEF EventInv
  <1>1. /\ Len(line) \in Nat /\ DOMAIN line = 1..Len(line)
        /\ 1 \in DOMAIN line /\ Head(line) = line[1]
    BY LineType, Rest DEF TypeOK
  <1>2. /\ DOMAIN line' = 1..(Len(line) - 1)
        /\ \A k \in DOMAIN line' : k + 1 \in DOMAIN line /\ line'[k] = line[k + 1]
    BY Rest DEF TypeOK
  <1>3. ASSUME NEW j \in DOMAIN line, j # 1
        PROVE  j - 1 \in DOMAIN line' /\ line'[j - 1] = line[j]
    <2>1. j - 1 \in DOMAIN line' /\ (j - 1) + 1 = j
      BY <1>1, <1>2, <1>3
    <2> QED BY <1>2, <2>1
  <1>4. ASSUME NEW k \in DOMAIN line', LastEvent(k)'
        PROVE  linked' = (line'[k].id = "EVENT_CONNECT")
    <2>1. k + 1 \in DOMAIN line /\ line'[k] = line[k + 1]
      BY <1>2
    <2>2. LastEvent(k + 1)
      <3> SUFFICES ASSUME NEW j \in DOMAIN line, k + 1 < j PROVE line[j].id \notin Events
        BY <1>4, <2>1 DEF LastEvent
      <3>1. j # 1 /\ k < j - 1
        BY <1>1, <1>2
      <3> QED BY <1>3, <1>4, <3>1 DEF LastEvent
    <2> QED BY <2>1, <2>2 DEF EventInv
  <1>5. ASSUME \A k \in DOMAIN line' : line'[k].id \notin Events
        PROVE  inConnection' = linked'
    <2>1. \A j \in DOMAIN line : j # 1 => line[j].id \notin Events
      BY <1>3, <1>5
    <2>2. CASE line[1].id \in Events
      <3>1. LastEvent(1) /\ 1 \in DOMAIN line
        BY <1>1, <2>1, <2>2 DEF LastEvent
      <3> QED BY <1>1, <2>2, <3>1 DEF EventInv
    <2>3. CASE line[1].id \notin Events
      BY <1>1, <2>1, <2>3 DEF EventInv
    <2> QED BY <2>2, <2>3
  <1> QED BY <1>4, <1>5 DEF EventInv

(* The distance of two timestamps less than a period apart.                *)
LEMMA Multiple ==
  ASSUME NEW T \in Nat \ {0}, NEW p \in Int
  PROVE  /\ p >= 2 => T * p >= T + T
         /\ p <= -1 => T * p <= -T
         /\ p = 0 => T * p = 0
         /\ p = 1 => T * p = T
         /\ T * p \in Int
  OBVIOUS

LEMMA TimeDiffExact ==
  ASSUME NEW n \in Nat, NEW s \in Nat, s < n, n - s < TimerPeriod,
         last_timestamp = Timestamp(s)
  PROVE  TimeDiff(Timestamp(n)) = n - s
  <1> DEFINE T == TimerPeriod
  <1>1. T \in Nat \ {0}
    BY CollectorAssumption
  <1>2. PICK q1 \in Int, r1 \in 0..(T - 1) : r1 = (n % T) /\ n = T * q1 + r1
    <2>1. n \div T \in Int /\ (n % T) \in 0..(T - 1) /\ n = T * (n \div T) + (n % T)
      BY <1>1
    <2> QED BY <2>1
  <1>3. PICK q0 \in Int, r0 \in 0..(T - 1) : r0 = (s % T) /\ s = T * q0 + r0
    <2>1. s \div T \in Int /\ (s % T) \in 0..(T - 1) /\ s = T * (s \div T) + (s % T)
      BY <1>1
    <2> QED BY <2>1
  <1>4. PICK p \in Int : p = q1 - q0
    OBVIOUS
  <1>5. T * p = T * q1 - T * q0 /\ T * q1 \in Int /\ T * q0 \in Int /\ T * p \in Int
    BY <1>1, <1>4
  <1>6. n - s = T * p + (r1 - r0)
    <2> DEFINE x1 == T * q1
               x0 == T * q0
               x == T * p
    <2>1. x1 \in Int /\ x0 \in Int /\ x = x1 - x0 /\ n = x1 + r1 /\ s = x0 + r0
          /\ r1 \in Int /\ r0 \in Int
      BY <1>1, <1>2, <1>3, <1>5
    <2> HIDE DEF x, x1, x0
    <2>2. n - s = x + (r1 - r0)
      BY <2>1
    <2> QED BY <2>2 DEF x
  <1>7. Timestamp(n) = r1 /\ last_timestamp = r0
    BY <1>2, <1>3 DEF Timestamp
  <1> HIDE DEF T
  <1>8. p \in {0, 1}
    <2>1. ~(p >= 2)
      BY <1>1, <1>2, <1>3, <1>6, Multiple DEF T
    <2>2. ~(p <= -1)
      BY <1>1, <1>2, <1>3, <1>6, Multiple
    <2> QED BY <2>1, <2>2
  <1>9. n - s = IF p = 0 THEN r1 - r0 ELSE T + (r1 - r0)
    BY <1>1, <1>6, <1>8, Multiple
  <1>a. r1 \in Int /\ r0 \in Int /\ 0 <= r1 /\ 0 <= r0 /\ r1 < T /\ r0 < T /\ T \in Nat
    BY <1>1
  <1>b. TimeDiff(Timestamp(n)) = IF r1 < r0 THEN T - (r0 - r1) ELSE r1 - r0
    BY <1>7 DEF TimeDiff, T
  <1>c. p = 0 => r0 < r1
    BY <1>9, <1>a
  <1>d. p # 0 => r1 < r0
    BY <1>9, <1>a DEF T
  <1> QED BY <1>9, <1>a, <1>b, <1>c, <1>d
-----------------------------------------------------------------------------
(* What is left of a number divided by the period or the number of         *)
(* counters.                                                               *)
LEMMA Remainders ==
  ASSUME NEW n \in Nat
  PROVE  /\ PacketCounter(n) \in 0..(PACKET_COUNTER_CAP - 1)
         /\ Timestamp(n) \in 0..(TimerPeriod - 1)
  BY CollectorAssumption DEF PacketCounter, Timestamp

LEMMA Divided ==
  ASSUME NEW C \in Nat \ {0}, NEW p \in Int
  PROVE  ((C * p) % C) = 0
  <1>1. PICK x \in Int : x = C * p
    OBVIOUS
  <1>2. PICK d \in Int, r \in 0..(C - 1) : r = (x % C) /\ x = C * d + r
    <2>1. x \div C \in Int /\ (x % C) \in 0..(C - 1) /\ x = C * (x \div C) + (x % C)
      BY <1>1
    <2> QED BY <2>1
  <1>3. PICK e \in Int : e = p - d
    OBVIOUS
  <1>4. C * e = C * p - C * d /\ C * e \in Int /\ C * d \in Int
    BY <1>3
  <1>5. C * e = r
    <2>1. PICK y \in Int, z \in Int : y = C * e /\ z = C * d
      BY <1>4
    <2>2. y = x - z /\ x = z + r
      BY <1>1, <1>2, <1>4, <2>1
    <2> QED BY <2>1, <2>2
  <1>6. r < C /\ 0 <= r /\ r \in Int /\ C \in Nat
    OBVIOUS
  <1>7. e = 0
    <2>1. ~(e >= 2) /\ ~(e = 1) /\ ~(e <= -1)
      BY <1>5, <1>6, Multiple
    <2> QED BY <2>1
  <1> QED BY <1>1, <1>2, <1>5, <1>7, Multiple

(* The counter of the packet before.                                       *)
LEMMA Previous ==
  ASSUME NEW n \in Nat, n - 1 \in Nat, PacketCounter(n) > 0
  PROVE  PacketCounter(n - 1) = PacketCounter(n) - 1
  <1> DEFINE C == PACKET_COUNTER_CAP
  <1>1. C \in Nat \ {0}
    BY CollectorAssumption
  <1>2. PICK q \in Int, r \in 0..(C - 1) : r = (n % C) /\ n = C * q + r
    <2>1. n \div C \in Int /\ (n % C) \in 0..(C - 1) /\ n = C * (n \div C) + (n % C)
      BY <1>1
    <2> QED BY <2>1
  <1>3. PICK q0 \in Int, r0 \in 0..(C - 1) : r0 = ((n - 1) % C) /\ n - 1 = C * q0 + r0
    <2>1. /\ (n - 1) \div C \in Int /\ ((n - 1) % C) \in 0..(C - 1)
          /\ n - 1 = C * ((n - 1) \div C) + ((n - 1) % C)
      BY <1>1
    <2> QED BY <2>1
  <1>4. PICK e \in Int : e = q0 - q
    OBVIOUS
  <1> HIDE DEF C
  <1>5. C * e = C * q0 - C * q /\ C * e \in Int /\ C * q \in Int /\ C * q0 \in Int
    BY <1>1, <1>4
  <1>6. C * e = r - 1 - r0
    <2>1. PICK y \in Int, z \in Int, z0 \in Int : y = C * e /\ z = C * q /\ z0 = C * q0
      BY <1>5
    <2>2. y = z0 - z /\ n = z + r /\ n - 1 = z0 + r0
      BY <1>2, <1>3, <1>5, <2>1
    <2> QED BY <2>1, <2>2
  <1>7. r \in Int /\ r0 \in Int /\ 0 < r /\ r < C /\ 0 <= r0 /\ r0 < C /\ C \in Nat
    BY <1>1, <1>2 DEF PacketCounter, C
  <1>8. e = 0
    <2>1. ~(e >= 2) /\ ~(e = 1) /\ ~(e <= -1)
      BY <1>1, <1>6, <1>7, Multiple
    <2> QED BY <2>1
  <1>9. r - 1 = r0
    BY <1>1, <1>6, <1>7, <1>8, Multiple
  <1> QED BY <1>2, <1>3, <1>9 DEF PacketCounter, C

(* The first packet of the line is later than any received.                *)
LEMMA HeadLater ==
  ASSUME TypeOK, LineInv, line # <<>>
  PROVE  /\ Head(line).n \in Nat /\ Head(line).n <= sent
         /\ \A m \in Received : m < Head(line).n
         /\ Head(line).n # None
  <1>1. 1 \in DOMAIN line /\ Head(line) = line[1]
    BY Rest DEF TypeOK
  <1>2. Head(line).n \in Nat
    BY <1>1, LineType
  <1> QED BY <1>1, <1>2, CollectorAssumption DEF LineInv

(* A packet found in the buffer is one of the buffer.                      *)
LEMMA Largest ==
  ASSUME NEW L \in Nat, NEW M \in SUBSET (1..L), M # {}
  PROVE  \E i \in M : \A j \in M : j <= i
  <1> DEFINE D == {L - i : i \in M}
  <1>1. D \subseteq Nat /\ D # {}
    OBVIOUS
  <1>2. PICK d \in D : \A e \in D : ~(<<e, d>> \in OpToRel(<, Nat))
    BY <1>1, NatLessThanWellFounded, WFMin
  <1>3. \A e \in D : ~(e < d)
    BY <1>1, <1>2 DEF OpToRel
  <1>4. PICK i \in M : d = L - i
    OBVIOUS
  <1>5. ASSUME NEW j \in M PROVE j <= i
    <2>1. L - j \in D
      OBVIOUS
    <2> QED BY <1>3, <1>4, <2>1
  <1> QED BY <1>5

LEMMA FindType ==
  ASSUME buffer \in Seq(Nat), NEW value
  PROVE  FindPacketByPacketCounter(value) \in Nat \cup {None}
  <1>1. Len(buffer) \in Nat /\ DOMAIN buffer = 1..Len(buffer)
    BY LenProperties
  <1> DEFINE M == Matches(value)
  <1>2. CASE M = {}
    BY <1>2 DEF FindPacketByPacketCounter
  <1>3. CASE M # {}
    <2>1. M \in SUBSET (1..Len(buffer))
      BY <1>1 DEF Matches
    <2> DEFINE found == CHOOSE i \in M : \A j \in M : j <= i
    <2>2. found \in M
      <3> HIDE DEF M
      <3> QED BY <1>1, <1>3, <2>1, Largest
    <2>3. found \in 1..Len(buffer)
      BY <2>1, <2>2
    <2>4. buffer[found] \in Nat
      <3> HIDE DEF found
      <3> QED BY <2>3, ElementOfSeq
    <2>5. FindPacketByPacketCounter(value) = buffer[found]
      BY <1>3 DEF FindPacketByPacketCounter
    <2> QED BY <2>4, <2>5
  <1> QED BY <1>2, <1>3
-----------------------------------------------------------------------------
(* The events the dongle sends. *)
LEMMA EventsSent ==
  /\ <<"EVENT_PACKET">> \in Seq(IDs) /\ <<"RESP_TIMESTAMP">> \in Seq(IDs)
  /\ <<"EVENT_PACKET", "EVENT_CONNECT">> \in Seq(IDs)
  /\ <<"EVENT_DISCONNECT">> \in Seq(IDs)
  BY DEF IDs, Events

LEMMA TransmitType ==
  ASSUME TypeOK, NEW ids \in Seq(IDs), Transmit(ids), linked' \in BOOLEAN, eventLost' \in BOOLEAN
  PROVE  TypeOK'
  <1>1. line' \in Seq([n : Nat, id : IDs]) /\ sent' \in Nat
    BY Transmitted
  <1> QED BY <1>1 DEF TypeOK, Transmit, books, timing, fetch

LEMMA TimeDiffNat ==
  ASSUME NEW t \in 0..(TimerPeriod - 1), last_timestamp \in 0..(TimerPeriod - 1)
  PROVE  TimeDiff(t) \in Nat
  BY CollectorAssumption DEF TimeDiff

(* The slices of Python are parts of the sequence. *)
LEMMA SliceEndBound ==
  ASSUME NEW s \in Seq(Nat), NEW k \in Int
  PROVE  SliceEnd(s, k) \in 0..Len(s)
  <1>1. Len(s) \in Nat
    BY LenProperties
  <1> QED BY <1>1 DEF SliceEnd

LEMMA SliceType ==
  ASSUME NEW s \in Seq(Nat), NEW k \in Int
  PROVE  SliceTo(s, k) \in Seq(Nat) /\ SliceFrom(s, k) \in Seq(Nat)
  BY SliceEndBound, SplitParts DEF SliceTo, SliceFrom

(* Types are preserved. *)
LEMMA NextType ==
  ASSUME IInv, [Next]_vars
  PROVE  TypeOK'
  <1> USE DEF IInv
  <1>1. CASE Sniff
    <2>1. linked' \in BOOLEAN /\ eventLost' \in BOOLEAN
      BY <1>1 DEF Sniff, TypeOK
    <2> QED BY <1>1, <2>1, TransmitType, EventsSent DEF Sniff
  <1>2. CASE Answer
    <2>1. linked' \in BOOLEAN /\ eventLost' \in BOOLEAN
      BY <1>2 DEF Answer, TypeOK
    <2> QED BY <1>2, <2>1, TransmitType, EventsSent DEF Answer
  <1>3. CASE Connect
    BY <1>3, TransmitType, EventsSent DEF Connect
  <1>4. CASE Disconnect
    BY <1>4, TransmitType, EventsSent DEF Disconnect
  <1>5. CASE Lose
    <2>1. PICK i \in DOMAIN line : line' = Without(line, i)
      BY <1>5 DEF Lose, Without
    <2>2. line' \in Seq([n : Nat, id : IDs])
      BY <2>1, RemoveAt DEF TypeOK
    <2>3. eventLost' \in BOOLEAN
      BY <1>5 DEF Lose, TypeOK
    <2>4. UNCHANGED <<sent, linked, packet, thread, buffer, books, timing, fetch, arrived, cut>>
      BY <1>5 DEF Lose
    <2> QED BY <2>2, <2>3, <2>4 DEF TypeOK, books, timing, fetch
  <1> DEFINE first == Head(line).n
  <1>a. ASSUME NEW id, Get(id)
        PROVE  /\ line # <<>> /\ first \in Nat /\ first <= sent
               /\ line' \in Seq([n : Nat, id : IDs])
               /\ Timestamp(first) \in 0..(TimerPeriod - 1)
               /\ PacketCounter(first) \in 0..(PACKET_COUNTER_CAP - 1)
               /\ UNCHANGED <<sent, linked, eventLost>>
    <2>1. line # <<>> /\ line' = Tail(line) /\ UNCHANGED <<sent, linked, eventLost>>
      BY <1>a DEF Get
    <2>2. first \in Nat /\ first <= sent
      BY <2>1, HeadLater
    <2>3. line' \in Seq([n : Nat, id : IDs])
      BY <2>1, Rest DEF TypeOK
    <2> HIDE DEF first
    <2> QED BY <2>1, <2>2, <2>3, Remainders
  <1>6. CASE GetRespTimestamp
    <2>1. Get("RESP_TIMESTAMP")
      BY <1>6 DEF GetRespTimestamp
    <2>2. offset' \in Nat /\ last_time' \in Nat /\ stamped' \in Nat
          /\ last_timestamp' \in 0..(TimerPeriod - 1) /\ gapless' \in BOOLEAN
      BY <1>6, <1>a, <2>1 DEF GetRespTimestamp, TypeOK
    <2>3. UNCHANGED <<packet, thread, buffer, books, fetch, arrived, cut>>
      BY <1>6 DEF GetRespTimestamp
    <2>4. line' \in Seq([n : Nat, id : IDs]) /\ UNCHANGED <<sent, linked, eventLost>>
      BY <1>a, <2>1
    <2> QED BY <2>2, <2>3, <2>4 DEF TypeOK, books, fetch
  <1>7. CASE GetEventPacket
    <2>1. Get("EVENT_PACKET")
      BY <1>7 DEF GetEventPacket
    <2>2. CASE last_time = None
      BY SMTT(30), <1>7, <1>a, <2>1, <2>2 DEF GetEventPacket, TypeOK, books, fetch, timing
    <2>3. CASE last_time # None
      <3>1. last_time \in Nat /\ TimeDiff(Timestamp(first)) \in Nat
        BY <1>a, <2>1, <2>3, TimeDiffNat DEF TypeOK
      <3>2. last_time' \in Nat
        BY <1>7, <2>3, <3>1 DEF GetEventPacket
      <3>3. gapless' \in BOOLEAN
        BY <1>7, <2>3 DEF GetEventPacket, TypeOK
      <3>4. last_timestamp' \in 0..(TimerPeriod - 1) /\ stamped' \in Nat /\ offset' = offset
            /\ packet' \in Nat /\ thread' = "append"
        BY <1>7, <1>a, <2>1, <2>3 DEF GetEventPacket
      <3> QED BY ZenonT(60), <1>7, <1>a, <2>1, <3>2, <3>3, <3>4 DEF GetEventPacket, TypeOK, books, fetch
    <2> QED BY <2>2, <2>3
  <1>8. CASE AppendPacket
    <2>1. packet \in Nat
      BY <1>8 DEF AppendPacket, PacketInv
    <2> DEFINE kept == IF Len(buffer) > Limit THEN SubSeq(buffer, Cut + 1, Len(buffer)) ELSE buffer
    <2>2. kept \in Seq(Nat)
      <3>1. CASE Len(buffer) > Limit
        <4>1. Cut \in 0..Len(buffer)
          <5>1. Len(buffer) \in Nat
            BY LenProperties DEF TypeOK
          <5> QED BY <3>1, <5>1, CollectorAssumption
        <4> QED BY <3>1, <4>1, SplitParts DEF TypeOK
      <3> QED BY <3>1 DEF TypeOK
    <2>3. buffer' = Append(kept, packet) /\ cut' = cut \cup (Elements(buffer) \ Elements(kept))
      BY <1>8 DEF AppendPacket
    <2> HIDE DEF kept
    <2>4. buffer' \in Seq(Nat)
      BY <2>1, <2>2, <2>3, AppendProperties
    <2>5. Elements(buffer) \subseteq Nat
      <3>1. \A j \in DOMAIN buffer : buffer[j] \in Nat
        BY LenProperties, ElementOfSeq DEF TypeOK
      <3> QED BY <3>1 DEF Elements
    <2>6. cut' \subseteq Nat
      BY <2>3, <2>5 DEF TypeOK
    <2>7. arrived' \subseteq Nat
      BY <1>8, <2>1 DEF AppendPacket, TypeOK
    <2> QED BY <1>8, <2>4, <2>6, <2>7 DEF AppendPacket, TypeOK, dongle, books, timing, fetch
  <1>9. CASE GetEventConnect
    <2>1. Get("EVENT_CONNECT")
      BY <1>9 DEF GetEventConnect
    <2> QED BY <1>9, <1>a, <2>1 DEF GetEventConnect, TypeOK, fetch, timing
  <1>10. CASE FindConnectRequest
    <2>1. currentConnectRequest' \in Nat \cup {None}
      BY <1>10, FindType DEF FindConnectRequest, TypeOK
    <2> QED BY <1>10, <2>1 DEF FindConnectRequest, TypeOK, dongle, fetch, timing
  <1>11. CASE GetEventDisconnect
    <2>1. Get("EVENT_DISCONNECT")
      BY <1>11 DEF GetEventDisconnect
    <2>2. CASE inConnection
      <3>1. opened \in Nat /\ connectEventPacketCounterValue = PacketCounter(opened)
        BY <2>2 DEF BooksInv, TypeOK
      <3>2. connectEventPacketCounterValue \in Int /\ PacketCounter(first) \in Int
        BY <1>a, <2>1, <3>1, Remainders
      <3>3. packetsInLastConnection' \in Int /\ inConnection' = FALSE /\ closed' \in Nat
        BY <1>11, <1>a, <2>1, <2>2, <3>2 DEF GetEventDisconnect
      <3> QED BY ZenonT(60), <1>11, <1>a, <2>1, <3>3 DEF GetEventDisconnect, TypeOK, fetch, timing
    <2>3. CASE ~inConnection
      BY <1>11, <1>a, <2>1, <2>3 DEF GetEventDisconnect, TypeOK, fetch, timing
    <2> QED BY <2>2, <2>3
  <1>12. ASSUME NEW k \in Numbers, GetPackets(k) PROVE TypeOK'
    <2>1. SliceTo(buffer, k) \in Seq(Nat)
      <3>1. k \in Int
        BY CollectorAssumption
      <3> QED BY <3>1, SliceType DEF TypeOK
    <2>2. returnList' \in Seq(Nat) /\ number' \in Numbers /\ lock' = TRUE
      BY <1>12, <2>1 DEF GetPackets
    <2>3. UNCHANGED <<dongle, packet, thread, buffer, books, timing, arrived, handed, cut>>
      BY <1>12 DEF GetPackets
    <2> QED BY <2>2, <2>3 DEF TypeOK, dongle, books, timing
  <1>13. CASE GetPacketsReturn
    <2>1. SliceFrom(buffer, number) \in Seq(Nat)
      <3>1. number \in Int
        BY CollectorAssumption DEF TypeOK
      <3> QED BY <3>1, SliceType DEF TypeOK
    <2>2. Elements(returnList) \subseteq Nat
      <3>1. \A j \in DOMAIN returnList : returnList[j] \in Nat
        BY LenProperties, ElementOfSeq DEF TypeOK
      <3> QED BY <3>1 DEF Elements
    <2>3. handed' \subseteq Nat /\ returnList' \in Seq(Nat)
      BY <1>13, <2>2, EmptySeq DEF GetPacketsReturn, TypeOK
    <2>4. buffer' \in Seq(Nat) /\ number' \in Numbers \cup {0} /\ lock' \in BOOLEAN
      BY <1>13, <2>1 DEF GetPacketsReturn
    <2>5. UNCHANGED <<dongle, packet, thread, books, timing, arrived, cut>>
      BY <1>13 DEF GetPacketsReturn
    <2> QED BY <2>3, <2>4, <2>5 DEF TypeOK, dongle, books, timing
  <1>14. CASE UNCHANGED vars
    BY <1>14 DEF vars, TypeOK
  <1> QED BY <1>1, <1>2, <1>3, <1>4, <1>5, <1>6, <1>7, <1>8, <1>9, <1>10, <1>11, <1>12,
             <1>13, <1>14 DEF Next

(* The order of the packets is preserved.                                  *)
LEMMA StillLine ==
  ASSUME LineInv, UNCHANGED <<line, sent>>, Received' \subseteq Received
  PROVE  LineInv'
  BY DEF LineInv

LEMMA NextLine ==
  ASSUME IInv, [Next]_vars
  PROVE  LineInv'
  <1> USE DEF IInv
  <1>1. CASE Sniff
    BY <1>1, TransmitLine, EventsSent DEF Sniff
  <1>2. CASE Answer
    BY <1>2, TransmitLine, EventsSent DEF Answer
  <1>3. CASE Connect
    BY <1>3, TransmitLine, EventsSent DEF Connect
  <1>4. CASE Disconnect
    BY <1>4, TransmitLine, EventsSent DEF Disconnect
  <1>5. CASE Lose
    <2>1. PICK i \in DOMAIN line : line' = Without(line, i)
      BY <1>5 DEF Lose, Without
    <2>2. sent' = sent /\ Received' \subseteq Received
      BY <1>5 DEF Lose, Received, timing
    <2> QED BY <2>1, <2>2, LoseLine
  <1>6. ASSUME NEW id, Get(id), Received' \subseteq Received \cup {Head(line).n}
        PROVE  LineInv'
    <2>1. line # <<>> /\ line' = Tail(line) /\ sent' = sent
      BY <1>6 DEF Get
    <2> QED BY <1>6, <2>1, GetLine
  <1>7. CASE GetRespTimestamp
    BY <1>6, <1>7 DEF GetRespTimestamp, Get, Received
  <1>8. CASE GetEventPacket
    BY <1>6, <1>8 DEF GetEventPacket, Get, Received, timing
  <1>9. CASE GetEventConnect
    BY <1>6, <1>9 DEF GetEventConnect, Get, Received, timing
  <1>10. CASE GetEventDisconnect
    BY <1>6, <1>10 DEF GetEventDisconnect, Get, Received, timing
  <1>11. CASE AppendPacket
    BY <1>11, StillLine DEF AppendPacket, Received, dongle, timing
  <1>12. CASE FindConnectRequest
    BY <1>12, StillLine DEF FindConnectRequest, Received, dongle, timing
  <1>13. ASSUME NEW k \in Numbers, GetPackets(k) PROVE LineInv'
    BY <1>13, StillLine DEF GetPackets, Received, dongle, timing
  <1>14. CASE GetPacketsReturn
    BY <1>14, StillLine DEF GetPacketsReturn, Received, dongle, timing
  <1>15. CASE UNCHANGED vars
    BY <1>15, StillLine DEF vars, Received
  <1> QED BY <1>1, <1>2, <1>3, <1>4, <1>5, <1>7, <1>8, <1>9, <1>10, <1>11, <1>12,
             <1>13, <1>14, <1>15 DEF Next

(* What is known of the packet being worked on is preserved.               *)
LEMMA NextPacket ==
  ASSUME IInv, [Next]_vars
  PROVE  PacketInv'
  <1> USE DEF IInv
  <1> DEFINE first == Head(line).n
  <1>1. ASSUME NEW id, Get(id), arrived' = arrived, packet' = first
        PROVE  packet' \in Nat /\ \A m \in arrived' : m < packet'
    <2>1. line # <<>>
      BY <1>1 DEF Get
    <2> QED BY <1>1, <2>1, HeadLater DEF Received
  <1>2. CASE GetEventPacket
    BY <1>1, <1>2 DEF GetEventPacket, PacketInv
  <1>3. CASE GetEventConnect
    BY <1>1, <1>3 DEF GetEventConnect, PacketInv
  <1>4. CASE AppendPacket \/ FindConnectRequest
    BY <1>4 DEF AppendPacket, FindConnectRequest, PacketInv
  <1>5. CASE UNCHANGED <<packet, thread, arrived, connectEventPacketCounterValue>>
    BY <1>5 DEF PacketInv
  <1>6. CASE Sniff \/ Answer \/ Connect \/ Disconnect
    BY <1>5, <1>6 DEF Sniff, Answer, Connect, Disconnect, Transmit, books
  <1>7. CASE Lose \/ GetRespTimestamp \/ GetEventDisconnect \/ GetPacketsReturn
    BY <1>5, <1>7 DEF Lose, GetRespTimestamp, GetEventDisconnect, GetPacketsReturn, books
  <1>8. ASSUME NEW k \in Numbers, GetPackets(k) PROVE PacketInv'
    BY <1>5, <1>8 DEF GetPackets, books
  <1>9. CASE UNCHANGED vars
    BY <1>5, <1>9 DEF vars
  <1> QED BY <1>2, <1>3, <1>4, <1>6, <1>7, <1>8, <1>9 DEF Next

(* The reference of the packet times is preserved.                         *)
LEMMA NextReference ==
  ASSUME IInv, [Next]_vars
  PROVE  ReferenceInv'
  <1> USE DEF IInv
  <1> DEFINE first == Head(line).n
  <1>1. CASE GetRespTimestamp
    <2>1. line # <<>>
      BY <1>1 DEF GetRespTimestamp, Get
    <2>2. first \in Nat /\ sent \in Nat /\ sent # None
      BY <2>1, HeadLater, CollectorAssumption DEF TypeOK
    <2> HIDE DEF first
    <2>3. last_time' = sent /\ stamped' = first /\ offset' = sent - first
          /\ last_timestamp' = Timestamp(first)
      BY <1>1 DEF GetRespTimestamp, first
    <2>4. last_time' = stamped' + offset'
      BY <2>2, <2>3
    <2> QED BY <2>2, <2>3, <2>4 DEF ReferenceInv, Timestamp
  <1>2. CASE GetEventPacket
    <2>1. line # <<>>
      BY <1>2 DEF GetEventPacket, Get
    <2>2. first \in Nat /\ stamped < first
      BY <2>1, HeadLater DEF Received
    <2> HIDE DEF first
    <2>3. CASE last_time = None
      BY <1>2, <2>3 DEF GetEventPacket, ReferenceInv, timing, Timestamp
    <2>4. CASE last_time # None
      <3>1. /\ last_time' = last_time + TimeDiff(Timestamp(first))
            /\ last_timestamp' = Timestamp(first) /\ stamped' = first /\ offset' = offset
            /\ gapless' = (gapless /\ first - stamped < TimerPeriod)
        BY <1>2, <2>4 DEF GetEventPacket, first
      <3>2. last_timestamp' = Timestamp(stamped')
        BY <3>1
      <3>3. ASSUME gapless' PROVE last_time' # None /\ last_time' = stamped' + offset'
        <4>1. gapless /\ first - stamped < TimerPeriod
          BY <3>1, <3>3
        <4>2. /\ last_time = stamped + offset /\ last_timestamp = Timestamp(stamped)
              /\ stamped \in Nat /\ offset \in Nat
          BY <2>4, <4>1 DEF ReferenceInv, TypeOK
        <4>3. TimeDiff(Timestamp(first)) = first - stamped
          BY <2>2, <4>1, <4>2, TimeDiffExact
        <4>4. last_time' = first + offset /\ last_time' \in Int
          BY <2>2, <3>1, <4>2, <4>3
        <4> QED BY <3>1, <4>4, CollectorAssumption
      <3> QED BY <3>2, <3>3 DEF ReferenceInv, Timestamp
    <2> QED BY <2>3, <2>4
  <1>3. CASE UNCHANGED timing
    BY <1>3 DEF ReferenceInv, timing, Timestamp
  <1>4. CASE Sniff \/ Answer \/ Connect \/ Disconnect \/ Lose
    BY <1>3, <1>4 DEF Sniff, Answer, Connect, Disconnect, Transmit, Lose
  <1>5. CASE AppendPacket \/ GetEventConnect \/ FindConnectRequest \/ GetEventDisconnect
             \/ GetPacketsReturn
    BY <1>3, <1>5 DEF AppendPacket, GetEventConnect, FindConnectRequest, GetEventDisconnect,
                     GetPacketsReturn
  <1>6. ASSUME NEW k \in Numbers, GetPackets(k) PROVE ReferenceInv'
    BY <1>3, <1>6 DEF GetPackets
  <1>7. CASE UNCHANGED vars
    BY <1>3, <1>7 DEF vars, timing
  <1> QED BY <1>1, <1>2, <1>4, <1>5, <1>6, <1>7 DEF Next

(* The buffer: the packets in front of a cut leave it, a packet that is    *)
(* appended is later than all others.                                      *)
LEMMA NextFetch ==
  ASSUME IInv, [Next]_vars
  PROVE  FetchInv'
  <1> USE DEF IInv
  <1>0. arrived \subseteq Nat /\ handed \subseteq Nat /\ cut \subseteq Nat /\ buffer \in Seq(Nat)
    BY DEF TypeOK
  <1>1. CASE AppendPacket
    <2> DEFINE kept == IF Len(buffer) > Limit THEN SubSeq(buffer, Cut + 1, Len(buffer)) ELSE buffer
    <2>1. /\ buffer' = Append(kept, packet)
          /\ cut' = cut \cup (Elements(buffer) \ Elements(kept))
          /\ arrived' = arrived \cup {packet} /\ handed' = handed /\ lock' = FALSE
      BY <1>1 DEF AppendPacket, fetch, TypeOK
    <2>2. packet \in Nat /\ \A m \in arrived : m < packet
      BY <1>1 DEF AppendPacket, PacketInv
    <2>3. PICK A : /\ kept \in Seq(Nat)
                   /\ Elements(buffer) = A \cup Elements(kept)
                   /\ Increasing(kept)
                   /\ \A m \in A, n \in Elements(kept) : m < n
      <3>1. CASE Len(buffer) > Limit
        <4>1. Cut \in 0..Len(buffer)
          <5>1. Len(buffer) \in Nat
            BY <1>0, LenProperties
          <5> QED BY <3>1, <5>1, CollectorAssumption
        <4>2. kept = SubSeq(buffer, Cut + 1, Len(buffer))
          BY <3>1
        <4>3. buffer \in Seq(Nat) /\ Increasing(buffer)
          BY <1>0 DEF FetchInv, FetchedOnceInOrder
        <4> HIDE DEF kept
        <4> QED BY <4>1, <4>2, <4>3, SplitParts
      <3>2. CASE ~(Len(buffer) > Limit)
        <4>1. kept = buffer
          BY <3>2
        <4>2. buffer \in Seq(Nat) /\ Increasing(buffer)
          BY <1>0 DEF FetchInv, FetchedOnceInOrder
        <4> HIDE DEF kept
        <4>3. PICK A : A = {}
          OBVIOUS
        <4>4. Elements(buffer) = A \cup Elements(kept) /\ \A m \in A, n \in Elements(kept) : m < n
          BY <4>1, <4>3
        <4> QED BY <4>1, <4>2, <4>4
      <3> QED BY <3>1, <3>2
    <2> HIDE DEF kept
    <2>4. /\ arrived = handed \cup cut \cup Elements(buffer)
          /\ \A n \in Elements(buffer), m \in handed \cup cut : m < n
          /\ handed \cap cut = {}
      BY DEF FetchInv, FetchedOnceInOrder
    <2>5. A \subseteq Nat /\ Elements(kept) \subseteq Nat
      BY <1>0, <2>3, <2>4
    <2>6. cut' = cut \cup A
      BY <2>1, <2>3, <2>5
    <2>7. \A m \in Elements(kept) : m < packet
      BY <2>2, <2>3, <2>4
    <2>8. Elements(buffer') = Elements(kept) \cup {packet} /\ Increasing(buffer')
      BY <2>1, <2>2, <2>3, <2>7, AppendLater
    <2>9. arrived' = handed' \cup cut' \cup Elements(buffer')
      BY <2>1, <2>3, <2>4, <2>6, <2>8
    <2>10. \A n \in Elements(buffer'), m \in handed' \cup cut' : m < n
      BY <2>1, <2>2, <2>3, <2>4, <2>6, <2>8
    <2>11. handed' \cap cut' = {}
      <3>1. \A m \in A : m \notin handed
        BY <1>0, <2>3, <2>4
      <3> QED BY <2>1, <2>4, <2>6, <3>1
    <2>12. FetchedOnceInOrder'
      BY <2>8, <2>9, <2>10, <2>11 DEF FetchedOnceInOrder, Elements, Increasing
    <2> QED BY <2>1, <2>12 DEF FetchInv
  <1>2. ASSUME NEW k \in Numbers, GetPackets(k) PROVE FetchInv'
    BY <1>2 DEF GetPackets, FetchInv, FetchedOnceInOrder, Elements, Increasing, SliceTo, SliceEnd
  <1>3. CASE GetPacketsReturn
    <2> DEFINE e == SliceEnd(buffer, number)
    <2>1. number \in Int
      BY CollectorAssumption DEF TypeOK
    <2>2. e \in 0..Len(buffer)
      BY <1>0, <2>1, SliceEndBound
    <2>3. returnList = SubSeq(buffer, 1, e) /\ buffer' = SubSeq(buffer, e + 1, Len(buffer))
      BY <1>3 DEF GetPacketsReturn, FetchInv, SliceTo, SliceFrom
    <2> HIDE DEF e
    <2> DEFINE A == Elements(returnList)
               B == Elements(buffer')
    <2>4. /\ Elements(buffer) = A \cup B
          /\ Increasing(buffer')
          /\ \A m \in A, n \in B : m < n
      <3>1. Increasing(buffer)
        BY DEF FetchInv, FetchedOnceInOrder
      <3>2. buffer \in Seq(Nat)
        BY <1>0
      <3> QED BY <2>2, <2>3, <3>1, <3>2, SplitParts
    <2>5. /\ arrived = handed \cup cut \cup Elements(buffer)
          /\ \A n \in Elements(buffer), m \in handed \cup cut : m < n
          /\ handed \cap cut = {}
      BY DEF FetchInv, FetchedOnceInOrder
    <2>6. handed' = handed \cup A /\ cut' = cut /\ arrived' = arrived /\ lock' = FALSE
      BY <1>3 DEF GetPacketsReturn
    <2>7. /\ Elements(buffer') = B
          /\ Increasing(buffer)' = Increasing(buffer')
      BY DEF Increasing
    <2> HIDE DEF A, B
    <2>8. arrived' = handed' \cup cut' \cup B
      BY <2>4, <2>5, <2>6
    <2>9. \A n \in B, m \in handed' \cup cut' : m < n
      BY <2>4, <2>5, <2>6
    <2>10. handed' \cap cut' = {}
      <3>1. \A m \in A : m \in Nat /\ m \notin cut
        BY <1>0, <2>4, <2>5
      <3> QED BY <2>5, <2>6, <3>1
    <2>11. Elements(buffer)' = B
      BY <2>7 DEF Elements
    <2>12. FetchedOnceInOrder'
      BY <2>4, <2>7, <2>8, <2>9, <2>10, <2>11 DEF FetchedOnceInOrder
    <2> QED BY <2>6, <2>12 DEF FetchInv
  <1>4. CASE UNCHANGED <<buffer, arrived, cut, fetch>>
    BY <1>4 DEF FetchInv, FetchedOnceInOrder, Elements, Increasing, SliceTo, SliceEnd, fetch
  <1>5. CASE Sniff \/ Answer \/ Connect \/ Disconnect \/ Lose
    BY <1>4, <1>5 DEF Sniff, Answer, Connect, Disconnect, Transmit, Lose
  <1>6. CASE GetRespTimestamp \/ GetEventPacket \/ GetEventConnect \/ FindConnectRequest
             \/ GetEventDisconnect
    BY <1>4, <1>6 DEF GetRespTimestamp, GetEventPacket, GetEventConnect, FindConnectRequest,
                     GetEventDisconnect
  <1>7. CASE UNCHANGED vars
    BY <1>4, <1>7 DEF vars, fetch
  <1> QED BY <1>1, <1>2, <1>3, <1>5, <1>6, <1>7 DEF Next

(* What the host knows of the connection is preserved.                     *)
LEMMA NextEvent ==
  ASSUME IInv, [Next]_vars
  PROVE  EventInv'
  <1> USE DEF IInv
  <1>1. CASE Sniff \/ Answer
    <2>1. PICK ids \in {<<"EVENT_PACKET">>, <<"RESP_TIMESTAMP">>} :
             Transmit(ids) /\ UNCHANGED <<linked, eventLost>>
      BY <1>1 DEF Sniff, Answer
    <2>2. ids \in Seq(IDs)
      BY <2>1, EventsSent
    <2>3. \A k \in DOMAIN ids : ids[k] \notin Events
      BY DEF Events
    <2> QED BY <2>1, <2>2, <2>3, TransmitPlain
  <1>2. CASE Connect
    <2> DEFINE ids == <<"EVENT_PACKET", "EVENT_CONNECT">>
    <2>1. ids \in Seq(IDs) /\ Transmit(ids) /\ linked' = TRUE
      BY <1>2, EventsSent DEF Connect
    <2>2. ids # <<>> /\ ids[Len(ids)] = "EVENT_CONNECT"
      OBVIOUS
    <2> HIDE DEF ids
    <2>3. ids[Len(ids)] \in Events /\ linked' = (ids[Len(ids)] = "EVENT_CONNECT")
      BY <2>1, <2>2 DEF Events
    <2> QED BY <2>1, <2>2, <2>3, TransmitEvent
  <1>3. CASE Disconnect
    <2> DEFINE ids == <<"EVENT_DISCONNECT">>
    <2>1. ids \in Seq(IDs) /\ Transmit(ids) /\ linked' = FALSE
      BY <1>3, EventsSent DEF Disconnect
    <2>2. ids # <<>> /\ ids[Len(ids)] = "EVENT_DISCONNECT"
      OBVIOUS
    <2> HIDE DEF ids
    <2>3. ids[Len(ids)] \in Events /\ linked' = (ids[Len(ids)] = "EVENT_CONNECT")
      BY <2>1, <2>2 DEF Events
    <2> QED BY <2>1, <2>2, <2>3, TransmitEvent
  <1>4. CASE Lose
    <2>1. PICK i \in DOMAIN line :
             /\ line' = Without(line, i)
             /\ eventLost' = \/ eventLost
                             \/ /\ line[i].id \in Events
                                /\ \A j \in (i + 1)..Len(line) : line[j].id \notin Events
      BY <1>4 DEF Lose, Without
    <2>2. UNCHANGED <<linked, inConnection>>
      BY <1>4 DEF Lose, books
    <2>3. DOMAIN line = 1..Len(line) /\ Len(line) \in Nat
      BY LineType
    <2>4. \A j \in (i + 1)..Len(line) : j \in DOMAIN line /\ i < j
      BY <2>3
    <2>5. ~eventLost' => ~eventLost /\ ~LastEvent(i)
      BY <2>1, <2>4 DEF LastEvent
    <2> QED BY <2>1, <2>2, <2>5, LoseEvent
  <1>5. ASSUME NEW id, Get(id),
               inConnection' = IF id \in Events THEN (id = "EVENT_CONNECT") ELSE inConnection
        PROVE  EventInv'
    <2>1. line # <<>> /\ Head(line).id = id /\ line' = Tail(line) /\ UNCHANGED <<linked, eventLost>>
      BY <1>5 DEF Get
    <2> QED BY <1>5, <2>1, GetEvent
  <1>6. CASE GetRespTimestamp
    BY <1>5, <1>6 DEF GetRespTimestamp, books, Events
  <1>7. CASE GetEventPacket
    BY <1>5, <1>7 DEF GetEventPacket, books, Events
  <1>8. CASE GetEventConnect
    BY <1>5, <1>8 DEF GetEventConnect, Events
  <1>9. CASE GetEventDisconnect
    <2>1. inConnection' = FALSE
      BY <1>9 DEF GetEventDisconnect, TypeOK
    <2> QED BY <1>5, <1>9, <2>1 DEF GetEventDisconnect, Events
  <1>10. CASE UNCHANGED <<line, linked, eventLost, inConnection>>
    BY <1>10 DEF EventInv, LastEvent
  <1>11. CASE AppendPacket \/ FindConnectRequest \/ GetPacketsReturn
    BY <1>10, <1>11 DEF AppendPacket, FindConnectRequest, GetPacketsReturn, dongle, books
  <1>12. ASSUME NEW k \in Numbers, GetPackets(k) PROVE EventInv'
    BY <1>10, <1>12 DEF GetPackets, dongle, books
  <1>13. CASE UNCHANGED vars
    BY <1>10, <1>13 DEF vars
  <1> QED BY <1>1, <1>2, <1>3, <1>4, <1>6, <1>7, <1>8, <1>9, <1>11, <1>12, <1>13 DEF Next

(* The books about the connection are preserved.                           *)
LEMMA NextBooks ==
  ASSUME IInv, [Next]_vars
  PROVE  BooksInv'
  <1> USE DEF IInv
  <1> DEFINE first == Head(line).n
  <1>1. CASE GetEventConnect
    <2>1. first # None
      BY <1>1, HeadLater DEF GetEventConnect, Get
    <2> QED BY <1>1, <2>1 DEF GetEventConnect, BooksInv, PacketCounter
  <1>2. CASE GetEventDisconnect
    <2>1. first # None
      BY <1>2, HeadLater DEF GetEventDisconnect, Get
    <2>2. CASE inConnection
      BY <1>2, <2>1, <2>2 DEF GetEventDisconnect, BooksInv, PacketCounter
    <2>3. CASE ~inConnection
      BY <1>2, <2>3 DEF GetEventDisconnect, BooksInv, PacketCounter
    <2> QED BY <2>2, <2>3
  <1>3. CASE UNCHANGED <<connectEventPacketCounterValue, inConnection, packetsInLastConnection,
                         opened, closed>>
    BY <1>3 DEF BooksInv, PacketCounter
  <1>4. CASE FindConnectRequest
    BY <1>3, <1>4 DEF FindConnectRequest
  <1>5. CASE Sniff \/ Answer \/ Connect \/ Disconnect \/ Lose
    BY <1>3, <1>5 DEF Sniff, Answer, Connect, Disconnect, Transmit, Lose, books
  <1>6. CASE GetRespTimestamp \/ GetEventPacket \/ AppendPacket \/ GetPacketsReturn
    BY <1>3, <1>6 DEF GetRespTimestamp, GetEventPacket, AppendPacket, GetPacketsReturn, books
  <1>7. ASSUME NEW k \in Numbers, GetPackets(k) PROVE BooksInv'
    BY <1>3, <1>7 DEF GetPackets, books
  <1>8. CASE UNCHANGED vars
    BY <1>3, <1>8 DEF vars
  <1> QED BY <1>1, <1>2, <1>4, <1>5, <1>6, <1>7, <1>8 DEF Next

(* The inductive invariant, for any number of packets.                     *)
THEOREM CollectorInvariant == Spec => []IInv
  <1>1. IInv /\ [Next]_vars => IInv'
    <2> SUFFICES ASSUME IInv, [Next]_vars PROVE IInv'
      OBVIOUS
    <2>1. TypeOK' /\ LineInv' /\ PacketInv' /\ ReferenceInv' /\ FetchInv' /\ EventInv' /\ BooksInv'
      BY NextType, NextLine, NextPacket, NextReference, NextFetch, NextEvent, NextBooks
    <2> QED BY <2>1 DEF IInv
  <1> QED BY InitIInv, <1>1, PTL DEF Spec
-----------------------------------------------------------------------------
(* Types are kept (SnifferCollector.py).                                   *)
THEOREM CollectorTypeOK == Spec => []TypeOK
  <1>1. IInv => TypeOK
    BY DEF IInv
  <1> QED BY <1>1, CollectorInvariant, PTL

(* getPackets: the packets are fetched in order, each at most once.        *)
THEOREM CollectorFetchedOnceInOrder == Spec => []FetchedOnceInOrder
  <1>1. IInv => FetchedOnceInOrder
    BY DEF IInv, FetchInv
  <1> QED BY <1>1, CollectorInvariant, PTL

(* _continuouslyPipe: the last event received decides, whatever was lost   *)
(* before it.                                                              *)
THEOREM CollectorInConnectionTracked == Spec => []InConnectionTracked
  <1>1. IInv => InConnectionTracked
    BY DEF IInv, EventInv, InConnectionTracked
  <1> QED BY <1>1, CollectorInvariant, PTL

(* Packet times: the distance to the dongle's time does not change over    *)
(* overflows of its timer.                                                 *)
THEOREM CollectorTimeExact == Spec => []TimeExact
  <1>1. IInv => TimeExact
    BY DEF IInv, ReferenceInv, TimeExact
  <1> QED BY <1>1, CollectorInvariant, PTL

(* The number of packets of a connection is right but for a multiple of    *)
(* PACKET_COUNTER_CAP.                                                     *)
THEOREM CollectorPacketsInLastConnectionCounts == Spec => []PacketsInLastConnectionCounts
  <1>1. IInv => PacketsInLastConnectionCounts
    <2> SUFFICES ASSUME IInv, packetsInLastConnection # None, ~inConnection
                 PROVE  /\ (closed - opened - packetsInLastConnection) % PACKET_COUNTER_CAP = 0
                        /\ opened \div PACKET_COUNTER_CAP = closed \div PACKET_COUNTER_CAP
                             => packetsInLastConnection = closed - opened
      BY DEF PacketsInLastConnectionCounts
    <2> DEFINE C == PACKET_COUNTER_CAP
    <2>1. C \in Nat \ {0}
      BY CollectorAssumption
    <2>2. /\ opened \in Nat /\ closed \in Nat
          /\ packetsInLastConnection = (closed % C) - (opened % C)
      BY DEF IInv, BooksInv, TypeOK, PacketCounter
    <2>3. PICK q1 \in Int, r1 \in Int : /\ q1 = closed \div C /\ r1 = (closed % C)
                                        /\ closed = C * q1 + r1
      <3>1. closed \div C \in Int /\ (closed % C) \in Int
            /\ closed = C * (closed \div C) + (closed % C)
        BY <2>1, <2>2
      <3> QED BY <3>1
    <2>4. PICK q0 \in Int, r0 \in Int : /\ q0 = opened \div C /\ r0 = (opened % C)
                                        /\ opened = C * q0 + r0
      <3>1. opened \div C \in Int /\ (opened % C) \in Int
            /\ opened = C * (opened \div C) + (opened % C)
        BY <2>1, <2>2
      <3> QED BY <3>1
    <2> HIDE DEF C
    <2>5. PICK p \in Int : p = q1 - q0
      OBVIOUS
    <2>6. C * p = C * q1 - C * q0 /\ C * q1 \in Int /\ C * q0 \in Int /\ C * p \in Int
      BY <2>1, <2>5
    <2>7. closed - opened - packetsInLastConnection = C * p
      <3> DEFINE x1 == C * q1
                 x0 == C * q0
                 x == C * p
      <3>1. x1 \in Int /\ x0 \in Int /\ x = x1 - x0 /\ closed = x1 + r1 /\ opened = x0 + r0
            /\ packetsInLastConnection = r1 - r0
        BY <2>2, <2>3, <2>4, <2>6
      <3> HIDE DEF x, x1, x0
      <3>2. closed - opened - packetsInLastConnection = x
        BY <3>1
      <3> QED BY <3>2 DEF x
    <2>8. ((C * p) % C) = 0
      BY <2>1, Divided
    <2>9. ASSUME q0 = q1 PROVE packetsInLastConnection = closed - opened
      <3>1. C * p = 0
        BY <2>1, <2>5, <2>9
      <3>2. closed - opened - packetsInLastConnection = 0
        BY <2>7, <3>1
      <3>3. packetsInLastConnection \in Int
        BY <2>2, <2>3, <2>4
      <3> QED BY <2>2, <3>2, <3>3
    <2> QED BY <2>3, <2>4, <2>7, <2>8, <2>9 DEF C
  <1> QED BY <1>1, CollectorInvariant, PTL

(* The connect request found at an EVENT_CONNECT is the newest one with    *)
(* its counter.                                                            *)
THEOREM CollectorConnectRequestNewest == Spec => ConnectRequestNewest
  <1> DEFINE Found == (thread = "find" /\ thread' # "find" /\ connectEventPacketCounterValue > 0
                         /\ packet - 1 \in Elements(buffer))
                        => currentConnectRequest' = packet - 1
  <1>1. IInv /\ [Next]_vars => [Found]_vars
    <2> SUFFICES ASSUME IInv, Next, thread = "find", thread' # "find",
                        connectEventPacketCounterValue > 0, packet - 1 \in Elements(buffer)
                 PROVE  currentConnectRequest' = packet - 1
      BY DEF vars
    <2>1. FindConnectRequest
      BY DEF Next, Sniff, Answer, Connect, Disconnect, Transmit, Lose, GetRespTimestamp, Get,
             GetEventPacket, AppendPacket, GetEventConnect, GetEventDisconnect, GetPackets,
             GetPacketsReturn
    <2>2. /\ packet \in Nat /\ connectEventPacketCounterValue = PacketCounter(packet)
          /\ \A m \in Elements(buffer) : m < packet
      BY DEF IInv, PacketInv, FetchInv, FetchedOnceInOrder
    <2>3. DOMAIN buffer = 1..Len(buffer) /\ Len(buffer) \in Nat
          /\ \A i \in DOMAIN buffer : buffer[i] \in Nat
      BY LenProperties, ElementOfSeq DEF IInv, TypeOK
    <2>4. PICK l \in DOMAIN buffer : buffer[l] = packet - 1
      BY DEF Elements
    (* It is the last one of the buffer. *)
    <2>5. ASSUME NEW j \in DOMAIN buffer PROVE j <= l
      <3>1. buffer[j] \in Elements(buffer)
        BY DEF Elements
      <3>2. ~(packet - 1 < buffer[j])
        BY <2>2, <2>3, <3>1
      <3>3. ~(l < j)
        BY <2>4, <3>2 DEF IInv, FetchInv, FetchedOnceInOrder, Increasing
      <3> QED BY <2>3, <3>3
    <2> DEFINE value == connectEventPacketCounterValue - 1
    <2>6. PacketCounter(packet - 1) = value
      BY <2>2, <2>3, <2>4, Previous
    <2>7. l \in Matches(value)
      BY <2>4, <2>6 DEF Matches
    <2>8. \A j \in Matches(value) : j \in DOMAIN buffer
      BY DEF Matches
    <2> DEFINE Last(i) == \A j \in Matches(value) : j <= i
    <2>9. \A i \in Matches(value) : Last(i) <=> i = l
      <3>1. \A i \in Matches(value) : Last(i) => l <= i
        BY <2>7
      <3>2. Last(l)
        BY <2>5, <2>8
      <3>3. \A i \in Matches(value) : i <= l /\ i \in Nat
        BY <2>3, <2>5, <2>8
      <3> HIDE DEF Last
      <3> QED BY <2>3, <3>1, <3>2, <3>3
    <2>10. (CHOOSE i \in Matches(value) : Last(i)) = l
      <3> HIDE DEF Last
      <3> QED BY <2>7, <2>9
    <2>11. FindPacketByPacketCounter(value) = buffer[l]
      BY <2>7, <2>10 DEF FindPacketByPacketCounter
    <2> QED BY <2>1, <2>4, <2>11 DEF FindConnectRequest
  <1>2. Spec => [][Found]_vars
    BY CollectorInvariant, <1>1, PTL DEF Spec
  <1> QED BY <1>2 DEF ConnectRequestNewest
-----------------------------------------------------------------------------
(* The refinement of PacketQueue, one lemma per step that touches the      *)
(* buffer.  remaining is the queue: what the call under way leaves.        *)
remaining == IF lock THEN SliceFrom(buffer, number) ELSE buffer

(* _appendPacket puts a packet that is new.                                *)
LEMMA AppendPuts ==
  ASSUME IInv, AppendPacket
  PROVE  Queue!Put
  <1>1. /\ lock = FALSE /\ lock' = FALSE /\ returnList' = returnList
        /\ arrived' = arrived \cup {packet}
    BY DEF AppendPacket, fetch, IInv, TypeOK
  <1>2. packet \notin arrived
    <2>1. packet \in Nat /\ \A m \in arrived : m < packet
      BY DEF IInv, PacketInv, AppendPacket
    <2> QED BY ONLY <2>1
  <1>3. remaining = buffer /\ remaining' = buffer'
    BY ONLY <1>1 DEF remaining
  <1>4. buffer' = Append(IF Len(buffer) > Limit THEN SubSeq(buffer, Cut + 1, Len(buffer))
                         ELSE buffer, packet)
    BY DEF AppendPacket
  <1>5. buffer' = Append(Queue!Kept, packet)
    BY ONLY <1>1, <1>4 DEF Queue!Kept
  <1>6. packet \in arrived' \ arrived
    BY ONLY <1>1, <1>2
  <1> QED BY ONLY <1>1, <1>3, <1>5, <1>6 DEF Queue!Put, remaining

(* The end of a slice takes as many packets as were asked for, or leaves   *)
(* as many.                                                                *)
LEMMA SliceTaken ==
  ASSUME IInv, NEW k \in Int, lock = FALSE
  PROVE  /\ k >= 0 => Queue!Asked(k, SliceEnd(buffer, k))
         /\ k < 0 => \/ SliceEnd(buffer, k) + -k = Len(buffer)
                     \/ SliceEnd(buffer, k) = 0 /\ Len(buffer) < -k
  <1>1. PICK n : n = Len(buffer)
    OBVIOUS
  <1>2. n \in Nat
    BY <1>1, LenProperties DEF IInv, TypeOK
  <1>3. PICK e : e = SliceEnd(buffer, k)
    OBVIOUS
  <1>4. e = IF k < 0 THEN (IF n + k < 0 THEN 0 ELSE n + k) ELSE IF k > n THEN n ELSE k
    BY ONLY <1>1, <1>3 DEF SliceEnd
  <1>5. k < 0 => e + -k = n \/ (e = 0 /\ n < -k)
    BY ONLY <1>2, <1>4, k \in Int
  <1>6. k >= 0 => e = k \/ (e = n /\ e < k)
    BY ONLY <1>2, <1>4, k \in Int
  <1>7. Len(IF lock THEN SliceFrom(buffer, number) ELSE buffer) = n
    BY ONLY lock = FALSE, <1>1
  <1>8. k >= 0 => Queue!Asked(k, e)
    BY ONLY <1>6, <1>7 DEF Queue!Asked
  <1> QED BY ONLY <1>1, <1>3, <1>5, <1>8

(* getPackets takes its packets with the first slice.                      *)
LEMMA GetPacketsTakes ==
  ASSUME IInv, NEW k \in Numbers, GetPackets(k)
  PROVE  IF k < 0 THEN Queue!TakeAllBut(-k) ELSE Queue!Take(k)
  <1>1. PICK e : e = SliceEnd(buffer, k)
    OBVIOUS
  <1>2. PICK n : n = Len(buffer)
    OBVIOUS
  <1>3. k \in Int
    BY CollectorAssumption
  <1>4. /\ lock = FALSE /\ lock' = TRUE /\ number' = k /\ buffer' = buffer
        /\ arrived' = arrived /\ returnList' = SubSeq(buffer, 1, e)
    BY <1>1 DEF GetPackets, SliceTo, IInv, TypeOK
  <1>5. remaining = buffer
    BY ONLY <1>4 DEF remaining
  <1>6. remaining' = SubSeq(buffer, e + 1, Len(buffer))
    BY ONLY <1>1, <1>4 DEF remaining, SliceFrom, SliceEnd
  <1>7. /\ k >= 0 => Queue!Asked(k, e)
        /\ k < 0 => e + -k = n \/ (e = 0 /\ n < -k)
    BY <1>1, <1>2, <1>3, <1>4, SliceTaken
  <1>8. Queue!TakeOldest(e)
    BY ONLY <1>4, <1>5, <1>6 DEF Queue!TakeOldest, remaining
  <1>9. /\ Len(IF lock THEN SliceFrom(buffer, number) ELSE buffer) = n
        /\ e \in 0..n
    <2>1. e \in 0..n
      BY <1>1, <1>2, <1>3, SliceEndBound DEF IInv, TypeOK
    <2> QED BY ONLY <1>2, <1>4, <2>1
  <1>10. CASE k < 0
    BY ONLY <1>7, <1>8, <1>9, <1>10 DEF Queue!TakeAllBut
  <1>11. CASE ~(k < 0)
    <2>1. Queue!Asked(k, e)
      BY ONLY <1>3, <1>7, <1>11
    <2>2. Queue!Take(k)
      BY ONLY <1>7, <1>8, <1>9, <2>1 DEF Queue!Take
    <2> QED BY ONLY <1>11, <2>2
  <1> QED BY <1>10, <1>11

(* The second slice leaves what the call was going to leave.               *)
LEMMA GetPacketsReturns ==
  ASSUME IInv, GetPacketsReturn
  PROVE  Queue!Return
  <1>1. /\ lock = TRUE /\ lock' = FALSE /\ returnList' = <<>> /\ arrived' = arrived
        /\ buffer' = SliceFrom(buffer, number)
    BY DEF GetPacketsReturn, IInv, TypeOK
  <1>2. remaining' = remaining
    BY ONLY <1>1 DEF remaining
  <1> QED BY ONLY <1>1, <1>2 DEF Queue!Return, remaining

LEMMA QueueStep ==
  IInv /\ [Next]_vars => [Queue!QueueNext \/ LeaveNewest]_(Queue!queueVars)
  <1> SUFFICES ASSUME IInv, [Next]_vars
               PROVE  [Queue!QueueNext \/ LeaveNewest]_(Queue!queueVars)
    OBVIOUS
  <1>1. CASE AppendPacket
    BY <1>1, AppendPuts DEF Queue!QueueNext
  <1>2. ASSUME NEW k \in Numbers, GetPackets(k) PROVE Queue!QueueNext \/ LeaveNewest
    BY <1>2, GetPacketsTakes DEF Queue!QueueNext, LeaveNewest
  <1>3. CASE GetPacketsReturn
    BY <1>3, GetPacketsReturns DEF Queue!QueueNext
  <1>4. CASE UNCHANGED <<arrived, buffer, lock, number, returnList>>
    <2>1. remaining' = remaining
      BY ONLY <1>4 DEF remaining, SliceFrom, SliceEnd
    <2> QED BY ONLY <1>4, <2>1 DEF Queue!queueVars, remaining
  <1>5. CASE Sniff \/ Answer \/ Connect \/ Disconnect \/ Lose
    BY <1>4, <1>5 DEF Sniff, Answer, Connect, Disconnect, Transmit, Lose, fetch
  <1>6. CASE GetRespTimestamp \/ GetEventPacket \/ GetEventConnect \/ FindConnectRequest
             \/ GetEventDisconnect
    BY <1>4, <1>6 DEF GetRespTimestamp, GetEventPacket, GetEventConnect, FindConnectRequest,
                      GetEventDisconnect, fetch
  <1>7. CASE UNCHANGED vars
    BY <1>4, <1>7 DEF vars
  <1> QED BY <1>1, <1>2, <1>3, <1>5, <1>6, <1>7 DEF Next

(* getPackets, _appendPacket: the two threads implement a queue from which *)
(* a call takes the packets it asks for in a single step; but a call with  *)
(* a negative number leaves as many of the newest there, though -1 should  *)
(* mean all.                                                               *)
THEOREM CollectorImplementsQueue == Spec => ImplementsQueue
  <1>1. Init => Queue!QueueInit
    BY DEF Init, Queue!QueueInit
  <1>2. IInv /\ [Next]_vars => [Queue!QueueNext \/ LeaveNewest]_(Queue!queueVars)
    BY QueueStep
  <1> QED
    BY <1>1, <1>2, CollectorInvariant, PTL DEF Spec, ImplementsQueue
=============================================================================
