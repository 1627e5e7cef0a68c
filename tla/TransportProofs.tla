-------------------------- MODULE TransportProofs --------------------------
(***************************************************************************)
(* Proofs about the transport protocol, for any pictures, any page size,   *)
(* any number of identifiers and any network the constants describe.       *)
(***************************************************************************)
EXTENDS TransportProtocol, PageLemmas, SequenceTheorems

---------------------------------------------------------------------------
(* Payloads. *)

LEMMA FcnIsSeq ==
    ASSUME NEW S, NEW n \in Nat, NEW f \in [1..n -> S]
    PROVE  f \in Seq(S) /\ Len(f) = n
<1>1. f \in Seq(S)
  BY SeqDef
<1>2. DOMAIN f = 1..Len(f) /\ Len(f) \in Nat
  BY <1>1, LenProperties
<1> QED
  BY <1>1, <1>2

LEMMA ByteType == Zero \in Bytes /\ \A k, i \in Nat : Byte(k, i) \in Bytes
BY DEF Bytes, Byte, Zero

LEMMA ResizeType ==
    ASSUME NEW v \in Seq(Bytes), NEW n \in Nat
    PROVE  /\ Resize(v, n) \in Seq(Bytes)
           /\ Len(Resize(v, n)) = n
           /\ \A i \in 1..n :
                 Resize(v, n)[i] = IF i <= Len(v) THEN v[i] ELSE Zero
<1>1. Resize(v, n) \in [1..n -> Bytes]
  BY LenProperties, ByteType DEF Resize
<1>2. Resize(v, n) \in Seq(Bytes) /\ Len(Resize(v, n)) = n
  BY <1>1, FcnIsSeq
<1> QED
  BY <1>2 DEF Resize

LEMMA CopyInType ==
    ASSUME NEW v \in Seq(Bytes), NEW o \in Nat, NEW d \in Seq(Bytes)
    PROVE  /\ CopyIn(v, o, d) \in Seq(Bytes)
           /\ Len(CopyIn(v, o, d)) = Len(v)
           /\ \A i \in 1..Len(v) :
                 CopyIn(v, o, d)[i] =
                    IF o < i /\ i <= o + Len(d) THEN d[i - o] ELSE v[i]
<1>1. \A i \in 1..Len(v) : o < i /\ i <= o + Len(d) => i - o \in 1..Len(d)
  BY LenProperties
<1>2. Len(v) \in Nat /\ CopyIn(v, o, d) \in [1..Len(v) -> Bytes]
  BY <1>1, LenProperties DEF CopyIn
<1>3. CopyIn(v, o, d) \in Seq(Bytes) /\ Len(CopyIn(v, o, d)) = Len(v)
  BY <1>2, FcnIsSeq
<1> QED
  BY <1>3 DEF CopyIn

(* Room for a frame shows every frame if it is new, and the frame it       *)
(* showed before if it is not.                                             *)
LEMMA ResizePartialCopy ==
    ASSUME NEW v \in Seq(Bytes), NEW n \in Nat, NEW k, PartialCopy(v, k)
    PROVE  PartialCopy(Resize(v, n), k)
<1> SUFFICES ASSUME NEW i \in 1..n
             PROVE  Resize(v, n)[i] \in {Zero, Byte(k, i)}
  BY ResizeType DEF PartialCopy
<1>1. i <= Len(v) => i \in 1..Len(v)
  BY LenProperties
<1> QED
  BY <1>1, ResizeType DEF PartialCopy

(* Bytes of frame k copied to their own place keep a payload that shows k. *)
LEMMA CopyInPartialCopy ==
    ASSUME NEW v \in Seq(Bytes), NEW o \in Nat, NEW d \in Seq(Bytes), NEW k,
           PartialCopy(v, k),
           \A j \in 1..Len(d) : d[j] = Byte(k, o + j)
    PROVE  PartialCopy(CopyIn(v, o, d), k)
<1> SUFFICES ASSUME NEW i \in 1..Len(v)
             PROVE  CopyIn(v, o, d)[i] \in {Zero, Byte(k, i)}
  BY CopyInType DEF PartialCopy
<1>1. CASE o < i /\ i <= o + Len(d)
  <2>1. i - o \in 1..Len(d) /\ o + (i - o) = i
    BY <1>1
  <2> QED
    BY <1>1, <2>1, CopyInType
<1>2. CASE ~(o < i /\ i <= o + Len(d))
  BY <1>2, CopyInType DEF PartialCopy
<1> QED
  BY <1>1, <1>2
---------------------------------------------------------------------------
(* Headers and packets. *)

LEMMA HeadOfType ==
    ASSUME NEW pic \in Pictures
    PROVE  HeadOf(pic) \in Heads
BY TransportAssumption, DivModDef DEF HeadOf, Heads

LEMMA TargetType ==
    ASSUME NEW h \in Heads
    PROVE  Target(h) \in Nat
<1>1. \A a, b \in Nat : a * b \in Nat
  OBVIOUS
<1> QED
  BY <1>1 DEF Target, Heads

LEMMA PayloadSizeType ==
    ASSUME NEW pic \in Pictures
    PROVE  PayloadSize(pic) \in Nat \ {0}
<1>1. \A a, b \in Nat \ {0} : a * b \in Nat \ {0}
  OBVIOUS
<1> QED
  BY <1>1, TransportAssumption DEF PayloadSize

(* The receiver reads the size of the frame off any header of it. *)
LEMMA TargetFits ==
    ASSUME FramesFit, NEW pic \in Pictures
    PROVE  Target(HeadOf(pic)) = PayloadSize(pic)
<1>1. /\ pic.cols \in 0..(DimMod - 1) /\ pic.rows \in 0..(DimMod - 1)
      /\ pic.pixel \in 0..(DimMod - 1)
  BY TransportAssumption DEF FramesFit
<1>2. /\ HeadOf(pic).image_x_size = pic.cols
      /\ HeadOf(pic).image_y_size = pic.rows
      /\ HeadOf(pic).pixel_size = pic.pixel
  BY <1>1, TransportAssumption, SmallResidue DEF HeadOf
<1>3. \A a, b, c \in Nat : a * b * c = c * a * b
  OBVIOUS
<1> QED
  BY <1>1, <1>2, <1>3, TransportAssumption DEF Target, PayloadSize, HeadOf

LEMMA PageDataType ==
    ASSUME NEW pic \in Pictures, NEW k \in Nat,
           NEW i \in 1..PageCount(PayloadSize(pic), PacketPayload)
    PROVE  LET d == PageData(k, pic, i)
               o == (i - 1) * PacketPayload
           IN /\ o \in Nat
              /\ d \in Seq(Bytes)
              /\ Len(d) > 0
              /\ o + Len(d) <= PayloadSize(pic)
              /\ \A j \in 1..Len(d) : d[j] = Byte(k, o + j)
<1> DEFINE n == PayloadSize(pic)
           o == (i - 1) * PacketPayload
           l == Least(n - o, PacketPayload)
<1>1. n \in Nat \ {0} /\ o \in Nat /\ o < n /\ PacketPayload \in Nat \ {0}
  BY PayloadSizeType, PageStartsInside, TransportAssumption
<1> HIDE DEF n, o
<1>2. l \in Nat \ {0} /\ o + l <= n
  BY <1>1 DEF Least
<1> HIDE DEF l
<1>3. [j \in 1..l |-> Byte(k, o + j)] \in [1..l -> Bytes]
  BY <1>1, <1>2, ByteType
<1>4. PageData(k, pic, i) = [j \in 1..l |-> Byte(k, o + j)]
  BY DEF PageData, n, o, l
<1>5. PageData(k, pic, i) \in Seq(Bytes) /\ Len(PageData(k, pic, i)) = l
  BY <1>2, <1>3, <1>4, FcnIsSeq
<1> QED
  BY <1>1, <1>2, <1>4, <1>5 DEF n, o

(* p is a packet make_packets cuts for frame k, picture pic. *)
PieceOf(p, k, id, pic) ==
    /\ p.frame = k
    /\ p.frame_id = id
    /\ p.head = HeadOf(pic)
    /\ Len(p.data) > 0
    /\ p.offset + Len(p.data) <= PayloadSize(pic)
    /\ \A j \in 1..Len(p.data) : p.data[j] = Byte(k, p.offset + j)

LEMMA MakePacketsType ==
    ASSUME NEW pic \in Pictures, NEW k \in Nat, NEW id \in FrameIds
    PROVE  /\ MakePackets(id, k, pic) \in Seq(Packets)
           /\ \A i \in 1..Len(MakePackets(id, k, pic)) :
                 PieceOf(MakePackets(id, k, pic)[i], k, id, pic)
<1> DEFINE c == PageCount(PayloadSize(pic), PacketPayload)
           m == MakePackets(id, k, pic)
           o(i) == (i - 1) * PacketPayload
           d(i) == PageData(k, pic, i)
<1>1. c \in Nat
  BY PayloadSizeType, PageCountZero, TransportAssumption
<1>2. \A i \in 1..c :
         /\ o(i) \in Nat /\ d(i) \in Seq(Bytes) /\ Len(d(i)) > 0
         /\ o(i) + Len(d(i)) <= PayloadSize(pic)
         /\ \A j \in 1..Len(d(i)) : d(i)[j] = Byte(k, o(i) + j)
  BY PageDataType
<1>3. HeadOf(pic) \in Heads
  BY HeadOfType
<1>4. m = [i \in 1..c |-> [frame |-> k, frame_id |-> id, head |-> HeadOf(pic),
                           offset |-> o(i), data |-> d(i)]]
  BY DEF MakePackets
<1> HIDE DEF c, o, d, m
<1>5. m \in [1..c -> Packets]
  BY <1>2, <1>3, <1>4 DEF Packets
<1>6. m \in Seq(Packets) /\ Len(m) = c
  BY <1>1, <1>5, FcnIsSeq
<1> QED
  <2>1. \A i \in 1..c : m[i] = [frame |-> k, frame_id |-> id, head |-> HeadOf(pic),
                                offset |-> o(i), data |-> d(i)]
    BY <1>4
  <2>2. \A i \in 1..c :
           /\ m[i].frame = k /\ m[i].frame_id = id /\ m[i].head = HeadOf(pic)
           /\ m[i].offset = o(i) /\ m[i].data = d(i)
    <3> TAKE i \in 1..c
    <3>1. m[i] = [frame |-> k, frame_id |-> id, head |-> HeadOf(pic),
                  offset |-> o(i), data |-> d(i)]
      BY <2>1
    <3> QED
      BY <3>1
  <2>3. \A i \in 1..c : PieceOf(m[i], k, id, pic)
    BY <1>2, <2>2 DEF PieceOf
  <2> QED
    BY <1>6, <2>3 DEF m
---------------------------------------------------------------------------
(* What one datagram does to the receiver, with no more assumed of it than *)
(* that it carries a piece of some frame.                                  *)

LEMMA OldFrames ==
    ASSUME TypeOK, NEW pic \in Pictures, sent' = Append(sent, pic)
    PROVE  /\ sent' \in Seq(Pictures)
           /\ Len(sent) \in Nat
           /\ Len(sent') = Len(sent) + 1
           /\ sent'[Len(sent) + 1] = pic
           /\ \A k \in 1..Len(sent) : sent'[k] = sent[k]
BY DEF TypeOK

LEMMA FromFrameStays ==
    ASSUME TypeOK, NEW pic \in Pictures, sent' = Append(sent, pic),
           NEW p, FromFrame(p)
    PROVE  FromFrame(p)'
<1>1. p.frame \in 1..Len(sent') /\ sent'[p.frame] = sent[p.frame]
  BY OldFrames DEF FromFrame
<1> QED
  BY <1>1 DEF FromFrame

LEMMA InNet ==
    ASSUME SizesInv, NEW d \in net
    PROVE  d.packet \in Packets /\ FromFrame(d.packet)
BY DEF SizesInv, TypeOK, PacketsFromFrames

LEMMA PacketsFields ==
    ASSUME NEW p \in Packets
    PROVE  /\ p.frame \in Nat /\ p.frame_id \in FrameIds /\ p.head \in Heads
           /\ p.offset \in Nat /\ p.data \in Seq(Bytes) /\ Len(p.data) \in Nat
BY LenProperties DEF Packets

LEMMA RxFields ==
    ASSUME TypeOK
    PROVE  /\ rx.frame_id \in FrameIds /\ rx.head \in Heads
           /\ rx.payload \in Seq(Bytes)
BY DEF TypeOK

LEMMA RoomType ==
    ASSUME TypeOK, NEW p \in Packets
    PROVE  /\ Target(p.head) \in Nat
           /\ Room(p) \in Seq(Bytes)
           /\ Len(Room(p)) = Target(p.head)
<1>1. Target(p.head) \in Nat
  BY PacketsFields, TargetType
<1>2. <<>> \in Seq(Bytes)
  BY EmptySeq
<1> QED
  BY <1>1, <1>2, RxFields, ResizeType DEF Room

(* The datagram fits the room made for its frame: no exception. *)
LEMMA NeverThrown ==
    ASSUME SizesInv, FramesFit, NEW d \in net
    PROVE  Outcome(d.packet) # "thrown"
<1> DEFINE p == d.packet
<1>1. p \in Packets /\ FromFrame(p)
  BY InNet
<1>2. sent[p.frame] \in Pictures
  BY <1>1 DEF SizesInv, TypeOK, FromFrame
<1>3. Target(p.head) = PayloadSize(sent[p.frame])
  BY <1>1, <1>2, TargetFits DEF FromFrame
<1>4. PayloadSize(sent[p.frame]) \in Nat \ {0}
  BY <1>2, PayloadSizeType
<1>5. Len(p.data) > 0 /\ p.offset + Len(p.data) <= Target(p.head)
  BY <1>1, <1>3 DEF FromFrame
<1> HIDE DEF p
<1>6. Target(p.head) \in Nat /\ p.offset \in Nat /\ Len(p.data) \in Nat
  BY <1>1, <1>3, <1>4, PacketsFields
<1>7. ~(Len(p.data) <= 0 \/ Target(p.head) - p.offset <= 0
          \/ Target(p.head) - p.offset < Len(p.data))
  BY <1>5, <1>6
<1>8. Outcome(p) # "thrown"
  BY <1>7 DEF Outcome
<1> QED
  BY <1>8 DEF p

LEMMA ReceiveType ==
    ASSUME SizesInv, NEW d \in net, ReceivePacket(d)
    PROVE  TypeOK'
<1> DEFINE p == d.packet
<1>1. p \in Packets /\ FromFrame(p)
  BY InNet
<1> HIDE DEF p
<1>2. ReceivePacket(d) /\ d.packet = p
  BY DEF p
<1>3. TypeOK
  BY DEF SizesInv
<1>4. Room(p) \in Seq(Bytes) /\ Target(p.head) \in Nat
  BY <1>1, <1>3, RoomType
<1>5. net' \subseteq [copy : Nat, packet : Packets]
  BY <1>2, <1>3 DEF ReceivePacket, TypeOK
<1>6. rx' \in [frame_id : FrameIds, head : Heads, payload : Seq(Bytes)]
  <2>1. CopyIn(Room(p), p.offset, p.data) \in Seq(Bytes)
    BY <1>1, <1>4, PacketsFields, CopyInType
  <2> QED
    BY <1>1, <1>2, <1>3, <1>4, <2>1, RxFields, PacketsFields DEF ReceivePacket
<1>7. volume' \in Int
  BY <1>1, <1>2, <1>3, PacketsFields DEF ReceivePacket, VolumeAfter, TypeOK
<1>8. fifo' \in Seq(ReadyFrames)
  <2>1. ReadyFrame(p) \in ReadyFrames
    <3>1. Integrity(p) \in [got : Int, of : Nat]
      BY <1>1, <1>3, <1>4, PacketsFields DEF Integrity, TypeOK
    <3>2. cur \in Nat /\ zeroed \in BOOLEAN
      BY <1>3, LenProperties DEF TypeOK
    <3> QED
      BY <1>3, <3>1, <3>2, RxFields DEF ReadyFrame, ReadyFrames
  <2>2. fifo \in Seq(ReadyFrames)
    BY <1>3 DEF TypeOK
  <2>3. Append(fifo, ReadyFrame(p)) \in Seq(ReadyFrames)
    BY <2>1, <2>2
  <2> QED
    BY <1>2, <2>2, <2>3 DEF ReceivePacket
<1>9. cur' \in 0..Len(sent')
  BY <1>1, <1>2, <1>3 DEF ReceivePacket, TypeOK, FromFrame, tx_vars
<1>10. alive' \in BOOLEAN /\ zeroed' \in BOOLEAN /\ confused' \in BOOLEAN
  BY <1>2, <1>3 DEF ReceivePacket, TypeOK, Emits
<1>11. UNCHANGED <<sent, frame_counter, packs, shown>>
  BY <1>2 DEF ReceivePacket, tx_vars
<1> QED
  BY <1>3, <1>5, <1>6, <1>7, <1>8, <1>9, <1>10, <1>11 DEF TypeOK

LEMMA ReceiveRx ==
    ASSUME SizesInv, NEW d \in net, ReceivePacket(d)
    PROVE  RxDescribesCur'
<1> DEFINE p == d.packet
<1>1. p \in Packets /\ FromFrame(p)
  BY InNet
<1> HIDE DEF p
<1>2. ReceivePacket(d) /\ d.packet = p
  BY DEF p
<1>3. /\ Room(p) \in Seq(Bytes) /\ Target(p.head) \in Nat
      /\ Len(Room(p)) = Target(p.head)
  BY <1>1, RoomType DEF SizesInv
<1>4. sent' = sent
  BY <1>2 DEF ReceivePacket, tx_vars
<1>5. CASE Outcome(p) = "copied"
  <2>1. Len(CopyIn(Room(p), p.offset, p.data)) = Target(p.head)
    BY <1>1, <1>3, PacketsFields, CopyInType
  <2>2. rx'.head = p.head /\ Len(rx'.payload) = Target(p.head) /\ cur' = p.frame
    BY <1>2, <1>5, <2>1 DEF ReceivePacket
  <2> QED
    BY <1>1, <1>4, <2>2 DEF RxDescribesCur, FromFrame
<1>6. CASE Outcome(p) = "empty"
  <2>1. Target(p.head) = 0
    BY <1>6 DEF Outcome
  <2>2. rx'.payload = Room(p)
    BY <1>2, <1>6 DEF ReceivePacket
  <2>3. rx'.payload = <<>>
    BY <1>3, <2>1, <2>2, EmptySeq
  <2> QED
    BY <2>3 DEF RxDescribesCur
<1>7. CASE Outcome(p) = "thrown"
  <2>1. ~alive'
    BY <1>2, <1>7 DEF ReceivePacket
  <2> QED
    BY <2>1 DEF RxDescribesCur
<1> QED
  BY <1>5, <1>6, <1>7 DEF Outcome

(* The frame handed over is the one that was in rx. *)
LEMMA ReceiveFifo ==
    ASSUME SizesInv, NEW d \in net, ReceivePacket(d)
    PROVE  \/ fifo' = fifo
           \/ /\ alive /\ Emits(d.packet) /\ Outcome(d.packet) = "copied"
              /\ fifo' = Append(fifo, ReadyFrame(d.packet))
              /\ Len(fifo') = Len(fifo) + 1
              /\ \A i \in 1..Len(fifo) : fifo'[i] = fifo[i]
              /\ fifo'[Len(fifo) + 1] = ReadyFrame(d.packet)
<1>1. fifo \in Seq(ReadyFrames) /\ Len(fifo) \in Nat
  BY LenProperties DEF SizesInv, TypeOK
<1>2. \/ fifo' = fifo
      \/ /\ alive /\ Emits(d.packet) /\ Outcome(d.packet) = "copied"
         /\ fifo' = Append(fifo, ReadyFrame(d.packet))
  BY DEF ReceivePacket
<1>3. CASE fifo' = Append(fifo, ReadyFrame(d.packet))
  <2> DEFINE v == ReadyFrame(d.packet)
  <2> HIDE DEF v
  <2>1. fifo' = Append(fifo, v)
    BY <1>3 DEF v
  <2>2. /\ Len(fifo') = Len(fifo) + 1
        /\ \A i \in 1..Len(fifo) : fifo'[i] = fifo[i]
        /\ fifo'[Len(fifo) + 1] = v
    BY <1>1, <2>1
  <2> QED
    BY <1>2, <2>2 DEF v
<1> QED
  BY <1>2, <1>3

LEMMA ReceiveFifoDescribes ==
    ASSUME SizesInv, NEW d \in net, ReceivePacket(d)
    PROVE  FifoDescribesSource'
<1> DEFINE p == d.packet
<1>1. sent' = sent
  BY DEF ReceivePacket, tx_vars
<1>2. CASE fifo' = fifo
  BY <1>1, <1>2 DEF SizesInv, FifoDescribesSource
<1>3. CASE /\ alive /\ Emits(p)
           /\ Len(fifo') = Len(fifo) + 1
           /\ \A i \in 1..Len(fifo) : fifo'[i] = fifo[i]
           /\ fifo'[Len(fifo) + 1] = ReadyFrame(p)
  <2>1. /\ cur \in 1..Len(sent) /\ rx.head = HeadOf(sent[cur])
        /\ Len(rx.payload) = Target(rx.head)
    BY <1>3 DEF SizesInv, RxDescribesCur, Emits
  <2>2. /\ ReadyFrame(p).src = cur /\ ReadyFrame(p).head = rx.head
        /\ ReadyFrame(p).payload = rx.payload
    BY DEF ReadyFrame
  <2>3. Len(fifo) \in Nat
    BY LenProperties DEF SizesInv, TypeOK
  <2> SUFFICES ASSUME NEW i \in 1..Len(fifo')
               PROVE  /\ fifo'[i].src \in 1..Len(sent')
                      /\ fifo'[i].head = HeadOf(sent'[fifo'[i].src])
                      /\ Len(fifo'[i].payload) = Target(fifo'[i].head)
    BY DEF FifoDescribesSource
  <2>4. CASE i \in 1..Len(fifo)
    BY <1>1, <1>3, <2>4 DEF SizesInv, FifoDescribesSource
  <2>5. CASE i = Len(fifo) + 1
    BY <1>1, <1>3, <2>1, <2>2, <2>5
  <2> QED
    BY <1>3, <2>3, <2>4, <2>5
<1> QED
  BY <1>2, <1>3, ReceiveFifo

LEMMA ReceiveSizes ==
    ASSUME SizesInv, NEW d \in net, ReceivePacket(d)
    PROVE  SizesInv'
<1>1. UNCHANGED <<sent, packs>> /\ net' \subseteq net
  BY DEF ReceivePacket, tx_vars
<1>2. PacketsFromFrames'
  BY <1>1 DEF SizesInv, PacketsFromFrames, FromFrame
<1>3. ReceiverSurvives'
  BY NeverThrown DEF ReceivePacket, ReceiverSurvives, FramesFit
<1> QED
  BY <1>2, <1>3, ReceiveType, ReceiveRx, ReceiveFifoDescribes DEF SizesInv
---------------------------------------------------------------------------
(* The other steps, and the invariant of the sizes.                        *)

LEMMA SendFrameSizes ==
    ASSUME SizesInv, NEW pic \in Pictures, SendFrame(pic)
    PROVE  SizesInv'
<1> DEFINE k == Len(sent) + 1
           m == MakePackets(frame_counter, k, pic)
<1>1. TypeOK
  BY DEF SizesInv
<1>2. sent' = Append(sent, pic) /\ packs' = m
  BY DEF SendFrame
<1>3. UNCHANGED <<net, rx, volume, fifo, alive, cur, zeroed, confused, shown>>
  BY DEF SendFrame, rx_vars
<1>4. /\ sent' \in Seq(Pictures) /\ Len(sent) \in Nat /\ Len(sent') = k /\ sent'[k] = pic
      /\ \A j \in 1..Len(sent) : sent'[j] = sent[j]
  BY <1>1, <1>2, OldFrames
<1>5. frame_counter \in FrameIds /\ k \in Nat
  BY <1>1, <1>4 DEF TypeOK
<1> HIDE DEF k
<1>6. m \in Seq(Packets) /\ \A i \in 1..Len(m) : PieceOf(m[i], k, frame_counter, pic)
  BY <1>5, MakePacketsType
<1> HIDE DEF m
<1>7. TypeOK'
  <2>1. frame_counter' \in FrameIds
    BY <1>5, TransportAssumption, DivModDef DEF SendFrame, NextId, FrameIds
  <2>2. Len(sent') = Len(sent) + 1
    BY <1>4 DEF k
  <2>3. 1..Len(sent) \subseteq 1..Len(sent') /\ cur \in 0..Len(sent')
    BY <1>1, <1>4, <2>2 DEF TypeOK
  <2>4. shown \in Seq(1..Len(sent'))
    BY <1>1, <2>3, SeqMonotonic DEF TypeOK
  <2> QED
    BY <1>1, <1>2, <1>3, <1>4, <1>6, <2>1, <2>3, <2>4 DEF TypeOK
<1>8. PacketsFromFrames'
  <2>1. ASSUME NEW p, NEW i \in 1..Len(m), p = m[i]
        PROVE  FromFrame(p)' /\ p.frame = Len(sent')
    <3>1. k \in 1..Len(sent')
      BY <1>4, <1>5 DEF k
    <3>2. PieceOf(p, k, frame_counter, pic)
      BY <1>6, <2>1
    <3> QED
      BY <1>4, <3>1, <3>2 DEF FromFrame, PieceOf
  <2>2. ASSUME NEW d \in net
        PROVE  FromFrame(d.packet)'
    BY <1>1, <1>2, FromFrameStays DEF SizesInv, PacketsFromFrames
  <2> QED
    BY <1>2, <1>3, <2>1, <2>2 DEF PacketsFromFrames, FromFrame
<1>9. RxDescribesCur'
  BY <1>3, <1>4, <1>5 DEF SizesInv, RxDescribesCur, k
<1>10. FifoDescribesSource'
  BY <1>3, <1>4, <1>5 DEF SizesInv, FifoDescribesSource, k
<1>11. ReceiverSurvives'
  BY <1>3 DEF SizesInv, ReceiverSurvives, FramesFit
<1> QED
  BY <1>7, <1>8, <1>9, <1>10, <1>11 DEF SizesInv

LEMMA SendPacketFacts ==
    ASSUME SizesInv, NEW n \in Copies, SendPacket(n)
    PROVE  /\ packs' \in Seq(Packets)
           /\ Len(packs) \in Nat \ {0} /\ Len(packs') = Len(packs) - 1
           /\ \A i \in 1..Len(packs') : i + 1 \in 1..Len(packs) /\ packs'[i] = packs[i + 1]
           /\ packs[1] \in Packets
           /\ \A d \in net' : \/ d \in net
                              \/ d \in [copy : Nat, packet : {packs[1]}]
<1>1. packs \in Seq(Packets) /\ packs # <<>> /\ packs' = Tail(packs)
  BY DEF SendPacket, SizesInv, TypeOK
<1>2. Head(packs) = packs[1] /\ packs[1] \in Packets /\ Len(packs) \in Nat \ {0}
  BY <1>1
<1>3. net' = net \cup {[copy |-> c, packet |-> packs[1]] : c \in 1..n}
  BY <1>2 DEF SendPacket
<1>4. n \in Nat
  BY TransportAssumption
<1> QED
  BY <1>1, <1>2, <1>3, <1>4

LEMMA SendPacketSizes ==
    ASSUME SizesInv, NEW n \in Copies, SendPacket(n)
    PROVE  SizesInv'
<1>1. UNCHANGED <<sent, frame_counter, rx, volume, fifo, alive, cur, zeroed, confused, shown>>
  BY DEF SendPacket, rx_vars
<1>2. TypeOK'
  <2>1. net' \subseteq [copy : Nat, packet : Packets]
    <3> SUFFICES ASSUME NEW d \in net'
                 PROVE  d \in [copy : Nat, packet : Packets]
      OBVIOUS
    <3>1. CASE d \in net
      BY <3>1 DEF SizesInv, TypeOK
    <3>2. CASE d \in [copy : Nat, packet : {packs[1]}]
      BY <3>2, SendPacketFacts
    <3> QED
      BY <3>1, <3>2, SendPacketFacts
  <2> QED
    BY <1>1, <2>1, SendPacketFacts DEF SizesInv, TypeOK
<1>3. PacketsFromFrames'
  <2>1. \A i \in 1..Len(packs) : FromFrame(packs[i]) /\ packs[i].frame = Len(sent)
    BY DEF SizesInv, PacketsFromFrames
  <2>2. \A i \in 1..Len(packs') : FromFrame(packs'[i]) /\ packs'[i].frame = Len(sent)
    BY <2>1, SendPacketFacts
  <2>3. \A d \in net' : FromFrame(d.packet)
    <3> TAKE d \in net'
    <3>1. 1 \in 1..Len(packs)
      BY SendPacketFacts
    <3>2. CASE d \in net
      BY <3>2 DEF SizesInv, PacketsFromFrames
    <3>3. CASE d \in [copy : Nat, packet : {packs[1]}]
      BY <2>1, <3>1, <3>3
    <3> QED
      BY <3>2, <3>3, SendPacketFacts
  <2> QED
    BY <1>1, <2>2, <2>3 DEF PacketsFromFrames, FromFrame
<1> QED
  BY <1>1, <1>2, <1>3
  DEF SizesInv, RxDescribesCur, FifoDescribesSource, ReceiverSurvives, FramesFit

LEMMA ReadFrameFacts ==
    ASSUME SizesInv, ReadFrame
    PROVE  /\ Len(fifo) \in Nat \ {0} /\ Len(fifo') = Len(fifo) - 1
           /\ fifo' \in Seq(ReadyFrames)
           /\ \A i \in 1..Len(fifo') : i + 1 \in 1..Len(fifo) /\ fifo'[i] = fifo[i + 1]
           /\ fifo[1].src \in 1..Len(sent)
           /\ shown' \in Seq(1..Len(sent)) /\ Len(shown) \in Nat
           /\ Len(shown') = Len(shown) + 1
           /\ \A i \in 1..Len(shown) : shown'[i] = shown[i]
           /\ shown'[Len(shown) + 1] = fifo[1].src
<1>1. fifo \in Seq(ReadyFrames) /\ fifo # <<>> /\ fifo' = Tail(fifo)
  BY DEF ReadFrame, SizesInv, TypeOK
<1>2. Head(fifo) = fifo[1] /\ Len(fifo) \in Nat \ {0} /\ 1 \in 1..Len(fifo)
  BY <1>1
<1>3. fifo[1].src \in 1..Len(sent)
  BY <1>2 DEF SizesInv, FifoDescribesSource
<1>4. shown \in Seq(1..Len(sent)) /\ shown' = Append(shown, fifo[1].src)
  BY <1>2 DEF ReadFrame, SizesInv, TypeOK
<1>5. /\ shown' \in Seq(1..Len(sent)) /\ Len(shown) \in Nat
      /\ Len(shown') = Len(shown) + 1
      /\ \A i \in 1..Len(shown) : shown'[i] = shown[i]
      /\ shown'[Len(shown) + 1] = fifo[1].src
  BY <1>3, <1>4
<1> QED
  BY <1>1, <1>2, <1>3, <1>5

LEMMA ReadFrameSizes ==
    ASSUME SizesInv, ReadFrame
    PROVE  SizesInv'
<1>1. UNCHANGED <<sent, frame_counter, packs, net, rx, volume, alive, cur, zeroed, confused>>
  BY DEF ReadFrame, tx_vars
<1>2. TypeOK'
  BY <1>1, ReadFrameFacts DEF SizesInv, TypeOK
<1>3. FifoDescribesSource'
  BY <1>1, ReadFrameFacts DEF SizesInv, FifoDescribesSource
<1> QED
  BY <1>1, <1>2, <1>3
  DEF SizesInv, PacketsFromFrames, FromFrame, RxDescribesCur, ReceiverSurvives, FramesFit

LEMMA RestartServerSizes ==
    ASSUME SizesInv, RestartServer
    PROVE  SizesInv'
<1>1. UNCHANGED <<sent, net, rx, volume, fifo, alive, cur, zeroed, confused, shown>>
  BY DEF RestartServer, rx_vars
<1>2. packs' = <<>> /\ packs' \in Seq(Packets) /\ Len(packs') = 0 /\ frame_counter' \in FrameIds
  BY EmptySeq DEF RestartServer
<1>3. TypeOK'
  BY <1>1, <1>2 DEF SizesInv, TypeOK
<1>4. PacketsFromFrames'
  BY <1>1, <1>2 DEF SizesInv, PacketsFromFrames, FromFrame
<1> QED
  BY <1>1, <1>3, <1>4
  DEF SizesInv, RxDescribesCur, FifoDescribesSource, ReceiverSurvives, FramesFit

LEMMA StutterSizes ==
    ASSUME SizesInv, UNCHANGED vars
    PROVE  SizesInv'
<1>1. UNCHANGED <<sent, frame_counter, packs, net, rx, volume, fifo, alive, cur,
                  zeroed, confused, shown>>
  BY DEF vars, tx_vars, rx_vars
<1> QED
  BY <1>1 DEF SizesInv, TypeOK, PacketsFromFrames, FromFrame, RxDescribesCur,
              FifoDescribesSource, ReceiverSurvives, FramesFit

LEMMA InitSizes == Init => SizesInv
<1> SUFFICES ASSUME Init PROVE SizesInv
  OBVIOUS
<1>1. /\ sent = <<>> /\ packs = <<>> /\ fifo = <<>> /\ shown = <<>>
      /\ net = {} /\ rx.payload = <<>> /\ alive /\ cur = 0
  BY DEF Init
<1>2. \A S : <<>> \in Seq(S) /\ Len(<<>>) = 0
  BY EmptySeq
<1>3. rx.frame_id \in FrameIds /\ rx.head \in Heads
  BY DEF Init, Heads
<1>4. TypeOK
  <2>1. rx \in [frame_id : FrameIds, head : Heads, payload : Seq(Bytes)]
    BY <1>1, <1>2, <1>3 DEF Init
  <2>2. Len(sent) = 0 /\ cur \in 0..Len(sent)
    BY <1>1, <1>2
  <2>3. /\ sent \in Seq(Pictures) /\ packs \in Seq(Packets)
        /\ fifo \in Seq(ReadyFrames) /\ shown \in Seq(1..Len(sent))
    BY <1>1, <1>2
  <2>4. net \subseteq [copy : Nat, packet : Packets]
    BY <1>1
  <2>5. /\ volume \in Int /\ frame_counter \in FrameIds
        /\ alive \in BOOLEAN /\ zeroed \in BOOLEAN /\ confused \in BOOLEAN
    BY TransportAssumption DEF Init
  <2> QED
    BY <2>1, <2>2, <2>3, <2>4, <2>5 DEF TypeOK
<1>5. PacketsFromFrames /\ RxDescribesCur /\ FifoDescribesSource /\ ReceiverSurvives
  BY <1>1, <1>2
  DEF PacketsFromFrames, RxDescribesCur, FifoDescribesSource, ReceiverSurvives
<1> QED
  BY <1>4, <1>5 DEF SizesInv

LEMMA NextSizes == SizesInv /\ [Next]_vars => SizesInv'
<1> SUFFICES ASSUME SizesInv, [Next]_vars
             PROVE  SizesInv'
  OBVIOUS
<1>1. ASSUME NEW pic \in Pictures, SendFrame(pic)
      PROVE  SizesInv'
  BY <1>1, SendFrameSizes
<1>2. ASSUME NEW n \in Copies, SendPacket(n)
      PROVE  SizesInv'
  BY <1>2, SendPacketSizes
<1>3. ASSUME NEW d \in net, ReceivePacket(d)
      PROVE  SizesInv'
  BY <1>3, ReceiveSizes
<1>4. CASE ReadFrame
  BY <1>4, ReadFrameSizes
<1>5. CASE UNCHANGED vars
  BY <1>5, StutterSizes
<1> QED
  BY <1>1, <1>2, <1>3, <1>4, <1>5 DEF Next

LEMMA StepSizes == SizesInv /\ [Next \/ RestartServer]_vars => SizesInv'
BY NextSizes, RestartServerSizes

(* The specification without restarts is a special case of the one with    *)
(* them, so what is proved below of RestartSpec holds of both.             *)
THEOREM RestartsAllowed == Spec => RestartSpec
<1>1. [Next]_vars => [Next \/ RestartServer]_vars
  OBVIOUS
<1> QED
  BY <1>1, PTL DEF Spec, RestartSpec

(* Whatever is lost, doubled, reordered or restarted: a frame handed to    *)
(* ReadFrame has the bytes its dimensions promise (Manager::handle_packet, *)
(* VideoReceiver::ReadFrame).                                              *)
THEOREM SizesUnderRestart == RestartSpec => []GeometryMatchesPayload
<1>1. SizesInv => GeometryMatchesPayload
  BY DEF SizesInv, FifoDescribesSource, GeometryMatchesPayload
<1> QED
  BY InitSizes, StepSizes, <1>1, PTL DEF RestartSpec

(* Nor does any datagram of a frame that fits the header end the reader    *)
(* thread with an exception (Manager::handle_packet).                      *)
THEOREM ReaderNeverThrows == RestartSpec => []ReceiverSurvives
<1>1. SizesInv => ReceiverSurvives
  BY DEF SizesInv
<1> QED
  BY InitSizes, StepSizes, <1>1, PTL DEF RestartSpec

(* Buffers, packets and waiting frames stay what they are declared to be   *)
(* (VideoStreamer, Manager, VideoReceiver).                                *)
THEOREM TypeCorrect == RestartSpec => []TypeOK
<1>1. SizesInv => TypeOK
  BY DEF SizesInv
<1> QED
  BY InitSizes, StepSizes, <1>1, PTL DEF RestartSpec
---------------------------------------------------------------------------
(* What a datagram tells the receiver by its identifier.                   *)

(* A datagram with the identifier of the frame in rx belongs to it, unless *)
(* the receiver is confused.                                               *)
LEMMA KeptIsSameFrame ==
    ASSUME NEW d \in net, ReceivePacket(d), ~confused',
           rx.payload # <<>>, ~Emits(d.packet)
    PROVE  d.packet.frame = cur
<1>1. ~Mistaken(d.packet)
  BY DEF ReceivePacket
<1> QED
  BY <1>1 DEF Mistaken, Emits

(* Room for a frame that is new shows any frame; room that is kept belongs *)
(* to the frame of the datagram, unless the receiver is confused.            *)
LEMMA RoomShows ==
    ASSUME ContentsInv, NEW d \in net, ReceivePacket(d), ~confused'
    PROVE  PartialCopy(Room(d.packet), d.packet.frame)
<1> DEFINE p == d.packet
<1>1. p \in Packets /\ FromFrame(p)
  BY InNet DEF ContentsInv
<1>2. rx.payload \in Seq(Bytes) /\ Target(p.head) \in Nat
  BY <1>1, RxFields, RoomType DEF ContentsInv, SizesInv
<1>3. CASE rx.payload = <<>> \/ Emits(p)
  <2>1. Room(p) = Resize(<<>>, Target(p.head))
    BY <1>3 DEF Room
  <2>2. PartialCopy(<<>>, p.frame) /\ <<>> \in Seq(Bytes)
    BY EmptySeq DEF PartialCopy
  <2> QED
    BY <1>2, <2>1, <2>2, ResizePartialCopy
<1>4. CASE rx.payload # <<>> /\ ~Emits(p)
  <2>1. cur = p.frame /\ alive /\ ~confused
    BY <1>4, KeptIsSameFrame DEF ReceivePacket
  <2>2. PartialCopy(rx.payload, p.frame)
    BY <1>4, <2>1 DEF ContentsInv, RxShowsCur
  <2>3. Room(p) = Resize(rx.payload, Target(p.head))
    BY <1>4 DEF Room
  <2> QED
    BY <1>2, <2>2, <2>3, ResizePartialCopy
<1> QED
  BY <1>3, <1>4

(* A datagram that completes a frame belongs to another one. *)
LEMMA EmitsOther ==
    ASSUME ContentsInv, NEW d \in net, alive, Emits(d.packet)
    PROVE  d.packet.frame # cur
<1>1. d.packet \in Pending /\ rx.payload # <<>> /\ d.packet.frame_id # rx.frame_id
  BY DEF Pending, Emits
<1> QED
  BY <1>1 DEF ContentsInv, OneIdPerFrame

(* Steps that bring no new packet and leave the receiver's frame alone.    *)
LEMMA OneIdStays ==
    ASSUME OneIdPerFrame, Pending' \subseteq Pending, UNCHANGED <<rx, alive, cur>>
    PROVE  OneIdPerFrame'
BY DEF OneIdPerFrame

(* A frame that is left in rx is the one of the datagram. *)
LEMMA ReceiveCurrent ==
    ASSUME SizesInv, NEW d \in net, ReceivePacket(d), alive', rx'.payload # <<>>
    PROVE  rx'.frame_id = d.packet.frame_id /\ cur' = d.packet.frame
<1> DEFINE p == d.packet
<1>1. p \in Packets
  BY InNet
<1>2. Outcome(p) = "copied" \/ Outcome(p) = "empty" \/ Outcome(p) = "thrown"
  BY DEF Outcome
<1>3. Outcome(p) # "thrown"
  BY DEF ReceivePacket
<1>4. Outcome(p) # "empty"
  <2> SUFFICES ASSUME Outcome(p) = "empty" PROVE FALSE
    OBVIOUS
  <2>1. rx'.payload = Room(p)
    BY DEF ReceivePacket
  <2>2. Target(p.head) = 0
    BY DEF Outcome
  <2> QED
    BY <1>1, <2>1, <2>2, RoomType, EmptySeq DEF SizesInv
<1>5. Outcome(p) = "copied"
  BY <1>2, <1>3, <1>4
<1> QED
  BY <1>5 DEF ReceivePacket

(* SendFrame adds packets of the new frame only. *)
LEMMA SendFramePending ==
    ASSUME SizesInv, NEW pic \in Pictures, SendFrame(pic)
    PROVE  \A p \in Pending' :
              \/ p \in Pending /\ p.frame < Len(sent) + 1
              \/ p.frame = Len(sent) + 1 /\ p.frame_id = frame_counter
<1> DEFINE k == Len(sent) + 1
<1>1. UNCHANGED <<net, rx_vars>>
  BY DEF SendFrame
<1>2. /\ k \in Nat \ {0} /\ packs' = MakePackets(frame_counter, k, pic)
      /\ frame_counter \in FrameIds
  BY LenProperties DEF SendFrame, SizesInv, TypeOK
<1> HIDE DEF k
<1>3. \A i \in 1..Len(packs') : PieceOf(packs'[i], k, frame_counter, pic)
  BY <1>2, MakePacketsType
<1> SUFFICES ASSUME NEW p \in Pending'
             PROVE  \/ p \in Pending /\ p.frame < k
                    \/ p.frame = k /\ p.frame_id = frame_counter
  BY DEF k
<1>4. CASE \E d \in net : p = d.packet
  <2>1. p \in Pending /\ FromFrame(p)
    BY <1>4, InNet DEF Pending
  <2>2. p.frame \in 1..Len(sent) /\ Len(sent) \in Nat
    BY <2>1, LenProperties DEF FromFrame, SizesInv, TypeOK
  <2> QED
    BY <2>1, <2>2 DEF k
<1>5. CASE \E i \in 1..Len(packs') : p = packs'[i]
  BY <1>3, <1>5 DEF PieceOf
<1> QED
  BY <1>1, <1>4, <1>5 DEF Pending
LEMMA ReceiveContents ==
    ASSUME ContentsInv, NEW d \in net, ReceivePacket(d)
    PROVE  ContentsInv'
<1> DEFINE p == d.packet
<1>1. SizesInv /\ SizesInv'
  BY ReceiveSizes DEF ContentsInv
<1>2. p \in Packets /\ FromFrame(p) /\ p.frame \in Nat
  BY <1>1, InNet, PacketsFields
<1>3. UNCHANGED <<sent, frame_counter, packs, shown>> /\ net' \subseteq net /\ alive
  BY DEF ReceivePacket, tx_vars
<1>4. Outcome(p) = "copied" \/ Outcome(p) = "empty" \/ Outcome(p) = "thrown"
  BY DEF Outcome
<1>5. Outcome(p) = "copied" =>
         /\ rx'.frame_id = p.frame_id
         /\ rx'.payload = CopyIn(Room(p), p.offset, p.data)
         /\ cur' = p.frame
  BY DEF ReceivePacket
<1>6. Outcome(p) = "empty" => rx'.payload = <<>>
  <2> SUFFICES ASSUME Outcome(p) = "empty" PROVE rx'.payload = <<>>
    OBVIOUS
  <2>1. rx'.payload = Room(p)
    BY DEF ReceivePacket
  <2>2. Target(p.head) = 0
    BY DEF Outcome
  <2> QED
    BY <1>1, <1>2, <2>1, <2>2, RoomType, EmptySeq DEF SizesInv
<1>7. Outcome(p) = "thrown" => ~alive'
  BY DEF ReceivePacket
<1>8. Outcome(p) # "copied" => cur' = cur
  BY DEF ReceivePacket
<1>9. \/ fifo' = fifo
      \/ /\ Emits(p) /\ Outcome(p) = "copied"
         /\ Len(fifo') = Len(fifo) + 1
         /\ \A i \in 1..Len(fifo) : fifo'[i] = fifo[i]
         /\ fifo'[Len(fifo) + 1].src = cur
         /\ fifo'[Len(fifo) + 1].payload = rx.payload
  <2>1. ReadyFrame(p).src = cur /\ ReadyFrame(p).payload = rx.payload
    BY DEF ReadyFrame
  <2> QED
    BY <1>1, <2>1, ReceiveFifo
<1>10. Len(fifo) \in Nat /\ Len(shown) \in Nat /\ cur \in Nat
  BY <1>1, LenProperties DEF SizesInv, TypeOK
<1>11. OneIdPerFrame'
  <2>1. p \in Pending /\ Pending' \subseteq Pending
    BY <1>3 DEF Pending
  <2>2. alive' /\ rx'.payload # <<>> => rx'.frame_id = p.frame_id /\ cur' = p.frame
    BY <1>1, ReceiveCurrent
  <2> QED
    BY <2>1, <2>2 DEF ContentsInv, OneIdPerFrame
<1>12. RxShowsCur'
  <2> SUFFICES ASSUME alive', ~confused', rx'.payload # <<>>
               PROVE  PartialCopy(rx'.payload, cur')
    BY DEF RxShowsCur
  <2>1. Outcome(p) = "copied"
    BY <1>4, <1>6, <1>7
  <2>2. PartialCopy(Room(p), p.frame)
    BY RoomShows
  <2>3. Room(p) \in Seq(Bytes) /\ p.offset \in Nat /\ p.data \in Seq(Bytes)
    BY <1>1, <1>2, RoomType, PacketsFields DEF SizesInv
  <2>4. \A j \in 1..Len(p.data) : p.data[j] = Byte(p.frame, p.offset + j)
    BY <1>2 DEF FromFrame
  <2>5. PartialCopy(CopyIn(Room(p), p.offset, p.data), p.frame)
    BY <2>2, <2>3, <2>4, CopyInPartialCopy
  <2> QED
    BY <1>5, <2>1, <2>5
<1>13. FifoShowsSource'
  <2> SUFFICES ASSUME ~confused', NEW i \in 1..Len(fifo')
               PROVE  PartialCopy(fifo'[i].payload, fifo'[i].src)
    BY DEF FifoShowsSource
  <2>1. ~confused
    BY DEF ReceivePacket
  <2>2. CASE i \in 1..Len(fifo) /\ fifo'[i] = fifo[i]
    BY <2>1, <2>2 DEF ContentsInv, FifoShowsSource
  <2>3. CASE /\ Emits(p) /\ fifo'[i].src = cur /\ fifo'[i].payload = rx.payload
    BY <1>3, <2>1, <2>3 DEF ContentsInv, RxShowsCur, Emits
  <2> QED
    BY <1>9, <1>10, <2>2, <2>3
<1>14. Ordered => cur <= cur'
  BY <1>5, <1>8, <1>10 DEF ContentsInv, NetAhead
<1>15. NetAhead'
  <2> SUFFICES ASSUME Ordered, NEW e \in net'
               PROVE  cur' <= e.packet.frame
    BY DEF NetAhead
  <2>1. e \in net /\ e.packet.frame \in Nat
    BY <1>1, <1>3, InNet, PacketsFields
  <2>2. CASE Outcome(p) = "copied"
    BY <1>2, <1>5, <2>1, <2>2 DEF ReceivePacket, Oldest
  <2>3. CASE Outcome(p) # "copied"
    BY <1>8, <2>1, <2>3 DEF ContentsInv, NetAhead
  <2> QED
    BY <2>2, <2>3
<1>16. FifoInOrder'
  <2> SUFFICES ASSUME Ordered PROVE FifoInOrder'
    BY DEF FifoInOrder
  <2>1. FifoInOrder /\ cur <= cur' /\ cur' \in Nat
    BY <1>1, <1>2, <1>5, <1>8, <1>10, <1>14 DEF ContentsInv
  <2>2. /\ \A i \in 1..Len(fifo) : fifo[i].src \in Nat
        /\ \A i \in 1..Len(shown) : shown[i] \in Nat
    <3>1. \A i \in 1..Len(fifo) : fifo[i].src \in 1..Len(sent)
      BY <1>1 DEF SizesInv, FifoDescribesSource
    <3>2. \A i \in 1..Len(shown) : shown[i] \in 1..Len(sent)
      BY <1>1, ElementOfSeq DEF SizesInv, TypeOK
    <3> QED
      BY <3>1, <3>2
  <2>3. CASE fifo' = fifo
    BY <1>3, <1>10, <2>1, <2>2, <2>3 DEF FifoInOrder
  <2>4. CASE /\ Emits(p) /\ Outcome(p) = "copied"
             /\ Len(fifo') = Len(fifo) + 1
             /\ \A i \in 1..Len(fifo) : fifo'[i] = fifo[i]
             /\ fifo'[Len(fifo) + 1].src = cur
    <3>1. cur < cur'
      BY <1>2, <1>3, <1>5, <1>10, <2>1, <2>4, EmitsOther
    <3>2. /\ \A i \in 1..Len(fifo') : i \in 1..Len(fifo) \/ i = Len(fifo) + 1
          /\ shown' = shown
      BY <1>3, <1>10, <2>4
    <3>3. \A i \in 1..Len(fifo') : fifo'[i].src < cur'
      BY <1>10, <2>1, <2>2, <2>4, <3>1, <3>2 DEF FifoInOrder
    <3>4. \A i, j \in 1..Len(fifo') : i < j => fifo'[i].src < fifo'[j].src
      <4> SUFFICES ASSUME NEW i \in 1..Len(fifo'), NEW j \in 1..Len(fifo'), i < j
                   PROVE  fifo'[i].src < fifo'[j].src
        OBVIOUS
      <4>1. i \in 1..Len(fifo)
        BY <1>10, <2>4
      <4> QED
        BY <2>1, <2>4, <3>2, <4>1 DEF FifoInOrder
    <3>5. \A i \in 1..Len(shown), j \in 1..Len(fifo') : shown[i] < fifo'[j].src
      BY <2>1, <2>4, <3>2 DEF FifoInOrder
    <3>6. \A i \in 1..Len(shown) : shown[i] < cur'
      BY <1>10, <2>1, <2>2 DEF FifoInOrder
    <3> QED
      BY <3>2, <3>3, <3>4, <3>5, <3>6 DEF FifoInOrder
  <2> QED
    BY <1>9, <2>3, <2>4
<1>17. InOrder'
  BY <1>3 DEF ContentsInv, InOrder
<1> QED
  BY <1>1, <1>11, <1>12, <1>13, <1>15, <1>16, <1>17 DEF ContentsInv

LEMMA SendFrameContents ==
    ASSUME ContentsInv, NEW pic \in Pictures, SendFrame(pic)
    PROVE  ContentsInv'
<1>1. SizesInv /\ SizesInv'
  BY SendFrameSizes DEF ContentsInv
<1>2. UNCHANGED <<net, rx, volume, fifo, alive, cur, zeroed, confused, shown>>
  BY DEF SendFrame, rx_vars
<1>3. Len(sent') = Len(sent) + 1 /\ Len(sent) \in Nat
  BY <1>1, OldFrames DEF SizesInv, SendFrame
<1> DEFINE k == Len(sent) + 1
<1>4. /\ k \in Nat \ {0} /\ Len(sent') = k
      /\ packs = <<>> /\ Len(packs) = 0
      /\ packs' = MakePackets(frame_counter, k, pic)
      /\ frame_counter' = NextId(frame_counter) /\ frame_counter \in FrameIds
  BY <1>1, <1>3, EmptySeq DEF SendFrame, SizesInv, TypeOK
<1> HIDE DEF k
<1>6. \A p \in Pending' :
         \/ p \in Pending /\ p.frame < k
         \/ p.frame = k /\ p.frame_id = frame_counter
  BY <1>1, SendFramePending DEF k
<1>7. cur \in Nat /\ cur < k
  BY <1>1, <1>3 DEF SizesInv, TypeOK, k
<1>8. OneIdPerFrame'
  <2>1. \A p, q \in Pending' : p.frame = q.frame => p.frame_id = q.frame_id
    <3> TAKE p, q \in Pending'
    <3>1. CASE p.frame = k
      BY <1>4, <1>6, <3>1
    <3>2. CASE p.frame # k
      BY <1>4, <1>6, <3>2 DEF ContentsInv, OneIdPerFrame
    <3> QED
      BY <3>1, <3>2
  <2> QED
    BY <1>2, <1>4, <1>6, <1>7, <2>1 DEF ContentsInv, OneIdPerFrame
<1> QED
  BY <1>1, <1>2, <1>8
  DEF ContentsInv, RxShowsCur, FifoShowsSource, NetAhead, FifoInOrder, InOrder

LEMMA SendPacketPending ==
    ASSUME SizesInv, NEW n \in Copies, SendPacket(n)
    PROVE  Pending' \subseteq Pending
<1>1. 1 \in 1..Len(packs)
  BY SendPacketFacts
<1>2. \A d \in net' : d \in net \/ d.packet = packs[1]
  BY SendPacketFacts
<1>3. \A i \in 1..Len(packs') : i + 1 \in 1..Len(packs) /\ packs'[i] = packs[i + 1]
  BY SendPacketFacts
<1>4. \A d \in net' : d.packet \in Pending
  BY <1>1, <1>2 DEF Pending
<1>5. \A i \in 1..Len(packs') : packs'[i] \in Pending
  BY <1>3 DEF Pending
<1> QED
  BY <1>4, <1>5 DEF Pending

LEMMA SendPacketContents ==
    ASSUME ContentsInv, NEW n \in Copies, SendPacket(n)
    PROVE  ContentsInv'
<1>1. SizesInv /\ SizesInv'
  BY SendPacketSizes DEF ContentsInv
<1>2. UNCHANGED <<sent, frame_counter, rx, volume, fifo, alive, cur, zeroed, confused, shown>>
  BY DEF SendPacket, rx_vars
<1>3. 1 \in 1..Len(packs)
  BY <1>1, SendPacketFacts
<1>4. \A d \in net' : d \in net \/ d.packet = packs[1]
  BY <1>1, SendPacketFacts
<1>5. OneIdPerFrame'
  <2>1. Pending' \subseteq Pending
    BY <1>1, SendPacketPending
  <2> QED
    BY <1>2, <2>1, OneIdStays DEF ContentsInv
<1>6. NetAhead'
  <2>1. packs[1].frame = Len(sent)
    BY <1>1, <1>3 DEF SizesInv, PacketsFromFrames
  <2>2. cur <= Len(sent)
    BY <1>1 DEF SizesInv, TypeOK
  <2> QED
    BY <1>2, <1>4, <2>1, <2>2 DEF ContentsInv, NetAhead
<1> QED
  BY <1>1, <1>2, <1>5, <1>6
  DEF ContentsInv, RxShowsCur, FifoShowsSource, FifoInOrder, InOrder

LEMMA ReadFrameContents ==
    ASSUME ContentsInv, ReadFrame
    PROVE  ContentsInv'
<1>1. SizesInv /\ SizesInv'
  BY ReadFrameSizes DEF ContentsInv
<1>2. UNCHANGED <<sent, frame_counter, packs, net, rx, volume, alive, cur, zeroed, confused>>
  BY DEF ReadFrame, tx_vars
<1>3. /\ Len(fifo) \in Nat \ {0} /\ Len(fifo') = Len(fifo) - 1
      /\ \A i \in 1..Len(fifo') : i + 1 \in 1..Len(fifo) /\ fifo'[i] = fifo[i + 1]
      /\ Len(shown) \in Nat /\ Len(shown') = Len(shown) + 1
      /\ \A i \in 1..Len(shown) : shown'[i] = shown[i]
      /\ shown'[Len(shown) + 1] = fifo[1].src
  BY <1>1, ReadFrameFacts
<1>4. 1 \in 1..Len(fifo) /\ \A i \in 1..Len(shown') : i \in 1..Len(shown) \/ i = Len(shown) + 1
  BY <1>3
<1>5. OneIdPerFrame'
  <2>1. Pending' = Pending
    BY <1>2 DEF Pending
  <2> QED
    BY <1>2, <2>1, OneIdStays DEF ContentsInv
<1>6. FifoShowsSource'
  BY <1>2, <1>3 DEF ContentsInv, FifoShowsSource
<1>7. FifoInOrder'
  <2> SUFFICES ASSUME Ordered PROVE FifoInOrder'
    BY DEF FifoInOrder
  <2>1. FifoInOrder
    BY DEF ContentsInv
  <2>2. \A i \in 1..Len(fifo') : fifo'[i].src < cur
    BY <1>3, <2>1 DEF FifoInOrder
  <2>3. \A i, j \in 1..Len(fifo') : i < j => fifo'[i].src < fifo'[j].src
    <3> SUFFICES ASSUME NEW i \in 1..Len(fifo'), NEW j \in 1..Len(fifo'), i < j
                 PROVE  fifo'[i].src < fifo'[j].src
      OBVIOUS
    <3>1. i + 1 \in 1..Len(fifo) /\ j + 1 \in 1..Len(fifo) /\ i + 1 < j + 1
      BY <1>3
    <3> QED
      BY <1>3, <2>1, <3>1 DEF FifoInOrder
  <2>4. \A i \in 1..Len(shown'), j \in 1..Len(fifo') : shown'[i] < fifo'[j].src
    <3> SUFFICES ASSUME NEW i \in 1..Len(shown'), NEW j \in 1..Len(fifo')
                 PROVE  shown'[i] < fifo'[j].src
      OBVIOUS
    <3>1. j + 1 \in 1..Len(fifo) /\ 1 < j + 1 /\ fifo'[j] = fifo[j + 1]
      BY <1>3
    <3>2. CASE i \in 1..Len(shown)
      BY <1>3, <2>1, <3>1, <3>2 DEF FifoInOrder
    <3>3. CASE i = Len(shown) + 1
      BY <1>3, <1>4, <2>1, <3>1, <3>3 DEF FifoInOrder
    <3> QED
      BY <1>4, <3>2, <3>3
  <2>5. \A i \in 1..Len(shown') : shown'[i] < cur
    BY <1>3, <1>4, <2>1 DEF FifoInOrder
  <2> QED
    BY <1>2, <2>2, <2>3, <2>4, <2>5 DEF FifoInOrder
<1>8. InOrder'
  <2> SUFFICES ASSUME Ordered, NEW i \in 1..Len(shown'), NEW j \in 1..Len(shown'), i < j
               PROVE  shown'[i] < shown'[j]
    BY DEF InOrder
  <2>1. i \in 1..Len(shown)
    BY <1>3
  <2>2. CASE j \in 1..Len(shown)
    BY <1>3, <2>1, <2>2 DEF ContentsInv, InOrder
  <2>3. CASE j = Len(shown) + 1
    BY <1>3, <1>4, <2>1, <2>3 DEF ContentsInv, FifoInOrder
  <2> QED
    BY <1>4, <2>2, <2>3
<1> QED
  BY <1>1, <1>2, <1>5, <1>6, <1>7, <1>8
  DEF ContentsInv, RxShowsCur, NetAhead

LEMMA RestartServerContents ==
    ASSUME ContentsInv, RestartServer
    PROVE  ContentsInv'
<1>1. SizesInv'
  BY RestartServerSizes DEF ContentsInv
<1>2. UNCHANGED <<sent, net, rx, volume, fifo, alive, cur, zeroed, confused, shown>>
  BY DEF RestartServer, rx_vars
<1>3. Len(packs') = 0
  BY EmptySeq DEF RestartServer
<1>4. OneIdPerFrame'
  <2>1. Pending' \subseteq Pending
    BY <1>2, <1>3 DEF Pending
  <2> QED
    BY <1>2, <2>1, OneIdStays DEF ContentsInv
<1> QED
  BY <1>1, <1>2, <1>4
  DEF ContentsInv, RxShowsCur, FifoShowsSource, NetAhead, FifoInOrder, InOrder

LEMMA InitContents == Init => ContentsInv
<1> SUFFICES ASSUME Init PROVE ContentsInv
  OBVIOUS
<1>1. /\ sent = <<>> /\ packs = <<>> /\ fifo = <<>> /\ shown = <<>>
      /\ net = {} /\ rx.payload = <<>>
  BY DEF Init
<1>2. Len(sent) = 0 /\ Len(packs) = 0 /\ Len(fifo) = 0 /\ Len(shown) = 0
  BY <1>1, EmptySeq
<1>3. Pending = {}
  BY <1>1, <1>2 DEF Pending
<1> QED
  BY <1>1, <1>2, <1>3, InitSizes
  DEF ContentsInv, OneIdPerFrame, RxShowsCur, FifoShowsSource, NetAhead, FifoInOrder, InOrder

LEMMA StepContents == ContentsInv /\ [Next \/ RestartServer]_vars => ContentsInv'
<1> SUFFICES ASSUME ContentsInv, [Next \/ RestartServer]_vars
             PROVE  ContentsInv'
  OBVIOUS
<1>1. ASSUME NEW pic \in Pictures, SendFrame(pic)
      PROVE  ContentsInv'
  BY <1>1, SendFrameContents
<1>2. ASSUME NEW n \in Copies, SendPacket(n)
      PROVE  ContentsInv'
  BY <1>2, SendPacketContents
<1>3. ASSUME NEW d \in net, ReceivePacket(d)
      PROVE  ContentsInv'
  BY <1>3, ReceiveContents
<1>4. CASE ReadFrame
  BY <1>4, ReadFrameContents
<1>5. CASE RestartServer
  BY <1>5, RestartServerContents
<1>6. CASE UNCHANGED vars
  <2>1. UNCHANGED <<sent, frame_counter, packs, net, rx, fifo, alive, cur, confused, shown>>
    BY <1>6 DEF vars, tx_vars, rx_vars
  <2>2. SizesInv'
    BY <1>6, StutterSizes DEF ContentsInv
  <2>3. OneIdPerFrame'
    <3>1. Pending' = Pending
      BY <2>1 DEF Pending
    <3> QED
      BY <2>1, <3>1, OneIdStays DEF ContentsInv
  <2> QED
    BY <2>1, <2>2, <2>3
    DEF ContentsInv, RxShowsCur, FifoShowsSource, NetAhead, FifoInOrder, InOrder
<1> QED
  BY <1>1, <1>2, <1>3, <1>4, <1>5, <1>6 DEF Next

(* For any network and with servers that start anew at any time: until two *)
(* frames meet in the receiver under one identifier, every frame handed    *)
(* over shows one frame of the source.                                     *)
THEOREM NoBlend == RestartSpec => []OneFramePerPicture
<1>1. ContentsInv => OneFramePerPicture
  BY DEF ContentsInv, SizesInv, FifoDescribesSource, FifoShowsSource, OneFramePerPicture
<1> QED
  BY InitContents, StepContents, <1>1, PTL DEF RestartSpec

(* For any network that keeps the order of datagrams, whatever it loses or *)
(* doubles and however often the server starts anew with whatever counter: *)
(* the display sees the frames in the order of the source, each at most    *)
(* once.                                                                   *)
THEOREM ShownInOrder == RestartSpec => []InOrder
<1>1. ContentsInv => InOrder
  BY DEF ContentsInv
<1> QED
  BY InitContents, StepContents, <1>1, PTL DEF RestartSpec
---------------------------------------------------------------------------
(* Identifiers as long as the server runs on.                              *)

LEMMA IdOfNext ==
    ASSUME NEW b \in FrameIds, NEW k \in Nat \ {0}
    PROVE  IdOf(b, k) \in FrameIds /\ NextId(IdOf(b, k)) = IdOf(b, k + 1)
<1> DEFINE x == b + k - 1
<1>1. x \in Nat /\ IdMod \in Nat \ {0} /\ b + (k + 1) - 1 = x + 1
  BY TransportAssumption DEF FrameIds
<1> HIDE DEF x
<1>2. (x + 1) % IdMod = ((x % IdMod) + 1) % IdMod /\ x % IdMod \in 0..(IdMod - 1)
  BY <1>1, NextResidue, DivModDef
<1>3. IdOf(b, k) = x % IdMod /\ IdOf(b, k + 1) = (x + 1) % IdMod
  BY <1>1 DEF IdOf, x
<1> QED
  BY <1>2, <1>3 DEF NextId, FrameIds

LEMMA SameIdSameFrame ==
    ASSUME NEW b \in FrameIds, NEW j \in Nat \ {0}, NEW k \in Nat \ {0},
           IdOf(b, j) = IdOf(b, k), ~(Distance(j, k) >= IdMod)
    PROVE  j = k
<1> DEFINE x == b + j - 1
           y == b + k - 1
<1>1. x \in Nat /\ y \in Nat /\ IdMod \in Nat \ {0} /\ y - x = k - j /\ x - y = j - k
  BY TransportAssumption DEF FrameIds
<1>2. x % IdMod = y % IdMod
  BY DEF IdOf
<1>3. x <= y => y - x < IdMod
  BY <1>1 DEF Distance
<1>4. y <= x => x - y < IdMod
  BY <1>1 DEF Distance
<1> HIDE DEF x, y
<1>5. CASE x <= y
  <2>1. x = y
    BY <1>1, <1>2, <1>3, <1>5, SameResidue
  <2> QED
    BY <1>1, <2>1
<1>6. CASE y <= x
  <2>1. x = y
    BY <1>1, <1>2, <1>4, <1>6, SameResidue
  <2> QED
    BY <1>1, <2>1
<1> QED
  BY <1>1, <1>5, <1>6

LEMMA InitIds == Init => IdsCountFrames
<1> SUFFICES ASSUME Init PROVE IdsCountFrames
  OBVIOUS
<1>1. /\ sent = <<>> /\ packs = <<>> /\ net = {} /\ rx.payload = <<>>
      /\ frame_counter \in FrameIds
  BY DEF Init
<1>2. Len(sent) = 0 /\ Len(packs) = 0
  BY <1>1, EmptySeq
<1>3. Pending = {}
  BY <1>1, <1>2 DEF Pending
<1>4. frame_counter % IdMod = frame_counter
  BY <1>1, TransportAssumption, SmallResidue DEF FrameIds
<1>5. frame_counter + (Len(sent) + 1) - 1 = frame_counter
  BY <1>1, <1>2, TransportAssumption DEF FrameIds
<1>6. IdsFrom(frame_counter)
  BY <1>1, <1>2, <1>3, <1>4, <1>5 DEF IdsFrom, IdOf
<1> QED
  BY <1>1, <1>6 DEF IdsCountFrames

(* Steps that bring no new packet and leave the receiver's frame alone.    *)
LEMMA IdsStay ==
    ASSUME IdsCountFrames, Pending' \subseteq Pending,
           UNCHANGED <<sent, frame_counter, rx, alive, cur>>
    PROVE  IdsCountFrames'
<1>1. PICK b \in FrameIds : IdsFrom(b)
  BY DEF IdsCountFrames
<1>2. IdsFrom(b)'
  BY <1>1 DEF IdsFrom
<1> QED
  BY <1>2 DEF IdsCountFrames, FrameIds

LEMMA SendFrameIds ==
    ASSUME ContentsInv, IdsCountFrames, NEW pic \in Pictures, SendFrame(pic)
    PROVE  IdsCountFrames'
<1>1. PICK b \in FrameIds : IdsFrom(b)
  BY DEF IdsCountFrames
<1>2. UNCHANGED <<net, rx, alive, cur>>
  BY DEF SendFrame, rx_vars
<1> DEFINE k == Len(sent) + 1
<1>3. k \in Nat \ {0} /\ Len(sent') = k
  BY OldFrames DEF ContentsInv, SizesInv, SendFrame
<1>4. /\ frame_counter' = NextId(frame_counter) /\ frame_counter \in FrameIds
      /\ frame_counter = IdOf(b, k)
  BY <1>1 DEF ContentsInv, SizesInv, TypeOK, SendFrame, IdsFrom
<1>5. \A p \in Pending' :
         \/ p \in Pending
         \/ p.frame = k /\ p.frame_id = frame_counter
  BY SendFramePending DEF ContentsInv
<1> HIDE DEF k
<1>6. frame_counter' = IdOf(b, Len(sent') + 1)
  BY <1>3, <1>4, IdOfNext
<1>7. \A p \in Pending' : p.frame_id = IdOf(b, p.frame)
  BY <1>1, <1>4, <1>5 DEF IdsFrom
<1>8. IdsFrom(b)'
  BY <1>1, <1>2, <1>6, <1>7 DEF IdsFrom
<1> QED
  BY <1>8 DEF IdsCountFrames, FrameIds

LEMMA ReceiveIds ==
    ASSUME ContentsInv, IdsCountFrames, NEW d \in net, ReceivePacket(d)
    PROVE  IdsCountFrames'
<1> DEFINE p == d.packet
<1>1. PICK b \in FrameIds : IdsFrom(b)
  BY DEF IdsCountFrames
<1>2. p \in Pending /\ Pending' \subseteq Pending
  BY DEF Pending, ReceivePacket, tx_vars
<1>3. UNCHANGED <<sent, frame_counter>>
  BY DEF ReceivePacket, tx_vars
<1>4. alive' /\ rx'.payload # <<>> => rx'.frame_id = p.frame_id /\ cur' = p.frame
  BY ReceiveCurrent DEF ContentsInv
<1>5. IdsFrom(b)'
  BY <1>1, <1>2, <1>3, <1>4 DEF IdsFrom
<1> QED
  BY <1>5 DEF IdsCountFrames, FrameIds

LEMMA StepIds == ContentsInv /\ IdsCountFrames /\ [Next]_vars => IdsCountFrames'
<1> SUFFICES ASSUME ContentsInv, IdsCountFrames, [Next]_vars
             PROVE  IdsCountFrames'
  OBVIOUS
<1>1. ASSUME NEW pic \in Pictures, SendFrame(pic)
      PROVE  IdsCountFrames'
  BY <1>1, SendFrameIds
<1>2. ASSUME NEW n \in Copies, SendPacket(n)
      PROVE  IdsCountFrames'
  <2>1. Pending' \subseteq Pending
    BY <1>2, SendPacketPending DEF ContentsInv
  <2>2. UNCHANGED <<sent, frame_counter, rx, alive, cur>>
    BY <1>2 DEF SendPacket, rx_vars
  <2> QED
    BY <2>1, <2>2, IdsStay
<1>3. ASSUME NEW d \in net, ReceivePacket(d)
      PROVE  IdsCountFrames'
  BY <1>3, ReceiveIds
<1>4. CASE ReadFrame \/ UNCHANGED vars
  <2>1. UNCHANGED <<sent, frame_counter, packs, net, rx, alive, cur>>
    BY <1>4 DEF ReadFrame, vars, tx_vars, rx_vars
  <2>2. Pending' = Pending
    BY <2>1 DEF Pending
  <2> QED
    BY <2>1, <2>2, IdsStay
<1> QED
  BY <1>1, <1>2, <1>3, <1>4 DEF Next

(* Two frames the receiver takes for one are a whole turn of the           *)
(* identifiers apart.                                                      *)
LEMMA MistakenFar ==
    ASSUME ContentsInv, IdsCountFrames, NEW d \in net, alive, Mistaken(d.packet)
    PROVE  Distance(cur, d.packet.frame) >= IdMod
<1> DEFINE p == d.packet
<1>1. p \in Pending /\ p.frame \in 1..Len(sent)
  BY InNet DEF ContentsInv, Pending, FromFrame
<1>2. rx.payload # <<>> /\ p.frame_id = rx.frame_id /\ p.frame # cur
  BY DEF Mistaken
<1>3. PICK b \in FrameIds : IdsFrom(b)
  BY DEF IdsCountFrames
<1>4. IdOf(b, cur) = IdOf(b, p.frame)
  BY <1>1, <1>2, <1>3 DEF IdsFrom
<1>5. cur \in 1..Len(sent)
  BY <1>2 DEF ContentsInv, SizesInv, RxDescribesCur
<1>6. cur \in Nat \ {0} /\ p.frame \in Nat \ {0}
  BY <1>1, <1>5
<1> HIDE DEF p
<1>7. Distance(cur, p.frame) >= IdMod
  BY <1>2, <1>3, <1>4, <1>6, SameIdSameFrame
<1> QED
  BY <1>7 DEF p

(* As long as the server is not started anew, the receiver takes a         *)
(* datagram for one of another frame only if the two are a whole turn of   *)
(* the identifiers apart, whatever the network does.                       *)
THEOREM OnlyLaps == Spec => OnlyLapsConfuse
<1>1. ContentsInv /\ IdsCountFrames /\ [Next]_vars
          => [\A d \in net :
                 ReceivePacket(d) /\ Mistaken(d.packet)
                     => Distance(cur, d.packet.frame) >= IdMod]_vars
  BY MistakenFar DEF ReceivePacket
<1>2. [Next]_vars => [Next \/ RestartServer]_vars
  OBVIOUS
<1> QED
  BY InitContents, StepContents, InitIds, StepIds, <1>1, <1>2, PTL DEF Spec, OnlyLapsConfuse
---------------------------------------------------------------------------
(* The two ends implement the best-effort channel.                         *)

Offered == [k \in 1..Len(sent) |-> Target(HeadOf(sent[k]))]

(* Also for the primed sequence of pictures, hence as a fact about any. *)
LEMMA OfferedLen ==
    ASSUME NEW s \in Seq(Pictures)
    PROVE  Len([k \in 1..Len(s) |-> Target(HeadOf(s[k]))]) = Len(s) /\ Len(s) \in Nat
<1> DEFINE f == [k \in 1..Len(s) |-> Target(HeadOf(s[k]))]
<1>1. f \in [1..Len(s) -> Nat] /\ Len(s) \in Nat
  BY HeadOfType, TargetType, LenProperties, ElementOfSeq
<1> HIDE DEF f
<1>2. Len(f) = Len(s)
  BY <1>1, FcnIsSeq
<1> QED
  BY <1>1, <1>2 DEF f

LEMMA OfferedType ==
    ASSUME TypeOK
    PROVE  Len(Offered) = Len(sent) /\ Len(sent) \in Nat
BY OfferedLen DEF TypeOK, Offered

LEMMA InitChannel == Init => Channel!Init
<1> SUFFICES ASSUME Init PROVE Channel!Init
  OBVIOUS
<1>1. sent = <<>> /\ fifo = <<>> /\ cur = 0 /\ ~confused /\ confused \in BOOLEAN
  BY DEF Init
<1>2. 1..Len(sent) = {}
  BY <1>1, EmptySeq
<1>3. Offered = <<>>
  BY <1>2 DEF Offered
<1> QED
  BY <1>1, <1>3 DEF Channel!Init, Offered

LEMMA SendFrameOffers ==
    ASSUME ContentsInv, NEW pic \in Pictures, SendFrame(pic)
    PROVE  Channel!Offer
<1>1. TypeOK /\ TypeOK'
  BY SendFrameContents DEF ContentsInv, SizesInv
<1>2. /\ Len(sent') = Len(sent) + 1
      /\ \A k \in 1..Len(sent) : sent'[k] = sent[k]
  BY <1>1, OldFrames DEF SendFrame
<1>3. Len(Offered) = Len(sent) /\ Len(Offered') = Len(sent') /\ Len(sent) \in Nat
  BY <1>1, OfferedLen DEF Offered, TypeOK
<1>4. \A k \in 1..Len(sent) : Offered'[k] = Offered[k]
  BY <1>2, <1>3 DEF Offered
<1>5. UNCHANGED <<fifo, cur, confused>>
  BY DEF SendFrame, rx_vars
<1> QED
  BY <1>2, <1>3, <1>4, <1>5 DEF Channel!Offer, Channel!Extends, Offered

LEMMA ReceiveDelivers ==
    ASSUME ContentsInv, NEW d \in net, ReceivePacket(d)
    PROVE  confused' \/ Channel!Skip \/ Channel!Deliver \/ UNCHANGED Channel!chan
<1> SUFFICES ASSUME ~confused'
             PROVE  Channel!Skip \/ Channel!Deliver \/ UNCHANGED Channel!chan
  OBVIOUS
<1> DEFINE p == d.packet
<1>1. ContentsInv /\ SizesInv /\ TypeOK /\ ContentsInv'
  BY ReceiveContents DEF ContentsInv, SizesInv
<1>2. p \in Packets /\ p.frame \in 1..Len(sent) /\ p.frame \in Nat
  BY <1>1, InNet, PacketsFields DEF FromFrame
<1>3. UNCHANGED <<sent, confused>> /\ alive
  <2>1. confused \in BOOLEAN /\ confused' \in BOOLEAN
    BY <1>1 DEF TypeOK, ContentsInv, SizesInv
  <2> QED
    BY <2>1 DEF ReceivePacket, tx_vars
<1>4. Offered' = Offered
  BY <1>3 DEF Offered
<1>5. Len(Offered) = Len(sent) /\ cur \in Nat /\ Len(fifo) \in Nat
  BY <1>1, OfferedType, LenProperties DEF TypeOK
<1>6. CASE Outcome(p) # "copied"
  BY <1>3, <1>4, <1>6 DEF ReceivePacket, Channel!chan, Offered
<1>7. CASE Outcome(p) = "copied" /\ fifo' = fifo
  <2>1. cur' = p.frame
    BY <1>7 DEF ReceivePacket
  <2>2. Ordered => cur <= cur'
    BY <1>1, <2>1 DEF ContentsInv, NetAhead
  <2>3. Channel!Skip
    BY <1>2, <1>3, <1>4, <1>5, <1>7, <2>1, <2>2
    DEF Channel!Skip, Channel!Advance, Offered
  <2> QED
    BY <2>3
<1>8. CASE /\ Emits(p) /\ Outcome(p) = "copied"
           /\ Len(fifo') = Len(fifo) + 1
           /\ \A i \in 1..Len(fifo) : fifo'[i] = fifo[i]
           /\ fifo'[Len(fifo) + 1] = ReadyFrame(p)
  <2> DEFINE v == fifo'[Len(fifo')]
  <2>1. v.src = cur /\ v.payload = rx.payload /\ v = ReadyFrame(p)
    BY <1>8 DEF ReadyFrame
  <2>2. cur \in 1..Len(sent) /\ Len(rx.payload) = Target(HeadOf(sent[cur]))
    BY <1>1, <1>3, <1>8 DEF SizesInv, RxDescribesCur, Emits
  <2>3. PartialCopy(rx.payload, cur)
    BY <1>1, <1>3, <1>8 DEF ContentsInv, RxShowsCur, Emits
  <2>4. cur' = p.frame
    BY <1>8 DEF ReceivePacket
  <2>5. Ordered => cur < cur'
    BY <1>1, <1>2, <1>3, <1>5, <1>8, <2>4, EmitsOther DEF ContentsInv, NetAhead
  <2>6. Channel!PartialCopy(rx.payload, cur)
    BY <2>3 DEF PartialCopy, Channel!PartialCopy, Zero, Channel!Zero, Byte, Channel!Byte
  <2>7. Offered[cur] = Target(HeadOf(sent[cur]))
    BY <2>2 DEF Offered
  <2>8. cur \in 1..Len(Offered) /\ Len(rx.payload) = Offered[cur]
    BY <1>5, <2>2, <2>7
  <2>9. cur' \in 1..Len(Offered) /\ (Ordered => cur <= cur')
    BY <1>2, <1>5, <2>4, <2>5
  <2>10. Channel!Extends(fifo, fifo')
    BY <1>8 DEF Channel!Extends
  <2> HIDE DEF v
  <2>11. Channel!Deliver
    BY <1>3, <1>4, <2>1, <2>5, <2>6, <2>8, <2>9, <2>10
    DEF Channel!Deliver, Channel!Advance, Offered, v
  <2> QED
    BY <2>11
<1> QED
  BY <1>1, <1>6, <1>7, <1>8, ReceiveFifo

(* Every step of the two ends and the network is a step of the channel, a  *)
(* stutter, or comes after two frames met under one identifier; a restart  *)
(* of the server is a stutter.                                             *)
THEOREM ImplementsChannel == RestartSpec => ChannelSpec
<1>1. ContentsInv /\ [Next \/ RestartServer]_vars => [confused' \/ Channel!Next]_Channel!chan
  <2> SUFFICES ASSUME ContentsInv, [Next \/ RestartServer]_vars
               PROVE  [confused' \/ Channel!Next]_Channel!chan
    OBVIOUS
  <2>1. ASSUME NEW pic \in Pictures, SendFrame(pic)
        PROVE  Channel!Next
    BY <2>1, SendFrameOffers DEF Channel!Next
  <2>2. ASSUME NEW n \in Copies, SendPacket(n)
        PROVE  UNCHANGED Channel!chan
    BY <2>2 DEF SendPacket, rx_vars, Channel!chan
  <2>3. ASSUME NEW d \in net, ReceivePacket(d)
        PROVE  confused' \/ Channel!Next \/ UNCHANGED Channel!chan
    BY <2>3, ReceiveDelivers DEF Channel!Next
  <2>4. CASE ReadFrame
    <3>1. fifo # <<>> /\ fifo' = Tail(fifo) /\ UNCHANGED <<sent, cur, confused>>
      BY <2>4 DEF ReadFrame, tx_vars
    <3>2. Channel!Take
      BY <3>1 DEF Channel!Take
    <3> QED
      BY <3>2 DEF Channel!Next
  <2>5. CASE RestartServer
    BY <2>5 DEF RestartServer, rx_vars, Channel!chan
  <2>6. CASE UNCHANGED vars
    BY <2>6 DEF vars, tx_vars, rx_vars, Channel!chan
  <2> QED
    BY <2>1, <2>2, <2>3, <2>4, <2>5, <2>6 DEF Next
<1> QED
  BY InitContents, StepContents, InitChannel, <1>1, PTL DEF RestartSpec, ChannelSpec, Channel!Spec
===========================================================================
