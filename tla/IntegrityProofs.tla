-------------------------- MODULE IntegrityProofs --------------------------
(* What the integrity tells that VideoReceiver counts for a frame, on a    *)
(* network that keeps the order of datagrams and doubles none: for any     *)
(* picture size, any page size and any losses.                             *)
EXTENDS TransportProofs

(* The size of all frames, when they have one. *)
Size == CHOOSE n \in {PayloadSize(pic) : pic \in Pictures} : TRUE

OneSize == SameSize /\ FramesFit /\ Pictures # {}

(* Where pages may begin, and where the page that begins there ends.       *)
Starts == {o \in 0..(Size - 1) : o % PacketPayload = 0}

EndOf(o) == o + Least(Size - o, PacketPayload)

(* Each packet on its way is a page of its frame. *)
PagesInv ==
    \A p \in Pending : p.offset \in Starts /\ p.offset + Len(p.data) = EndOf(p.offset)

(* Packets leave in the order of their offsets, and none is there twice.   *)
PipelineInv ==
    /\ \A i, j \in 1..Len(packs) : i < j => packs[i].offset < packs[j].offset
    /\ \A d \in net, i \in 1..Len(packs) :
          d.packet.frame = packs[i].frame => d.packet.offset < packs[i].offset
    /\ \A d, e \in net :
          d.packet.frame = e.packet.frame /\ d.packet.offset = e.packet.offset => d = e

(* The page that was copied last began at `last`.                          *)
LastCopied(last) ==
    \A p \in Pending : p.frame = cur => last < p.offset

Filled(last) == \A i \in 1..EndOf(last) : rx.payload[i] # Zero

(* The count of a frame without a hole so far misses its first page.       *)
Exact(last) == Filled(last) /\ volume = EndOf(last) - Least(PacketPayload, Size)

(* The count of a frame with a hole misses more than a page.               *)
Short(last) == volume < EndOf(last) - PacketPayload

AccountInv ==
    alive /\ ~confused =>
        /\ zeroed => rx.payload # <<>>
        /\ rx.payload # <<>> =>
              \E last \in Starts : LastCopied(last) /\ (zeroed => Exact(last) \/ Short(last))

LossyInv ==
    Ordered /\ Copies \subseteq {0, 1} /\ OneSize =>
        PagesInv /\ PipelineInv /\ AccountInv /\ NoFalseFull
---------------------------------------------------------------------------
(* p is the page after the one of frame k that begins at o. *)
ComesAfter(p, k, o) ==
    \/ p.frame = k /\ p.offset = EndOf(o)
    \/ p.frame = k + 1 /\ p.offset = 0 /\ EndOf(o) = Size

(* p is the page after the one copied last, or after one in flight.        *)
ComesNext(p, last) ==
    \/ ComesAfter(p, cur, last)
    \/ \E d \in net : ComesAfter(p, d.packet.frame, d.packet.offset)

(* The last page that was sent belongs to the last frame and ends it. *)
AllSent(last) ==
    \/ cur = Len(sent) /\ EndOf(last) = Size
    \/ \E d \in net : d.packet.frame = Len(sent) /\ EndOf(d.packet.offset) = Size

(* Before the first page the receiver is where it would be after the last  *)
(* page of a frame number 0.                                               *)
Seamless(last) ==
    /\ \A d \in net : ComesNext(d.packet, last)
    /\ packs = <<>> => AllSent(last)
    /\ packs # <<>> =>
          /\ ComesNext(packs[1], last)
          /\ \A i \in 1..(Len(packs) - 1) :
                ComesAfter(packs[i + 1], packs[i].frame, packs[i].offset)
          /\ EndOf(packs[Len(packs)].offset) = Size

GaplessInv ==
    /\ alive
    /\ rx.payload = <<>> => cur = 0 /\ ~zeroed
    /\ IF IdMod = 1 THEN ~zeroed ELSE ~confused
    /\ \E last \in Starts :
          /\ Seamless(last)
          /\ IF rx.payload = <<>> THEN EndOf(last) = Size
             ELSE /\ LastCopied(last)
                  /\ Filled(last)
                  /\ zeroed => Exact(last)

LosslessInv ==
    Ordered /\ Copies = {1} /\ OneSize =>
        PagesInv /\ PipelineInv /\ GaplessInv /\ LosslessExact
---------------------------------------------------------------------------
(* Where pages begin and end. *)

LEMMA SizeFacts ==
    ASSUME OneSize
    PROVE  /\ Size \in Nat \ {0} /\ PacketPayload \in Nat \ {0}
           /\ \A pic \in Pictures : PayloadSize(pic) = Size /\ Target(HeadOf(pic)) = Size
<1>1. PICK pic \in Pictures : Size = PayloadSize(pic)
  BY DEF OneSize, Size
<1>2. \A q \in Pictures : PayloadSize(q) = Size
  BY <1>1 DEF OneSize, SameSize
<1> QED
  BY <1>1, <1>2, PayloadSizeType, TargetFits, TransportAssumption DEF OneSize

LEMMA PageSpan ==
    ASSUME OneSize, NEW o \in Starts
    PROVE  /\ o \in Nat /\ EndOf(o) \in Nat
           /\ o < EndOf(o) /\ EndOf(o) <= Size /\ EndOf(o) <= o + PacketPayload
BY SizeFacts DEF Starts, EndOf, Least

(* Multiples of p that differ, differ by p or by two p at least. *)
LEMMA MultiplesApart ==
    ASSUME NEW p \in Nat \ {0}, NEW a \in Nat, NEW b \in Nat,
           a % p = 0, b % p = 0, a < b
    PROVE  b = a + p \/ a + p + p <= b
<1> DEFINE q == a \div p
           r == b \div p
<1>1. q \in Nat /\ r \in Nat /\ a = p * q /\ b = p * r
  BY DivModDef
<1> HIDE DEF q, r
<1>2. \A x, y \in Nat : x <= y => p * x <= p * y
  <2> TAKE x, y \in Nat
  <2> HAVE x <= y
  <2>1. PICK z \in Nat : y = x + z
    <3>1. y - x \in Nat /\ y = x + (y - x)
      OBVIOUS
    <3> QED
      BY <3>1
  <2>2. p * y = p * x + p * z /\ p * z \in Nat /\ p * x \in Nat
    BY <2>1
  <2> QED
    BY <2>2
<1>3. q < r
  <2> SUFFICES ASSUME r <= q PROVE FALSE
    BY <1>1
  <2> QED
    BY <1>1, <1>2
<1>4. p * (q + 1) = p * q + p /\ p * (q + 2) = p * q + p + p
  BY <1>1
<1>5. CASE r = q + 1
  BY <1>1, <1>4, <1>5
<1>6. CASE q + 2 <= r
  <2>1. p * (q + 2) <= p * r
    BY <1>1, <1>2, <1>6
  <2> QED
    BY <1>1, <1>4, <2>1
<1> QED
  BY <1>1, <1>3, <1>5, <1>6

(* A page that another one follows is full, and the other one begins where *)
(* it ends or a page later.                                                *)
LEMMA PageBefore ==
    ASSUME OneSize, NEW a \in Starts, NEW b \in Starts, a < b
    PROVE  /\ EndOf(a) = a + PacketPayload /\ EndOf(a) <= b
           /\ b = EndOf(a) \/ EndOf(a) + PacketPayload <= b
           /\ Least(PacketPayload, Size) = PacketPayload
<1>1. a \in Nat /\ b \in Nat /\ b < Size /\ a % PacketPayload = 0 /\ b % PacketPayload = 0
  BY SizeFacts DEF Starts
<1>2. b = a + PacketPayload \/ a + PacketPayload + PacketPayload <= b
  BY <1>1, SizeFacts, MultiplesApart
<1> QED
  BY <1>1, <1>2, SizeFacts DEF EndOf, Least

LEMMA FirstStart ==
    ASSUME OneSize
    PROVE  /\ 0 \in Starts /\ EndOf(0) = Least(PacketPayload, Size)
           /\ \A o \in Starts : o = 0 \/ PacketPayload <= o
<1>1. 0 \in Starts
  BY SizeFacts, SmallResidue DEF Starts
<1>2. EndOf(0) = Least(PacketPayload, Size)
  BY SizeFacts DEF EndOf, Least
<1>3. ASSUME NEW o \in Starts, o # 0
      PROVE  PacketPayload <= o
  BY <1>1, <1>3, SizeFacts, PageSpan, PageBefore
<1> QED
  BY <1>1, <1>2, <1>3

LEMMA LastStart ==
    ASSUME OneSize
    PROVE  \E o \in Starts : EndOf(o) = Size
<1> DEFINE m == Size - 1
           q == m \div PacketPayload
           r == m % PacketPayload
           o == PacketPayload * q
<1>1. m \in Nat /\ q \in Nat /\ r \in 0..(PacketPayload - 1) /\ m = o + r /\ o \in Nat
  <2>1. m \in Nat /\ PacketPayload \in Nat \ {0}
    BY SizeFacts
  <2> HIDE DEF m
  <2>2. q \in Nat /\ r \in 0..(PacketPayload - 1) /\ m = PacketPayload * q + r
    BY <2>1, DivModDef
  <2> HIDE DEF q, r
  <2> QED
    BY <2>1, <2>2
<1> HIDE DEF q
<1>2. o % PacketPayload = 0
  <2>1. PacketPayload \in Nat \ {0}
    BY SizeFacts
  <2>2. o = PacketPayload * q + 0 /\ 0 \in 0..(PacketPayload - 1)
    BY <1>1, <2>1
  <2> HIDE DEF o
  <2> QED
    BY <1>1, <2>1, <2>2, DivModUnique
<1>3. Size = m + 1
  BY SizeFacts
<1> HIDE DEF m, r, o
<1>4. o \in Starts /\ EndOf(o) = Size
  BY <1>1, <1>2, <1>3, SizeFacts DEF Starts, EndOf, Least
<1> QED
  BY <1>4

(* m is frame k cut into pages without a gap, from its first byte to its   *)
(* last.                                                                   *)
TilesFrame(m, k) ==
    /\ Len(m) \in Nat \ {0}
    /\ \A i \in 1..Len(m) :
          /\ m[i].frame = k
          /\ m[i].offset \in Starts
          /\ m[i].offset + Len(m[i].data) = EndOf(m[i].offset)
    /\ m[1].offset = 0
    /\ \A i \in 1..(Len(m) - 1) : m[i + 1].offset = EndOf(m[i].offset)
    /\ \A i, j \in 1..Len(m) : i < j => m[i].offset < m[j].offset
    /\ EndOf(m[Len(m)].offset) = Size

(* What make_packets does to a frame. *)
LEMMA PacketsTileFrame ==
    ASSUME OneSize, NEW pic \in Pictures, NEW k \in Nat, NEW id \in FrameIds
    PROVE  TilesFrame(MakePackets(id, k, pic), k)
<1> DEFINE m == MakePackets(id, k, pic)
           c == PageCount(Size, PacketPayload)
           o(i) == (i - 1) * PacketPayload
           q == Size \div PacketPayload
           r == Size % PacketPayload
<1>1. Size \in Nat \ {0} /\ PacketPayload \in Nat \ {0} /\ PayloadSize(pic) = Size
  BY SizeFacts
<1>2. c \in Nat \ {0}
  BY <1>1, PageCountZero
<1>3. m = [i \in 1..c |-> [frame |-> k, frame_id |-> id, head |-> HeadOf(pic),
                           offset |-> o(i), data |-> PageData(k, pic, i)]]
  BY <1>1 DEF MakePackets
<1>4. m \in Seq(Packets)
  BY MakePacketsType
<1>5. \A i \in 1..c : o(i) \in Nat /\ o(i) < Size
  BY <1>1, PageStartsInside
<1>6. \A i \in 1..c : Len(PageData(k, pic, i)) = Least(Size - o(i), PacketPayload)
  <2> TAKE i \in 1..c
  <2> DEFINE l == Least(Size - o(i), PacketPayload)
  <2>1. PageData(k, pic, i) = [j \in 1..l |-> Byte(k, o(i) + j)]
    BY <1>1 DEF PageData
  <2>2. l \in Nat
    BY <1>1, <1>5 DEF Least
  <2>3. PageData(k, pic, i) \in Seq(Bytes)
    BY <1>1, PageDataType
  <2>4. DOMAIN PageData(k, pic, i) = 1..l
    BY <2>1
  <2> HIDE DEF l, o
  <2>5. Len(PageData(k, pic, i)) = l
    BY <2>2, <2>3, <2>4, LenProperties
  <2> QED
    BY <2>5 DEF l
<1>7. q \in Nat /\ r \in 0..(PacketPayload - 1) /\ Size = PacketPayload * q + r
  BY <1>1, DivModDef
<1>8. o(1) = 0 /\ \A i \in 1..c : o(i + 1) = o(i) + PacketPayload
  <2>1. \A i \in Nat \ {0} : (i + 1 - 1) * PacketPayload = (i - 1) * PacketPayload + PacketPayload
    BY <1>1
  <2> QED
    BY <1>1, <1>2, <2>1
<1>9. \A i \in 1..c : o(i) % PacketPayload = 0
  <2> TAKE i \in 1..c
  <2>1. o(i) = PacketPayload * (i - 1) + 0 /\ i - 1 \in Nat /\ 0 \in 0..(PacketPayload - 1)
    BY <1>1
  <2>2. PICK k1 \in Nat : o(i) = PacketPayload * k1 + 0
    BY <2>1
  <2>3. o(i) \in Nat
    BY <1>5
  <2> DEFINE x == o(i)
  <2> HIDE DEF x, o
  <2>4. x % PacketPayload = 0
    BY <1>1, <2>1, <2>2, <2>3, DivModUnique DEF x
  <2> QED
    BY <2>4 DEF x
<1>10. \A i, j \in 1..c : i < j => o(i) < o(j)
  <2> TAKE i, j \in 1..c
  <2> HAVE i < j
  <2>1. j - i \in Nat \ {0} /\ i - 1 \in Nat /\ j - 1 = (i - 1) + (j - i)
    OBVIOUS
  <2>2. \A x, y \in Nat : (x + y) * PacketPayload = x * PacketPayload + y * PacketPayload
    BY <1>1
  <2>3. \A y \in Nat \ {0} : y * PacketPayload > 0
    BY <1>1
  <2>4. (j - 1) * PacketPayload = (i - 1) * PacketPayload + (j - i) * PacketPayload
    BY <2>1, <2>2
  <2>5. (j - i) * PacketPayload \in Int /\ (i - 1) * PacketPayload \in Int
    BY <1>1
  <2> QED
    BY <2>1, <2>3, <2>4, <2>5
<1>11. Size - o(c) <= PacketPayload
  <2>1. CASE r # 0
    <3>1. c = q + 1
      BY <2>1 DEF PageCount
    <3>2. o(c) = PacketPayload * q
      BY <1>1, <1>7, <3>1
    <3> QED
      BY <1>1, <1>7, <3>2
  <2>2. CASE r = 0
    <3>1. c = q
      BY <2>2 DEF PageCount
    <3>2. (q - 1) * PacketPayload + PacketPayload = PacketPayload * q /\ (q - 1) * PacketPayload \in Int
      BY <1>1, <1>7
    <3> QED
      BY <1>1, <1>7, <2>2, <3>1, <3>2
  <2> QED
    BY <2>1, <2>2
<1> HIDE DEF c, o, q, r
<1>12. /\ Len(m) = c
       /\ \A i \in 1..c : /\ m[i].frame = k /\ m[i].offset = o(i)
                          /\ m[i].data = PageData(k, pic, i)
  <2>1. DOMAIN m = 1..c /\ DOMAIN m = 1..Len(m) /\ Len(m) \in Nat
    BY <1>3, <1>4, LenProperties
  <2> QED
    BY <1>2, <1>3, <2>1
<1> HIDE DEF m
<1>13. \A i \in 1..c : o(i) \in Starts /\ o(i) + Len(m[i].data) = EndOf(o(i))
  BY <1>1, <1>5, <1>6, <1>9, <1>12 DEF Starts, EndOf
<1>14. \A i \in 1..(c - 1) : o(i + 1) = EndOf(o(i))
  <2> TAKE i \in 1..(c - 1)
  <2>1. i \in 1..c /\ i + 1 \in 1..c /\ i < i + 1
    BY <1>2
  <2>2. EndOf(o(i)) = o(i) + PacketPayload
    BY <1>10, <1>13, <2>1, PageBefore
  <2> QED
    BY <1>8, <2>1, <2>2
<1>15. EndOf(o(c)) = Size
  <2>1. c \in 1..c
    BY <1>2
  <2> QED
    BY <1>1, <1>5, <1>11, <2>1 DEF EndOf, Least
<1>16. /\ \A i \in 1..(c - 1) : i \in 1..c /\ i + 1 \in 1..c
       /\ 1 \in 1..c /\ c \in 1..c
  BY <1>2
<1>17. TilesFrame(m, k)
  BY <1>2, <1>8, <1>10, <1>12, <1>13, <1>14, <1>15, <1>16 DEF TilesFrame
<1> QED
  BY <1>17 DEF m
---------------------------------------------------------------------------
(* Pages on their way. *)

LEMMA SendFrameFacts ==
    ASSUME ContentsInv, OneSize, NEW pic \in Pictures, SendFrame(pic)
    PROVE  /\ packs = <<>> /\ Len(packs) = 0 /\ packs' # <<>>
           /\ Len(sent) \in Nat /\ Len(sent') = Len(sent) + 1
           /\ TilesFrame(packs', Len(sent) + 1)
           /\ \A d \in net : d.packet.frame \in 1..Len(sent)
           /\ cur \in 0..Len(sent)
           /\ UNCHANGED <<net, rx, volume, fifo, alive, cur, zeroed, confused, shown>>
<1>1. SizesInv /\ TypeOK
  BY DEF ContentsInv, SizesInv
<1>2. packs = <<>> /\ packs' = MakePackets(frame_counter, Len(sent) + 1, pic)
  BY DEF SendFrame
<1>3. Len(sent) \in Nat /\ Len(sent') = Len(sent) + 1
  BY <1>1, OldFrames DEF SendFrame
<1>4. Len(packs) = 0 /\ frame_counter \in FrameIds /\ Len(sent) + 1 \in Nat
  BY <1>1, <1>2, <1>3, EmptySeq DEF TypeOK
<1>5. \A d \in net : d.packet.frame \in 1..Len(sent)
  BY <1>1, InNet DEF FromFrame
<1>6. /\ cur \in 0..Len(sent)
      /\ UNCHANGED <<net, rx, volume, fifo, alive, cur, zeroed, confused, shown>>
  BY <1>1 DEF SendFrame, rx_vars, TypeOK
<1>7. TilesFrame(packs', Len(sent) + 1)
  BY <1>2, <1>4, PacketsTileFrame
<1>8. packs' # <<>>
  BY <1>7, EmptySeq DEF TilesFrame
<1> QED
  BY <1>2, <1>3, <1>4, <1>5, <1>6, <1>7, <1>8

(* sendto hands over the first packet or loses it. *)
LEMMA SendPacketOnce ==
    ASSUME ContentsInv, Copies \subseteq {0, 1}, NEW n \in Copies, SendPacket(n)
    PROVE  /\ Len(packs) \in Nat \ {0} /\ Len(packs') = Len(packs) - 1
           /\ \A i \in 1..Len(packs') : i + 1 \in 1..Len(packs) /\ packs'[i] = packs[i + 1]
           /\ net' = IF n = 0 THEN net ELSE net \cup {[copy |-> 1, packet |-> packs[1]]}
           /\ packs[1] \in Pending /\ Pending' \subseteq Pending
           /\ UNCHANGED <<sent, rx, volume, fifo, alive, cur, zeroed, confused, shown>>
<1>1. /\ Len(packs) \in Nat \ {0} /\ Len(packs') = Len(packs) - 1
      /\ \A i \in 1..Len(packs') : i + 1 \in 1..Len(packs) /\ packs'[i] = packs[i + 1]
      /\ packs \in Seq(Packets)
  BY SendPacketFacts DEF ContentsInv, SizesInv, TypeOK
<1>2. Head(packs) = packs[1] /\ 1 \in 1..Len(packs)
  BY <1>1
<1>3. net' = net \cup {[copy |-> c, packet |-> packs[1]] : c \in 1..n}
  BY <1>2 DEF SendPacket
<1>4. net' = IF n = 0 THEN net ELSE net \cup {[copy |-> 1, packet |-> packs[1]]}
  <2>1. CASE n = 0
    <3>1. 1..n = {}
      BY <2>1
    <3> QED
      BY <1>3, <2>1, <3>1
  <2>2. CASE n = 1
    <3>1. 1..n = {1}
      BY <2>2
    <3> QED
      BY <1>3, <2>2, <3>1
  <2> QED
    BY <2>1, <2>2
<1>5. packs[1] \in Pending /\ Pending' \subseteq Pending
  BY <1>1, <1>2, <1>4 DEF Pending
<1> QED
  BY <1>1, <1>4, <1>5 DEF SendPacket, rx_vars

LEMMA FewerPages ==
    ASSUME PagesInv, PipelineInv, net' \subseteq net, packs' = packs \/ Len(packs') = 0
    PROVE  PagesInv' /\ PipelineInv' /\ Pending' \subseteq Pending
<1>1. 1..Len(packs') = {} \/ packs' = packs
  OBVIOUS
<1>2. Pending' \subseteq Pending
  BY <1>1 DEF Pending
<1> QED
  BY <1>1, <1>2 DEF PagesInv, PipelineInv

LEMMA StepPages ==
    ASSUME ContentsInv, OneSize, Copies \subseteq {0, 1}, PagesInv, PipelineInv,
           [Next \/ RestartServer]_vars
    PROVE  PagesInv' /\ PipelineInv'
<1>1. ASSUME NEW pic \in Pictures, SendFrame(pic)
      PROVE  PagesInv' /\ PipelineInv'
  <2>1. \A p \in Pending' : p \in Pending \/ \E i \in 1..Len(packs') : p = packs'[i]
    BY <1>1, SendFrameFacts DEF Pending
  <2>2. PagesInv'
    BY <1>1, <2>1, SendFrameFacts DEF PagesInv, TilesFrame
  <2>3. PipelineInv'
    BY <1>1, SendFrameFacts DEF PipelineInv, TilesFrame
  <2> QED
    BY <2>2, <2>3
<1>2. ASSUME NEW n \in Copies, SendPacket(n)
      PROVE  PagesInv' /\ PipelineInv'
  <2>1. PagesInv'
    BY <1>2, SendPacketOnce DEF PagesInv
  <2>2. /\ \A i \in 1..Len(packs') : i + 1 \in 1..Len(packs) /\ packs'[i] = packs[i + 1]
        /\ 1 \in 1..Len(packs) /\ Len(packs) \in Nat /\ Len(packs') = Len(packs) - 1
        /\ \A d \in net' : d \in net \/ d = [copy |-> 1, packet |-> packs[1]]
    BY <1>2, SendPacketOnce
  <2>3. \A p \in Pending : p.offset \in Nat
    BY PageSpan DEF PagesInv
  <2>4. /\ \A d \in net : d.packet.offset \in Nat
        /\ \A i \in 1..Len(packs) : packs[i].offset \in Nat
    BY <2>3 DEF Pending
  <2>5. ASSUME NEW i \in 1..Len(packs'), NEW j \in 1..Len(packs'), i < j
        PROVE  packs'[i].offset < packs'[j].offset
    <3>1. i + 1 \in 1..Len(packs) /\ j + 1 \in 1..Len(packs) /\ i + 1 < j + 1
      BY <2>2, <2>5
    <3> QED
      BY <2>2, <3>1 DEF PipelineInv
  <2>6. ASSUME NEW d \in net', NEW i \in 1..Len(packs'), d.packet.frame = packs'[i].frame
        PROVE  d.packet.offset < packs'[i].offset
    <3>1. i + 1 \in 1..Len(packs) /\ packs'[i] = packs[i + 1] /\ 1 < i + 1
      BY <2>2
    <3>2. CASE d \in net
      BY <2>6, <3>1, <3>2 DEF PipelineInv
    <3>3. CASE d.packet = packs[1]
      BY <2>2, <3>1, <3>3 DEF PipelineInv
    <3> QED
      BY <2>2, <3>2, <3>3
  <2>7. ASSUME NEW d \in net', NEW e \in net',
               d.packet.frame = e.packet.frame, d.packet.offset = e.packet.offset
        PROVE  d = e
    <3>1. \A c \in net : c.packet.frame = packs[1].frame => c.packet.offset # packs[1].offset
      BY <2>2, <2>4 DEF PipelineInv
    <3>2. CASE d \in net /\ e \in net
      BY <2>7, <3>2 DEF PipelineInv
    <3>3. CASE d.packet = packs[1] /\ e \in net
      BY <2>7, <3>1, <3>3
    <3>4. CASE d \in net /\ e.packet = packs[1]
      BY <2>7, <3>1, <3>4
    <3> QED
      BY <2>2, <3>2, <3>3, <3>4
  <2> QED
    BY <2>1, <2>5, <2>6, <2>7 DEF PipelineInv
<1>3. ASSUME NEW d \in net, ReceivePacket(d)
      PROVE  PagesInv' /\ PipelineInv'
  BY <1>3, FewerPages DEF ReceivePacket, tx_vars
<1>4. CASE ReadFrame
  BY <1>4, FewerPages DEF ReadFrame, tx_vars
<1>5. CASE RestartServer
  BY <1>5, FewerPages, EmptySeq DEF RestartServer
<1>6. CASE UNCHANGED vars
  BY <1>6, FewerPages DEF vars, tx_vars
<1> QED
  BY <1>1, <1>2, <1>3, <1>4, <1>5, <1>6 DEF Next
---------------------------------------------------------------------------
(* What a page does to the receiver. *)

LEMMA RxIsWhole ==
    ASSUME ContentsInv, OneSize, alive, rx.payload # <<>>
    PROVE  /\ rx.payload \in Seq(Bytes) /\ Len(rx.payload) = Size
           /\ cur \in 1..Len(sent)
<1>1. /\ cur \in 1..Len(sent) /\ sent[cur] \in Pictures
      /\ Len(rx.payload) = Target(HeadOf(sent[cur]))
  BY DEF ContentsInv, SizesInv, TypeOK, RxDescribesCur
<1> QED
  BY <1>1, SizeFacts, RxFields DEF ContentsInv, SizesInv

LEMMA PageReceived ==
    ASSUME ContentsInv, OneSize, PagesInv, NEW d \in net, ReceivePacket(d),
           NEW p, p = d.packet
    PROVE  /\ p \in Pending /\ Pending' \subseteq Pending
           /\ p.frame \in 1..Len(sent) /\ p.offset \in Starts
           /\ p.offset + Len(p.data) = EndOf(p.offset) /\ Len(p.data) \in Nat
           /\ Target(p.head) = Size
           /\ alive /\ alive' /\ cur' = p.frame
           /\ volume \in Int /\ volume' = VolumeAfter(p)
           /\ zeroed' = (zeroed \/ Emits(p))
           /\ UNCHANGED <<sent, packs, shown>> /\ net' = net \ {d}
           /\ fifo' = IF Emits(p) THEN Append(fifo, ReadyFrame(p)) ELSE fifo
           /\ rx'.payload # <<>>
           /\ \A i \in 1..Size :
                 rx'.payload[i] = IF p.offset < i /\ i <= EndOf(p.offset)
                                  THEN Byte(p.frame, i) ELSE Room(p)[i]
           /\ \A i \in 1..Size :
                 Room(p)[i] = IF Emits(p) \/ rx.payload = <<>>
                              THEN Zero ELSE rx.payload[i]
<1>1. SizesInv /\ TypeOK
  BY DEF ContentsInv, SizesInv
<1>2. p \in Packets /\ FromFrame(p) /\ p \in Pending
  BY <1>1, InNet DEF Pending
<1>3. p.offset \in Starts /\ p.offset + Len(p.data) = EndOf(p.offset)
  BY <1>2 DEF PagesInv
<1>4. Target(p.head) = Size /\ Size \in Nat \ {0}
  BY <1>1, <1>2, SizeFacts DEF FromFrame, TypeOK
<1>5. Outcome(p) = "copied"
  <2>1. Outcome(p) # "thrown"
    BY <1>1, NeverThrown DEF OneSize
  <2>2. Target(p.head) # 0
    BY <1>4
  <2> QED
    BY <2>1, <2>2 DEF Outcome
<1>6. Pending' \subseteq Pending /\ UNCHANGED <<sent, packs, shown>> /\ net' = net \ {d}
  BY DEF ReceivePacket, tx_vars, Pending
<1>7. /\ Room(p) \in Seq(Bytes) /\ Len(Room(p)) = Size
      /\ p.offset \in Nat /\ p.data \in Seq(Bytes) /\ Len(p.data) \in Nat
  BY <1>1, <1>2, <1>4, RoomType, PacketsFields
<1>8. rx'.payload = CopyIn(Room(p), p.offset, p.data)
  BY <1>5 DEF ReceivePacket
<1>9. /\ Len(rx'.payload) = Size
      /\ \A i \in 1..Size :
            rx'.payload[i] = IF p.offset < i /\ i <= p.offset + Len(p.data)
                             THEN p.data[i - p.offset] ELSE Room(p)[i]
  <2> DEFINE v == Room(p)
             o == p.offset
             e == p.data
  <2>1. v \in Seq(Bytes) /\ Len(v) = Size /\ o \in Nat /\ e \in Seq(Bytes)
    BY <1>7
  <2>2. rx'.payload = CopyIn(v, o, e)
    BY <1>8
  <2> HIDE DEF v, o, e
  <2>3. /\ Len(CopyIn(v, o, e)) = Len(v)
        /\ \A i \in 1..Len(v) :
              CopyIn(v, o, e)[i] = IF o < i /\ i <= o + Len(e) THEN e[i - o] ELSE v[i]
    BY <2>1, CopyInType
  <2>4. /\ Len(rx'.payload) = Size
        /\ \A i \in 1..Size :
              rx'.payload[i] = IF o < i /\ i <= o + Len(e) THEN e[i - o] ELSE v[i]
    BY <2>1, <2>2, <2>3
  <2> QED
    BY <2>4 DEF v, o, e
<1>10. \A i \in 1..Size :
          p.offset < i /\ i <= p.offset + Len(p.data) => p.data[i - p.offset] = Byte(p.frame, i)
  <2> TAKE i \in 1..Size
  <2> HAVE p.offset < i /\ i <= p.offset + Len(p.data)
  <2>1. i - p.offset \in 1..Len(p.data) /\ p.offset + (i - p.offset) = i
    BY <1>7
  <2> QED
    BY <1>2, <2>1 DEF FromFrame
<1>11. \A i \in 1..Size :
          Room(p)[i] = IF Emits(p) \/ rx.payload = <<>> THEN Zero ELSE rx.payload[i]
  <2>1. CASE Emits(p) \/ rx.payload = <<>>
    <3>1. Room(p) = Resize(<<>>, Size)
      BY <1>4, <2>1 DEF Room
    <3>2. \A n \in Nat : \A i \in 1..n : Resize(<<>>, n)[i] = Zero
      <4>1. \A i \in Nat \ {0} : ~(i <= Len(<<>>))
        BY EmptySeq
      <4> QED
        BY <4>1 DEF Resize
    <3> QED
      BY <1>4, <2>1, <3>1, <3>2
  <2>2. CASE ~Emits(p) /\ rx.payload # <<>>
    <3> DEFINE v == rx.payload
    <3>1. Room(p) = Resize(v, Size)
      BY <1>4, <2>2 DEF Room
    <3>2. v \in Seq(Bytes) /\ Len(v) = Size
      BY <2>2, RxIsWhole DEF ReceivePacket
    <3> HIDE DEF v
    <3>3. \A i \in 1..Size : Resize(v, Size)[i] = v[i]
      <4>1. Size \in Nat
        BY <1>4
      <4>2. \A i \in 1..Size : Resize(v, Size)[i] = IF i <= Len(v) THEN v[i] ELSE Zero
        BY <3>2, <4>1, ResizeType
      <4>3. \A i \in 1..Size : i <= Len(v)
        BY <3>2, <4>1
      <4> QED
        BY <4>2, <4>3
    <3> QED
      BY <2>2, <3>1, <3>3 DEF v
  <2> QED
    BY <2>1, <2>2
<1>12. rx'.payload # <<>>
  BY <1>4, <1>9, EmptySeq
<1>13. /\ alive /\ alive' /\ cur' = p.frame /\ volume' = VolumeAfter(p)
       /\ zeroed' = (zeroed \/ Emits(p))
       /\ fifo' = IF Emits(p) THEN Append(fifo, ReadyFrame(p)) ELSE fifo
  BY <1>5 DEF ReceivePacket
<1>14. p.frame \in 1..Len(sent) /\ volume \in Int
  BY <1>1, <1>2 DEF FromFrame, TypeOK
<1>15. \A i \in 1..Size :
          rx'.payload[i] = IF p.offset < i /\ i <= EndOf(p.offset)
                           THEN Byte(p.frame, i) ELSE Room(p)[i]
  BY <1>3, <1>9, <1>10
<1> QED
  BY <1>2, <1>3, <1>4, <1>6, <1>7, <1>11, <1>12, <1>13, <1>14, <1>15
(* The page that came is the one copied last. *)
LEMMA ReceiveLast ==
    ASSUME ContentsInv, OneSize, Ordered, PagesInv, PipelineInv,
           NEW d \in net, ReceivePacket(d), NEW p, p = d.packet
    PROVE  LastCopied(p.offset)'
<1>1. /\ cur' = p.frame /\ net' = net \ {d} /\ packs' = packs
      /\ p.offset \in Nat
  BY PageReceived, PageSpan
<1>2. ASSUME NEW e \in net, e # d, e.packet.frame = p.frame
      PROVE  p.offset < e.packet.offset
  <2>1. p.offset <= e.packet.offset
    <3>1. p.frame \in Int
      BY PageReceived
    <3> QED
      BY <1>2, <3>1 DEF ReceivePacket, Oldest
  <2>2. p.offset # e.packet.offset
    BY <1>2 DEF PipelineInv
  <2>3. e.packet.offset \in Nat
    BY PageSpan DEF PagesInv, Pending
  <2> QED
    BY <1>1, <2>1, <2>2, <2>3
<1>3. \A i \in 1..Len(packs) : packs[i].frame = p.frame => p.offset < packs[i].offset
  BY DEF PipelineInv
<1> QED
  BY <1>1, <1>2, <1>3 DEF LastCopied, Pending

LEMMA ByteNotZero == \A k \in Nat \ {0} : \A i : Byte(k, i) # Zero
BY DEF Byte, Zero

LEMMA ReceiveFills ==
    ASSUME ContentsInv, OneSize, PagesInv,
           NEW d \in net, ReceivePacket(d), NEW p, p = d.packet
    PROVE  /\ p.offset = 0 => Filled(p.offset)'
           /\ \A last \in Starts :
                 /\ ~Emits(p) /\ rx.payload # <<>>
                 /\ Filled(last) /\ p.offset = EndOf(last)
                 => Filled(p.offset)'
<1>1. /\ p.offset \in Starts /\ p.frame \in Nat \ {0}
      /\ \A i \in 1..Size :
            rx'.payload[i] = IF p.offset < i /\ i <= EndOf(p.offset)
                             THEN Byte(p.frame, i) ELSE Room(p)[i]
      /\ \A i \in 1..Size :
            Room(p)[i] = IF Emits(p) \/ rx.payload = <<>> THEN Zero ELSE rx.payload[i]
  BY PageReceived
<1>2. /\ p.offset \in Nat /\ EndOf(p.offset) \in Nat /\ EndOf(p.offset) <= Size
      /\ Size \in Nat
  BY <1>1, PageSpan, SizeFacts
<1>3. ASSUME NEW i \in 1..EndOf(p.offset), p.offset < i
      PROVE  i \in 1..Size /\ rx'.payload[i] # Zero
  BY <1>1, <1>2, <1>3, ByteNotZero
<1>4. p.offset = 0 => Filled(p.offset)'
  BY <1>2, <1>3 DEF Filled
<1>5. ASSUME NEW last \in Starts, ~Emits(p), rx.payload # <<>>, Filled(last),
             p.offset = EndOf(last), NEW i \in 1..EndOf(p.offset)
      PROVE  rx'.payload[i] # Zero
  <2>1. CASE i <= p.offset
    <3>1. i \in 1..EndOf(last) /\ i \in 1..Size
      BY <1>2, <1>5, <2>1
    <3> QED
      BY <1>1, <1>2, <1>5, <2>1, <3>1 DEF Filled
  <2> QED
    BY <1>2, <1>3, <2>1
<1> QED
  BY <1>4, <1>5 DEF Filled

LEMMA ReceiveAccount ==
    ASSUME ContentsInv, OneSize, Ordered, PagesInv, PipelineInv, AccountInv,
           NEW d \in net, ReceivePacket(d)
    PROVE  AccountInv'
<1> DEFINE p == d.packet
           o == p.offset
<1>1. /\ p.offset \in Starts /\ p.frame \in 1..Len(sent)
      /\ p.offset + Len(p.data) = EndOf(p.offset) /\ Len(p.data) \in Nat
      /\ volume \in Int /\ volume' = VolumeAfter(p)
      /\ zeroed' = (zeroed \/ Emits(p)) /\ rx'.payload # <<>> /\ alive
  BY PageReceived
<1>2. LastCopied(p.offset)'
  BY ReceiveLast
<1>3. /\ o = 0 => Filled(o)'
      /\ \A last \in Starts :
            ~Emits(p) /\ rx.payload # <<>> /\ Filled(last) /\ o = EndOf(last) => Filled(o)'
  BY ReceiveFills
<1> SUFFICES ASSUME ~confused', zeroed' PROVE Exact(o)' \/ Short(o)'
  BY <1>1, <1>2 DEF AccountInv
<1>4. ~confused
  BY DEF ReceivePacket
<1>5. o \in Nat /\ EndOf(o) \in Nat /\ o < EndOf(o) /\ PacketPayload \in Nat \ {0} /\ Size \in Nat
  BY <1>1, PageSpan, SizeFacts
<1>6. CASE Emits(p)
  <2>1. volume' = 0
    BY <1>1, <1>6 DEF VolumeAfter
  <2>2. CASE o = 0
    <3>1. Filled(o)'
      BY <1>3, <2>2
    <3>2. EndOf(o) = Least(PacketPayload, Size)
      BY <2>2, FirstStart
    <3>3. volume' = EndOf(o) - Least(PacketPayload, Size)
      BY <1>5, <2>1, <3>2
    <3> QED
      BY <3>1, <3>3 DEF Exact
  <2>3. CASE o # 0
    <3>1. PacketPayload <= o
      BY <1>1, <2>3, FirstStart
    <3> QED
      BY <1>5, <2>1, <3>1 DEF Short
  <2> QED
    BY <2>2, <2>3
<1>7. CASE ~Emits(p)
  <2>1. zeroed /\ rx.payload # <<>>
    BY <1>1, <1>4, <1>7 DEF AccountInv
  <2>2. PICK last \in Starts : LastCopied(last) /\ (Exact(last) \/ Short(last))
    BY <1>1, <1>4, <2>1 DEF AccountInv
  <2>3. last < o
    <3>1. p.frame = cur
      BY <1>7, <2>1, KeptIsSameFrame
    <3> QED
      BY <2>2, <3>1 DEF LastCopied, Pending
  <2>4. /\ EndOf(last) = last + PacketPayload /\ EndOf(last) <= o
        /\ o = EndOf(last) \/ EndOf(last) + PacketPayload <= o
        /\ Least(PacketPayload, Size) = PacketPayload /\ last \in Nat
    BY <1>1, <2>3, PageBefore, PageSpan
  <2>5. volume' = volume + (EndOf(o) - o)
    BY <1>1, <1>5, <1>7 DEF VolumeAfter
  <2>6. CASE Exact(last) /\ o = EndOf(last)
    <3>1. volume' = EndOf(o) - Least(PacketPayload, Size)
      BY <1>5, <2>4, <2>5, <2>6 DEF Exact
    <3>2. Filled(o)'
      BY <1>3, <1>7, <2>1, <2>6 DEF Exact
    <3> QED
      BY <3>1, <3>2 DEF Exact
  <2>7. CASE Exact(last) /\ o # EndOf(last)
    BY <1>5, <2>4, <2>5, <2>7 DEF Exact, Short
  <2>8. CASE Short(last)
    BY <1>1, <1>5, <2>4, <2>5, <2>8 DEF Short
  <2> QED
    BY <2>2, <2>6, <2>7, <2>8
<1> QED
  BY <1>6, <1>7
(* The new frame in the fifo was whole if it counts as whole. *)
LEMMA WholeIfFull ==
    ASSUME ContentsInv, OneSize, PagesInv, AccountInv, ~confused, zeroed,
           NEW d \in net, ReceivePacket(d), NEW p, p = d.packet, Emits(p),
           volume + Len(p.data) >= Size
    PROVE  Holes(rx.payload) = {}
<1>1. /\ p.offset \in Starts /\ alive /\ rx.payload # <<>> /\ volume \in Int
      /\ p.offset + Len(p.data) = EndOf(p.offset) /\ Len(p.data) \in Nat
  BY PageReceived DEF Emits
<1>2. PICK last \in Starts : Exact(last) \/ Short(last)
  BY <1>1 DEF AccountInv
<1>3. /\ Size \in Nat \ {0} /\ PacketPayload \in Nat \ {0}
      /\ EndOf(last) \in Nat /\ EndOf(last) <= Size /\ p.offset \in Nat
  BY <1>1, PageSpan, SizeFacts
<1>4. Len(p.data) <= Least(PacketPayload, Size) /\ Least(PacketPayload, Size) \in Nat
      /\ Least(PacketPayload, Size) <= PacketPayload
  <2>1. EndOf(p.offset) = p.offset + Least(Size - p.offset, PacketPayload)
    BY DEF EndOf
  <2>2. Len(p.data) = Least(Size - p.offset, PacketPayload)
    <3> DEFINE l == Least(Size - p.offset, PacketPayload)
    <3>1. l \in Int
      BY <1>3 DEF Least
    <3> HIDE DEF l
    <3>2. Len(p.data) = l
      BY <1>1, <1>3, <2>1, <3>1 DEF l
    <3> QED
      BY <3>2 DEF l
  <2>3. Least(Size - p.offset, PacketPayload) <= Least(PacketPayload, Size)
    BY <1>3 DEF Least
  <2>4. Least(PacketPayload, Size) \in Nat /\ Least(PacketPayload, Size) <= PacketPayload
    BY <1>3 DEF Least
  <2> QED
    BY <2>2, <2>3, <2>4
<1>5. ~Short(last)
  BY <1>1, <1>3, <1>4 DEF Short
<1>6. Filled(last) /\ EndOf(last) = Size
  BY <1>1, <1>2, <1>3, <1>4, <1>5 DEF Exact
<1>7. Len(rx.payload) = Size
  BY <1>1, RxIsWhole
<1> QED
  BY <1>6, <1>7 DEF Filled, Holes

LEMMA ReceiveNoFalseFull ==
    ASSUME ContentsInv, OneSize, PagesInv, AccountInv, NoFalseFull,
           Ordered, Copies \subseteq {0, 1}, NEW d \in net, ReceivePacket(d)
    PROVE  NoFalseFull'
<1> DEFINE p == d.packet
           full(r) == r.zeroed /\ r.integrity.got >= r.integrity.of => Holes(r.payload) = {}
<1> SUFFICES ASSUME ~confused', NEW i \in 1..Len(fifo') PROVE full(fifo'[i])
  BY DEF NoFalseFull, SameSize, FramesFit
<1>1. ~confused /\ Target(p.head) = Size
  BY PageReceived DEF ReceivePacket
<1>2. \A j \in 1..Len(fifo) : full(fifo[j])
  BY <1>1 DEF NoFalseFull, OneSize
<1>3. CASE fifo' = fifo
  BY <1>2, <1>3
<1>4. CASE /\ Emits(p) /\ Len(fifo') = Len(fifo) + 1
           /\ \A j \in 1..Len(fifo) : fifo'[j] = fifo[j]
           /\ fifo'[Len(fifo) + 1] = ReadyFrame(p)
  <2>1. full(ReadyFrame(p))
    <3>1. /\ ReadyFrame(p).zeroed = zeroed /\ ReadyFrame(p).payload = rx.payload
          /\ ReadyFrame(p).integrity.got = volume + Len(p.data)
          /\ ReadyFrame(p).integrity.of = Size
      BY <1>1 DEF ReadyFrame, Integrity
    <3> QED
      BY <1>1, <1>4, <3>1, WholeIfFull
  <2>2. Len(fifo) \in Nat
    BY LenProperties DEF ContentsInv, SizesInv, TypeOK
  <2>3. i \in 1..Len(fifo) \/ i = Len(fifo) + 1
    BY <1>4, <2>2
  <2> HIDE DEF full
  <2> QED
    BY <1>2, <1>4, <2>1, <2>3
<1> QED
  BY <1>3, <1>4, ReceiveFifo DEF ContentsInv

(* Steps that leave the receiver's frame alone and bring no page of it.    *)
LEMMA AccountStays ==
    ASSUME AccountInv, UNCHANGED <<rx, volume, alive, cur, zeroed>>,
           confused' \/ UNCHANGED confused,
           \A q \in Pending' : q \in Pending \/ q.frame # cur
    PROVE  AccountInv'
<1>1. \A last \in Starts : LastCopied(last) => LastCopied(last)'
  BY DEF LastCopied
<1>2. \A last \in Starts : Exact(last) \/ Short(last) => (Exact(last) \/ Short(last))'
  BY DEF Exact, Short, Filled
<1> QED
  BY <1>1, <1>2 DEF AccountInv

LEMMA StepAccount ==
    ASSUME ContentsInv, OneSize, Ordered, Copies \subseteq {0, 1}, PagesInv,
           PipelineInv, AccountInv, [Next \/ RestartServer]_vars
    PROVE  AccountInv'
<1>1. ASSUME NEW pic \in Pictures, SendFrame(pic)
      PROVE  AccountInv'
  <2>1. \A q \in Pending' : q \in Pending \/ q.frame # cur
    BY <1>1, SendFrameFacts DEF Pending, TilesFrame
  <2> QED
    BY <1>1, <2>1, SendFrameFacts, AccountStays
<1>2. ASSUME NEW n \in Copies, SendPacket(n)
      PROVE  AccountInv'
  BY <1>2, SendPacketOnce, AccountStays
<1>3. ASSUME NEW d \in net, ReceivePacket(d)
      PROVE  AccountInv'
  BY <1>3, ReceiveAccount
<1>4. CASE ReadFrame
  BY <1>4, FewerPages, AccountStays DEF ReadFrame, tx_vars
<1>5. CASE RestartServer
  BY <1>5, FewerPages, EmptySeq, AccountStays DEF RestartServer, rx_vars
<1>6. CASE UNCHANGED vars
  BY <1>6, FewerPages, AccountStays DEF vars, tx_vars, rx_vars
<1> QED
  BY <1>1, <1>2, <1>3, <1>4, <1>5, <1>6 DEF Next

LEMMA StepNoFalseFull ==
    ASSUME ContentsInv, OneSize, Ordered, Copies \subseteq {0, 1}, PagesInv,
           AccountInv, NoFalseFull, [Next \/ RestartServer]_vars
    PROVE  NoFalseFull'
<1>1. ASSUME UNCHANGED fifo, confused' \/ UNCHANGED confused
      PROVE  NoFalseFull'
  BY <1>1 DEF NoFalseFull, SameSize, FramesFit
<1>2. ASSUME NEW pic \in Pictures, SendFrame(pic)
      PROVE  NoFalseFull'
  BY <1>1, <1>2, SendFrameFacts
<1>3. ASSUME NEW n \in Copies, SendPacket(n)
      PROVE  NoFalseFull'
  BY <1>1, <1>3, SendPacketOnce
<1>4. ASSUME NEW d \in net, ReceivePacket(d)
      PROVE  NoFalseFull'
  BY <1>4, ReceiveNoFalseFull
<1>5. CASE ReadFrame
  <2>1. /\ \A i \in 1..Len(fifo') : i + 1 \in 1..Len(fifo) /\ fifo'[i] = fifo[i + 1]
        /\ confused' = confused
    BY <1>5, ReadFrameFacts DEF ContentsInv, ReadFrame
  <2> QED
    BY <2>1 DEF NoFalseFull, SameSize, FramesFit
<1>6. CASE RestartServer
  BY <1>1, <1>6 DEF RestartServer, rx_vars
<1>7. CASE UNCHANGED vars
  BY <1>1, <1>7 DEF vars, rx_vars
<1> QED
  BY <1>2, <1>3, <1>4, <1>5, <1>6, <1>7 DEF Next

LEMMA InitPages == Init => PagesInv /\ PipelineInv /\ Pending = {}
<1> SUFFICES ASSUME Init PROVE PagesInv /\ PipelineInv /\ Pending = {}
  OBVIOUS
<1>1. net = {} /\ packs = <<>> /\ Len(packs) = 0
  BY EmptySeq DEF Init
<1>2. Pending = {}
  BY <1>1 DEF Pending
<1> QED
  BY <1>1, <1>2 DEF PagesInv, PipelineInv

(* Without a picture there is no frame. *)
LEMMA NoPicturesNoFrames ==
    ASSUME ContentsInv, Pictures = {}
    PROVE  1..Len(fifo) = {}
<1> SUFFICES ASSUME NEW i \in 1..Len(fifo) PROVE FALSE
  OBVIOUS
<1>1. fifo[i].src \in 1..Len(sent) /\ sent \in Seq(Pictures)
  BY DEF ContentsInv, SizesInv, FifoDescribesSource, TypeOK
<1>2. sent[fifo[i].src] \in Pictures
  BY <1>1
<1> QED
  BY <1>2

(* On a network that loses datagrams but keeps their order and doubles     *)
(* none, and with frames of one size: a frame the client reports as full,  *)
(* or more, has every byte, for any page and picture size, whatever is     *)
(* lost and however often the server starts anew, until two frames meet    *)
(* under one identifier (Manager::handle_packet, make_ready_frame).        *)
THEOREM FullMeansWhole == RestartSpec => []NoFalseFull
<1>1. Init => LossyInv
  <2> SUFFICES ASSUME Init PROVE AccountInv /\ NoFalseFull
    BY InitPages DEF LossyInv
  <2>1. rx.payload = <<>> /\ ~zeroed /\ fifo = <<>> /\ Len(fifo) = 0
    BY EmptySeq DEF Init
  <2> QED
    BY <2>1 DEF AccountInv, NoFalseFull
<1>2. ContentsInv /\ LossyInv /\ [Next \/ RestartServer]_vars => LossyInv'
  <2> SUFFICES ASSUME ContentsInv, LossyInv, [Next \/ RestartServer]_vars,
                      Ordered, Copies \subseteq {0, 1}, OneSize
               PROVE  PagesInv' /\ PipelineInv' /\ AccountInv' /\ NoFalseFull'
    BY DEF LossyInv, OneSize, SameSize, FramesFit
  <2>1. PagesInv /\ PipelineInv /\ AccountInv /\ NoFalseFull
    BY DEF LossyInv
  <2> QED
    BY <2>1, StepPages, StepAccount, StepNoFalseFull
<1>3. ContentsInv /\ LossyInv => NoFalseFull
  <2> SUFFICES ASSUME ContentsInv, LossyInv PROVE NoFalseFull
    OBVIOUS
  <2>1. CASE Pictures = {}
    BY <2>1, NoPicturesNoFrames DEF NoFalseFull
  <2>2. CASE Pictures # {}
    BY <2>2 DEF LossyInv, OneSize, NoFalseFull
  <2> QED
    BY <2>1, <2>2
<1> QED
  BY InitContents, StepContents, <1>1, <1>2, <1>3, PTL DEF RestartSpec
---------------------------------------------------------------------------
(* A network that loses nothing. *)

(* The oldest page in flight is the one the receiver waits for. *)
LEMMA OldestComesAfter ==
    ASSUME ContentsInv, OneSize, Ordered, PagesInv, NEW last \in Starts, Seamless(last),
           NEW d \in net, ReceivePacket(d), NEW p, p = d.packet
    PROVE  ComesAfter(p, cur, last)
<1> SUFFICES ASSUME NEW e \in net, ComesAfter(p, e.packet.frame, e.packet.offset)
             PROVE  FALSE
  BY DEF Seamless, ComesNext
<1>1. e.packet \in Pending /\ e.packet.frame \in Nat
  BY InNet, PacketsFields DEF Pending, ContentsInv
<1>2. /\ e.packet.offset \in Nat /\ EndOf(e.packet.offset) \in Nat
      /\ e.packet.offset < EndOf(e.packet.offset)
  BY <1>1, PageSpan DEF PagesInv
<1>3. \/ p.frame < e.packet.frame
      \/ p.frame = e.packet.frame /\ p.offset <= e.packet.offset
  BY DEF ReceivePacket, Oldest
<1> QED
  BY <1>1, <1>2, <1>3 DEF ComesAfter

(* Nothing but that page follows the one copied last. *)
LEMMA OneSuccessor ==
    ASSUME OneSize, NEW o, NEW k \in Nat, NEW p, NEW q,
           p.offset \in Starts, q.offset \in Starts,
           ComesAfter(p, k, o), ComesAfter(q, k, o)
    PROVE  p.frame = q.frame /\ p.offset = q.offset
<1>1. Size \notin Starts
  BY SizeFacts DEF Starts
<1> QED
  BY <1>1 DEF ComesAfter

LEMMA ReceiveSeamless ==
    ASSUME ContentsInv, OneSize, Ordered, PagesInv, PipelineInv,
           NEW last \in Starts, Seamless(last),
           NEW d \in net, ReceivePacket(d), NEW p, p = d.packet
    PROVE  Seamless(p.offset)'
<1>1. /\ cur' = p.frame /\ net' = net \ {d} /\ packs' = packs /\ sent' = sent
      /\ p.frame \in 1..Len(sent) /\ p.offset \in Starts
  BY PageReceived
<1>2. ComesAfter(p, cur, last) /\ cur \in Nat /\ cur <= Len(sent)
  BY OldestComesAfter DEF ContentsInv, SizesInv, TypeOK
<1>3. ASSUME NEW q \in Pending, ComesNext(q, last),
             ~(q.frame = p.frame /\ q.offset = p.offset)
      PROVE  ComesNext(q, p.offset)'
  <2>1. ~ComesAfter(q, cur, last)
    BY <1>1, <1>2, <1>3, OneSuccessor DEF PagesInv
  <2>2. PICK e \in net : ComesAfter(q, e.packet.frame, e.packet.offset)
    BY <1>3, <2>1 DEF ComesNext
  <2> QED
    BY <1>1, <2>2 DEF ComesNext, ComesAfter
<1>4. ASSUME NEW e \in net'
      PROVE  ComesNext(e.packet, p.offset)'
  <2>1. e \in net /\ e # d /\ e.packet \in Pending
    BY <1>1 DEF Pending
  <2>2. ComesNext(e.packet, last)
    BY <2>1 DEF Seamless
  <2>3. ~(e.packet.frame = p.frame /\ e.packet.offset = p.offset)
    BY <2>1 DEF PipelineInv
  <2> QED
    BY <1>3, <2>1, <2>2, <2>3
<1>5. ASSUME packs # <<>>
      PROVE  ComesNext(packs[1], p.offset)'
  <2>1. 1 \in 1..Len(packs)
    BY <1>5, EmptySeq DEF ContentsInv, SizesInv, TypeOK
  <2>2. packs[1] \in Pending /\ ComesNext(packs[1], last)
    BY <1>5, <2>1 DEF Pending, Seamless
  <2>3. ~(packs[1].frame = p.frame /\ packs[1].offset = p.offset)
    <3>1. p.offset \in Nat
      BY <1>1 DEF Starts
    <3> QED
      BY <2>1, <3>1 DEF PipelineInv
  <2>4. ComesNext(packs[1], p.offset)'
    BY <1>1, <1>3, <2>2, <2>3
  <2> QED
    BY <2>4
<1>6. ASSUME packs = <<>>
      PROVE  AllSent(p.offset)'
  <2>1. AllSent(last)
    BY <1>6 DEF Seamless
  <2>2. ~(cur = Len(sent) /\ EndOf(last) = Size)
    <3>1. Size \notin Starts
      BY SizeFacts DEF Starts
    <3> QED
      BY <1>1, <1>2, <3>1 DEF ComesAfter
  <2>3. PICK e \in net : e.packet.frame = Len(sent) /\ EndOf(e.packet.offset) = Size
    BY <2>1, <2>2 DEF AllSent
  <2> QED
    BY <1>1, <2>3 DEF AllSent
<1> QED
  BY <1>1, <1>4, <1>5, <1>6 DEF Seamless, ComesAfter

(* A page that leaves rx as it is keeps the frame, one that comes after    *)
(* the last page of the frame completes it, unless all identifiers are     *)
(* one.                                                                    *)
LEMMA NextPage ==
    ASSUME ContentsInv, IdsCountFrames, OneSize, PagesInv, GaplessInv, NEW last \in Starts,
           NEW d \in net, ReceivePacket(d), NEW p, p = d.packet,
           ComesAfter(p, cur, last), rx.payload = <<>> => EndOf(last) = Size
    PROVE  /\ IF IdMod = 1 THEN ~Emits(p) ELSE ~confused'
           /\ p.offset = 0 \/ (~Emits(p) /\ rx.payload # <<>> /\ p.offset = EndOf(last))
           /\ Emits(p) => p.offset = 0 /\ EndOf(last) = Size
           /\ IdMod # 1 /\ ~Emits(p) /\ rx.payload # <<>> => p.offset = EndOf(last)
<1>1. /\ p.offset \in Starts /\ p.frame \in 1..Len(sent) /\ alive
      /\ cur \in Nat /\ Size \notin Starts /\ IdMod \in Nat \ {0}
  <2>1. p.offset \in Starts /\ p.frame \in 1..Len(sent) /\ alive
    BY PageReceived
  <2>2. cur \in Nat
    BY DEF ContentsInv, SizesInv, TypeOK
  <2> QED
    BY <2>1, <2>2, SizeFacts, TransportAssumption DEF Starts
<1>2. Emits(p) => p.frame # cur
  BY <1>1, EmitsOther
<1>3. IdMod = 1 => ~Emits(p)
  <2>1. p.frame_id \in FrameIds /\ rx.frame_id \in FrameIds
    BY InNet, PacketsFields, RxFields DEF ContentsInv, SizesInv
  <2> QED
    BY <2>1 DEF FrameIds, Emits
<1>4. IdMod # 1 => ~confused'
  <2>1. Distance(cur, p.frame) \in 0..1
    BY <1>1 DEF ComesAfter, Distance
  <2>2. IdMod # 1 => ~(Distance(cur, p.frame) >= IdMod)
    BY <1>1, <2>1
  <2>3. IdMod # 1 => ~Mistaken(p)
    BY <1>1, <2>2, MistakenFar
  <2>4. confused' = (confused \/ Mistaken(p))
    BY DEF ReceivePacket
  <2> QED
    BY <2>3, <2>4 DEF GaplessInv
<1>5. IdMod # 1 /\ ~Emits(p) /\ rx.payload # <<>> => p.frame = cur
  BY <1>4, KeptIsSameFrame
<1>6. p.frame # cur => p.offset = 0 /\ EndOf(last) = Size
  BY DEF ComesAfter
<1>7. p.frame = cur => p.offset = EndOf(last) /\ rx.payload # <<>>
  BY <1>1 DEF ComesAfter
<1> QED
  BY <1>2, <1>3, <1>4, <1>5, <1>6, <1>7

LEMMA ReceiveGapless ==
    ASSUME ContentsInv, IdsCountFrames, OneSize, Ordered, PagesInv, PipelineInv, GaplessInv,
           NEW d \in net, ReceivePacket(d)
    PROVE  GaplessInv'
<1> DEFINE p == d.packet
           o == p.offset
<1>1. /\ o \in Starts /\ volume' = VolumeAfter(p) /\ volume \in Int
      /\ p.offset + Len(p.data) = EndOf(p.offset) /\ Len(p.data) \in Nat
      /\ zeroed' = (zeroed \/ Emits(p)) /\ rx'.payload # <<>> /\ alive'
  BY PageReceived
<1>2. PICK last \in Starts :
         /\ Seamless(last)
         /\ IF rx.payload = <<>> THEN EndOf(last) = Size
            ELSE LastCopied(last) /\ Filled(last) /\ (zeroed => Exact(last))
  BY DEF GaplessInv
<1>3. ComesAfter(p, cur, last)
  BY <1>2, OldestComesAfter
<1>4. /\ IF IdMod = 1 THEN ~Emits(p) ELSE ~confused'
      /\ o = 0 \/ (~Emits(p) /\ rx.payload # <<>> /\ o = EndOf(last))
      /\ Emits(p) => o = 0 /\ EndOf(last) = Size
      /\ IdMod # 1 /\ ~Emits(p) /\ rx.payload # <<>> => o = EndOf(last)
  BY <1>2, <1>3, NextPage
<1>5. Seamless(o)' /\ LastCopied(o)'
  BY <1>2, ReceiveSeamless, ReceiveLast
<1>6. Filled(o)'
  BY <1>2, <1>4, ReceiveFills
<1>7. IF IdMod = 1 THEN ~zeroed' ELSE ~confused'
  BY <1>1, <1>4 DEF GaplessInv
<1>8. ASSUME zeroed' PROVE Exact(o)'
  <2>1. o \in Nat /\ EndOf(o) \in Nat /\ Size \in Nat /\ PacketPayload \in Nat
    BY <1>1, PageSpan, SizeFacts
  <2>2. CASE Emits(p)
    <3>1. EndOf(o) = Least(PacketPayload, Size) /\ volume' = 0
      BY <1>1, <1>4, <2>2, FirstStart DEF VolumeAfter
    <3> QED
      BY <1>6, <2>1, <3>1 DEF Exact
  <2>3. CASE ~Emits(p)
    <3>1. zeroed /\ rx.payload # <<>> /\ IdMod # 1
      BY <1>1, <1>7, <1>8, <2>3 DEF GaplessInv
    <3>2. volume = o - Least(PacketPayload, Size)
      BY <1>2, <1>4, <2>3, <3>1 DEF Exact
    <3>3. volume' = volume + Len(p.data)
      BY <1>1, <2>3 DEF VolumeAfter
    <3>4. Least(PacketPayload, Size) \in Nat
      BY <2>1 DEF Least
    <3>5. volume' = EndOf(o) - Least(PacketPayload, Size)
      <4> DEFINE l == Least(PacketPayload, Size)
                 e == EndOf(o)
      <4>1. /\ volume = o - l /\ volume' = volume + Len(p.data)
            /\ o + Len(p.data) = e
            /\ o \in Nat /\ e \in Nat /\ l \in Nat /\ Len(p.data) \in Nat
        BY <1>1, <2>1, <3>2, <3>3, <3>4
      <4> HIDE DEF l, e, o, p
      <4>2. volume' = e - l
        BY <4>1
      <4> QED
        BY <4>2 DEF l, e
    <3> QED
      BY <1>6, <3>5 DEF Exact
  <2> QED
    BY <2>2, <2>3
<1> QED
  BY <1>1, <1>5, <1>6, <1>7, <1>8 DEF GaplessInv

LEMMA ReceiveExact ==
    ASSUME ContentsInv, IdsCountFrames, OneSize, PagesInv, GaplessInv, LosslessExact,
           Ordered, Copies = {1}, NEW d \in net, ReceivePacket(d)
    PROVE  LosslessExact'
<1> DEFINE p == d.packet
           exact(r) == /\ Holes(r.payload) = {}
                       /\ r.zeroed => r.integrity.got = r.integrity.of
<1> SUFFICES ASSUME NEW i \in 1..Len(fifo') PROVE exact(fifo'[i])
  BY DEF LosslessExact
<1>1. \A j \in 1..Len(fifo) : exact(fifo[j])
  BY DEF LosslessExact, OneSize
<1>2. CASE fifo' = fifo
  BY <1>1, <1>2
<1>3. CASE /\ Emits(p) /\ Len(fifo') = Len(fifo) + 1
           /\ \A j \in 1..Len(fifo) : fifo'[j] = fifo[j]
           /\ fifo'[Len(fifo) + 1] = ReadyFrame(p)
  <2>1. rx.payload # <<>> /\ alive
    BY <1>3 DEF Emits, GaplessInv
  <2>2. PICK last \in Starts :
           Seamless(last) /\ Filled(last) /\ (zeroed => Exact(last))
    BY <2>1 DEF GaplessInv
  <2>3. p.offset = 0 /\ EndOf(last) = Size
    <3>1. ComesAfter(p, cur, last)
      BY <2>2, OldestComesAfter
    <3> QED
      BY <1>3, <2>1, <3>1, NextPage
  <2>4. Holes(rx.payload) = {}
    BY <2>1, <2>2, <2>3, RxIsWhole DEF Filled, Holes
  <2>5. zeroed => volume + Len(p.data) = Size
    <3>1. p.offset + Len(p.data) = EndOf(p.offset) /\ Len(p.data) \in Nat
      BY PageReceived
    <3>2. Len(p.data) = Least(PacketPayload, Size)
      BY <2>3, <3>1, FirstStart
    <3> QED
      BY <2>2, <2>3, <3>1, <3>2, SizeFacts DEF Exact
  <2>6. exact(ReadyFrame(p))
    <3>1. Target(p.head) = Size
      BY PageReceived
    <3>2. /\ ReadyFrame(p).zeroed = zeroed /\ ReadyFrame(p).payload = rx.payload
          /\ ReadyFrame(p).integrity.got = volume + Len(p.data)
          /\ ReadyFrame(p).integrity.of = Size
      BY <3>1 DEF ReadyFrame, Integrity
    <3> QED
      BY <2>4, <2>5, <3>2
  <2>7. Len(fifo) \in Nat
    BY LenProperties DEF ContentsInv, SizesInv, TypeOK
  <2>8. i \in 1..Len(fifo) \/ i = Len(fifo) + 1
    BY <1>3, <2>7
  <2> HIDE DEF exact
  <2> QED
    BY <1>1, <1>3, <2>6, <2>8
<1> QED
  BY <1>2, <1>3, ReceiveFifo DEF ContentsInv

(* A frame is cut into pages only after the last page of the one before    *)
(* has left.                                                               *)
LEMMA SendFrameGapless ==
    ASSUME ContentsInv, OneSize, GaplessInv, NEW pic \in Pictures, SendFrame(pic)
    PROVE  GaplessInv'
<1>1. PICK last \in Starts :
         /\ Seamless(last)
         /\ IF rx.payload = <<>> THEN EndOf(last) = Size
            ELSE LastCopied(last) /\ Filled(last) /\ (zeroed => Exact(last))
  BY DEF GaplessInv
<1>2. /\ packs = <<>> /\ packs' # <<>> /\ Len(sent) \in Nat
      /\ TilesFrame(packs', Len(sent) + 1) /\ cur \in 0..Len(sent)
      /\ UNCHANGED <<net, rx, volume, alive, cur, zeroed, confused>>
  BY SendFrameFacts
<1>3. \A q \in Pending' : q \in Pending \/ q.frame # cur
  BY <1>2 DEF Pending, TilesFrame
<1>4. LastCopied(last) => LastCopied(last)'
  BY <1>2, <1>3 DEF LastCopied
<1>5. Seamless(last)'
  <2>1. \A d \in net' : ComesNext(d.packet, last)'
    BY <1>1, <1>2 DEF Seamless, ComesNext, ComesAfter
  <2>2. ComesNext(packs[1], last)'
    <3>1. AllSent(last)
      BY <1>1, <1>2 DEF Seamless
    <3>2. packs'[1].frame = Len(sent) + 1 /\ packs'[1].offset = 0
      BY <1>2 DEF TilesFrame
    <3>3. ASSUME NEW e \in net, e.packet.frame = Len(sent), EndOf(e.packet.offset) = Size
          PROVE  ComesAfter(packs'[1], e.packet.frame, e.packet.offset)
      BY <3>2, <3>3 DEF ComesAfter
    <3>4. cur = Len(sent) /\ EndOf(last) = Size => ComesAfter(packs'[1], cur, last)
      BY <3>2 DEF ComesAfter
    <3> QED
      BY <1>2, <3>1, <3>3, <3>4 DEF AllSent, ComesNext, ComesAfter
  <2>3. /\ \A i \in 1..(Len(packs') - 1) :
              ComesAfter(packs'[i + 1], packs'[i].frame, packs'[i].offset)
        /\ EndOf(packs'[Len(packs')].offset) = Size
    <3>1. \A i \in 1..(Len(packs') - 1) : i \in 1..Len(packs') /\ i + 1 \in 1..Len(packs')
      BY <1>2 DEF TilesFrame
    <3> QED
      BY <1>2, <3>1 DEF TilesFrame, ComesAfter
  <2> QED
    BY <1>2, <2>1, <2>2, <2>3 DEF Seamless, ComesAfter
<1> QED
  BY <1>1, <1>2, <1>4, <1>5 DEF GaplessInv, Filled, Exact

LEMMA SendPacketGapless ==
    ASSUME ContentsInv, OneSize, GaplessInv, Copies = {1}, NEW n \in Copies, SendPacket(n)
    PROVE  GaplessInv'
<1>1. PICK last \in Starts :
         /\ Seamless(last)
         /\ IF rx.payload = <<>> THEN EndOf(last) = Size
            ELSE LastCopied(last) /\ Filled(last) /\ (zeroed => Exact(last))
  BY DEF GaplessInv
<1> DEFINE e == [copy |-> 1, packet |-> packs[1]]
<1>2. /\ Len(packs) \in Nat \ {0} /\ Len(packs') = Len(packs) - 1
      /\ \A i \in 1..Len(packs') : i + 1 \in 1..Len(packs) /\ packs'[i] = packs[i + 1]
      /\ net' = net \cup {e} /\ Pending' \subseteq Pending
      /\ UNCHANGED <<sent, rx, volume, alive, cur, zeroed, confused>>
  BY SendPacketOnce
<1>3. packs # <<>> /\ 1 \in 1..Len(packs) /\ e.packet = packs[1] /\ e \in net'
  BY <1>2 DEF SendPacket
<1>4. /\ ComesNext(packs[1], last)
      /\ \A i \in 1..(Len(packs) - 1) :
            ComesAfter(packs[i + 1], packs[i].frame, packs[i].offset)
      /\ EndOf(packs[Len(packs)].offset) = Size
  BY <1>1, <1>3 DEF Seamless
<1> HIDE DEF e
<1>5. \A q : ComesNext(q, last) => ComesNext(q, last)'
  BY <1>2 DEF ComesNext, ComesAfter
<1>6. \A d \in net' : ComesNext(d.packet, last)'
  BY <1>1, <1>2, <1>3, <1>4, <1>5 DEF Seamless
<1>7. ASSUME packs' = <<>> PROVE AllSent(last)'
  <2>1. Len(packs) = 1
    BY <1>2, <1>7, EmptySeq
  <2>2. packs[1].frame = Len(sent)
    BY <1>3 DEF ContentsInv, SizesInv, PacketsFromFrames
  <2> QED
    BY <1>2, <1>3, <1>4, <2>1, <2>2 DEF AllSent
<1>8. ASSUME packs' # <<>>
      PROVE  /\ ComesNext(packs[1], last)'
             /\ \A i \in 1..(Len(packs') - 1) :
                   ComesAfter(packs'[i + 1], packs'[i].frame, packs'[i].offset)
             /\ EndOf(packs'[Len(packs')].offset) = Size
  <2>1. Len(packs') \in Nat \ {0}
    BY <1>2, <1>8, EmptySeq, SendPacketFacts DEF ContentsInv
  <2>2. packs'[1] = packs[2] /\ packs'[Len(packs')] = packs[Len(packs)]
    <3>1. 1 \in 1..Len(packs') /\ Len(packs') \in 1..Len(packs')
      BY <2>1
    <3>2. packs'[1] = packs[1 + 1] /\ packs'[Len(packs')] = packs[Len(packs') + 1]
      BY <1>2, <3>1
    <3> QED
      BY <1>2, <3>2
  <2>3. ComesNext(packs[1], last)'
    <3>1. ComesAfter(packs[1 + 1], packs[1].frame, packs[1].offset) /\ 1 + 1 = 2
      BY <1>2, <1>4, <2>1
    <3>2. ComesAfter(packs'[1], e.packet.frame, e.packet.offset)
      BY <1>3, <2>2, <3>1
    <3> QED
      BY <1>3, <3>2 DEF ComesNext, ComesAfter
  <2>4. ASSUME NEW i \in 1..(Len(packs') - 1)
        PROVE  ComesAfter(packs'[i + 1], packs'[i].frame, packs'[i].offset)
    <3>1. i \in 1..Len(packs') /\ i + 1 \in 1..Len(packs') /\ i + 1 \in 1..(Len(packs) - 1)
      BY <1>2, <2>1
    <3>2. packs'[i] = packs[i + 1] /\ packs'[i + 1] = packs[i + 1 + 1]
      BY <1>2, <3>1
    <3> QED
      BY <1>4, <3>1, <3>2
  <2> QED
    BY <1>4, <2>2, <2>3, <2>4
<1>9. Seamless(last)'
  BY <1>6, <1>7, <1>8 DEF Seamless, ComesAfter
<1>10. LastCopied(last) => LastCopied(last)'
  BY <1>2 DEF LastCopied
<1> QED
  BY <1>1, <1>2, <1>9, <1>10 DEF GaplessInv, Filled, Exact

LEMMA GaplessStays ==
    ASSUME GaplessInv, UNCHANGED <<sent, packs, net, rx, volume, alive, cur, zeroed, confused>>
    PROVE  GaplessInv'
<1>1. Pending' = Pending
  BY DEF Pending
<1>2. \A last \in Starts :
         (Seamless(last) => Seamless(last)') /\ (LastCopied(last) => LastCopied(last)')
  BY <1>1 DEF Seamless, ComesNext, ComesAfter, AllSent, LastCopied
<1> QED
  BY <1>2 DEF GaplessInv, Filled, Exact

LEMMA StepGapless ==
    ASSUME ContentsInv, IdsCountFrames, OneSize, Ordered, Copies = {1}, PagesInv,
           PipelineInv, GaplessInv, LosslessExact, [Next]_vars
    PROVE  GaplessInv' /\ LosslessExact'
<1>1. ASSUME UNCHANGED fifo PROVE LosslessExact'
  BY <1>1 DEF LosslessExact, SameSize, FramesFit
<1>2. ASSUME NEW pic \in Pictures, SendFrame(pic)
      PROVE  GaplessInv' /\ LosslessExact'
  BY <1>1, <1>2, SendFrameGapless, SendFrameFacts
<1>3. ASSUME NEW n \in Copies, SendPacket(n)
      PROVE  GaplessInv' /\ LosslessExact'
  BY <1>1, <1>3, SendPacketGapless, SendPacketOnce
<1>4. ASSUME NEW d \in net, ReceivePacket(d)
      PROVE  GaplessInv' /\ LosslessExact'
  BY <1>4, ReceiveGapless, ReceiveExact
<1>5. CASE ReadFrame
  <2>1. \A i \in 1..Len(fifo') : i + 1 \in 1..Len(fifo) /\ fifo'[i] = fifo[i + 1]
    BY <1>5, ReadFrameFacts DEF ContentsInv
  <2>2. LosslessExact'
    BY <2>1 DEF LosslessExact, SameSize, FramesFit
  <2> QED
    BY <1>5, <2>2, GaplessStays DEF ReadFrame, tx_vars
<1>6. CASE UNCHANGED vars
  BY <1>1, <1>6, GaplessStays DEF vars, tx_vars, rx_vars
<1> QED
  BY <1>2, <1>3, <1>4, <1>5, <1>6 DEF Next

LEMMA InitGapless ==
    ASSUME Init, OneSize
    PROVE  GaplessInv /\ LosslessExact
<1>1. /\ sent = <<>> /\ net = {} /\ packs = <<>> /\ rx.payload = <<>> /\ fifo = <<>>
      /\ alive /\ cur = 0 /\ ~zeroed /\ ~confused
  BY DEF Init
<1>2. Len(sent) = 0 /\ Len(fifo) = 0
  BY <1>1, EmptySeq
<1>3. PICK last \in Starts : EndOf(last) = Size
  BY LastStart
<1>4. Seamless(last)
  BY <1>1, <1>2, <1>3 DEF Seamless, AllSent
<1> QED
  BY <1>1, <1>2, <1>3, <1>4 DEF GaplessInv, LosslessExact

(* On a network that keeps the order and loses nothing, and with frames of *)
(* one size: every frame handed over is whole, and the share the client    *)
(* prints for it is exactly all of it, from the second frame on            *)
(* (Manager::handle_packet).                                               *)
THEOREM LosslessIsExact == Spec => []LosslessExact
<1>1. Init => LosslessInv
  BY InitPages, InitGapless DEF LosslessInv
<1>2. ContentsInv /\ IdsCountFrames /\ LosslessInv /\ [Next]_vars => LosslessInv'
  <2> SUFFICES ASSUME ContentsInv, IdsCountFrames, LosslessInv, [Next]_vars,
                      Ordered, Copies = {1}, OneSize
               PROVE  PagesInv' /\ PipelineInv' /\ GaplessInv' /\ LosslessExact'
    BY DEF LosslessInv, OneSize, SameSize, FramesFit
  <2>1. PagesInv /\ PipelineInv /\ GaplessInv /\ LosslessExact
    BY DEF LosslessInv
  <2>2. Copies \subseteq {0, 1} /\ [Next \/ RestartServer]_vars
    OBVIOUS
  <2> QED
    BY <2>1, <2>2, StepPages, StepGapless
<1>3. ContentsInv /\ LosslessInv => LosslessExact
  <2> SUFFICES ASSUME ContentsInv, LosslessInv PROVE LosslessExact
    OBVIOUS
  <2>1. CASE Pictures = {}
    BY <2>1, NoPicturesNoFrames DEF LosslessExact
  <2>2. CASE Pictures # {}
    BY <2>2 DEF LosslessInv, OneSize, LosslessExact
  <2> QED
    BY <2>1, <2>2
<1>4. [Next]_vars => [Next \/ RestartServer]_vars
  OBVIOUS
<1> QED
  BY InitContents, StepContents, InitIds, StepIds, <1>1, <1>2, <1>3, <1>4, PTL DEF Spec
===========================================================================
