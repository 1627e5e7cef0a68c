------------------------ MODULE PacketHeaderProofs ------------------------
(* The header's round trip, for every base and every header.               *)
EXTENDS PacketHeader, PageLemmas

LEMMA DivDiv ==
    ASSUME NEW a \in Nat \ {0}, NEW b \in Nat \ {0}, NEW x \in Nat
    PROVE  /\ a * b \in Nat \ {0}
           /\ x \div (a * b) = (x \div a) \div b
           /\ x % (a * b) = (x % a) + a * ((x \div a) % b)
<1> DEFINE q == x \div a
           r == x % a
           s == q \div b
           t == q % b
           z == a * t + r
           m == a * b
<1>1. q \in Nat /\ r \in 0..(a - 1) /\ x = a * q + r
  BY DivModDef
<1>2. s \in Nat /\ t \in 0..(b - 1) /\ q = b * s + t
  <2> HIDE DEF q
  <2> QED
    BY <1>1, DivModDef
<1> HIDE DEF q, r, s, t
<1>3. m \in Nat \ {0}
  OBVIOUS
<1>4. \A u, v \in Nat : u * v \in Nat
  OBVIOUS
<1>5. z \in 0..(m - 1)
  <2>1. b - 1 - t \in Nat
    BY <1>2
  <2>2. a * (b - 1 - t) \in Nat
    BY <1>4, <2>1
  <2>3. a * (b - 1 - t) = m - a - a * t
    BY <1>2
  <2>4. a * t \in Nat
    BY <1>2, <1>4
  <2> HIDE DEF m
  <2> QED
    BY <1>1, <1>3, <2>2, <2>3, <2>4
<1>6. x = m * s + z
  <2>1. a * q = a * (b * s) + a * t
    BY <1>1, <1>2
  <2>2. a * (b * s) = m * s
    BY <1>2
  <2>3. a * q \in Int /\ a * t \in Int /\ m * s \in Int
    BY <1>1, <1>2, <1>3, <1>4
  <2> HIDE DEF m
  <2> QED
    BY <1>1, <2>1, <2>2, <2>3
<1> HIDE DEF z, m
<1>7. x \div m = s /\ x % m = z
  BY <1>2, <1>3, <1>5, <1>6, DivModUnique
<1> QED
  BY <1>3, <1>7 DEF m, z, s, t, q, r

(* Two bytes make up a number below Base^2, four one below Base^4.         *)
LEMMA TwoBytesOf ==
    ASSUME NEW v \in Nat
    PROVE  ByteOf(v, 1) + ByteOf(v, 2) * Base = v % (Base * Base)
<1>1. v \div 1 = v
  OBVIOUS
<1>2. Base \in Nat \ {0} /\ (v \div Base) % Base \in Nat
  BY HeaderAssumption, DivModDef
<1>3. v % (Base * Base) = (v % Base) + Base * ((v \div Base) % Base)
  BY <1>2, DivDiv
<1>4. ByteOf(v, 1) = v % Base /\ ByteOf(v, 2) = (v \div Base) % Base
  BY <1>1 DEF ByteOf, Scale
<1>5. Base * ((v \div Base) % Base) = ((v \div Base) % Base) * Base
  BY <1>2
<1> QED
  BY <1>3, <1>4, <1>5

LEMMA FourBytesOf ==
    ASSUME NEW v \in Nat
    PROVE  ByteOf(v, 1) + ByteOf(v, 2) * Scale[2] + ByteOf(v, 3) * Scale[3]
              + ByteOf(v, 4) * Scale[4]
           = v % ((Base * Base) * (Base * Base))
<1> DEFINE M == Base * Base
           w == v \div M
<1>1. Base \in Nat \ {0} /\ M \in Nat \ {0}
  BY HeaderAssumption, DivDiv
<1>2. w \in Nat
  BY <1>1, DivModDef
<1>3. v % (M * M) = (v % M) + M * (w % M)
  BY <1>1, DivDiv
<1>4. v % M = ByteOf(v, 1) + ByteOf(v, 2) * Base
  BY TwoBytesOf
<1>5. w % M = (w % Base) + Base * ((w \div Base) % Base)
  BY <1>1, <1>2, DivDiv
<1>6. v \div (M * Base) = w \div Base
  BY <1>1, DivDiv
<1>7. ByteOf(v, 3) = w % Base /\ ByteOf(v, 4) = (w \div Base) % Base
  BY <1>6 DEF ByteOf, Scale
<1>8. Scale[2] = Base /\ Scale[3] = M /\ Scale[4] = M * Base
  BY DEF Scale
<1> DEFINE c == w % Base
           d == (w \div Base) % Base
<1>9. c \in Nat /\ d \in Nat
  BY <1>1, <1>2, DivModDef
<1> HIDE DEF M, w, c, d
<1>10. M * (c + Base * d) = c * M + d * (M * Base)
  BY <1>1, <1>9
<1>11. w % M = c + Base * d /\ ByteOf(v, 3) = c /\ ByteOf(v, 4) = d
  BY <1>5, <1>7 DEF c, d
<1>12. v % (M * M) = ByteOf(v, 1) + ByteOf(v, 2) * Base + (c * M + d * (M * Base))
  BY <1>3, <1>4, <1>10, <1>11
<1>13. /\ ByteOf(v, 1) \in Int /\ ByteOf(v, 2) * Base \in Int
       /\ c * M \in Int /\ d * (M * Base) \in Int
  <2>1. ByteOf(v, 1) \in Nat /\ ByteOf(v, 2) \in Nat
    <3>1. v \div 1 = v /\ v \div Base \in Nat
      BY <1>1, DivModDef
    <3> QED
      BY <1>1, <3>1, DivModDef DEF ByteOf, Scale
  <2>2. \A m, n \in Nat : m * n \in Int
    OBVIOUS
  <2>3. M * Base \in Nat
    BY <1>1
  <2> QED
    BY <1>1, <1>9, <2>1, <2>2, <2>3
<1> QED
  BY <1>8, <1>11, <1>12, <1>13 DEF M

(* One byte, which is a field's first and only one.                        *)
LEMMA OneByteOf ==
    ASSUME NEW v \in Nat
    PROVE  ByteOf(v, 1) = v % Base
<1>1. v \div 1 = v
  OBVIOUS
<1> QED
  BY <1>1 DEF ByteOf, Scale

(* Where Encode puts the k-th byte of a field.                             *)
LEMMA Layout ==
    ASSUME NEW h
    PROVE  /\ \A f \in {"frame_id", "packet_id", "image_x_size", "image_y_size",
                        "pixel_size"} :
                /\ Encode(h)[First(f)] = ByteOf(h[f], 1)
                /\ Encode(h)[First(f) + 1] = ByteOf(h[f], 2)
           /\ \A f \in {"packet_offset", "compressed_size"} :
                /\ Encode(h)[First(f)] = ByteOf(h[f], 1)
                /\ Encode(h)[First(f) + 1] = ByteOf(h[f], 2)
                /\ Encode(h)[First(f) + 2] = ByteOf(h[f], 3)
                /\ Encode(h)[First(f) + 3] = ByteOf(h[f], 4)
           /\ Encode(h)[First("compression")] = ByteOf(h["compression"], 1)
<1>1. \A i \in Positions :
        Encode(h)[i] = ByteOf(h[Field(i)], i - First(Field(i)) + 1)
  BY DEF Encode
<1>2. /\ First("frame_id") = 0 /\ First("packet_id") = 2
      /\ First("packet_offset") = 4 /\ First("image_x_size") = 8
      /\ First("image_y_size") = 10 /\ First("pixel_size") = 12
      /\ First("compression") = 14 /\ First("compressed_size") = 15
  BY DEF First
<1>3. /\ Field(0) = "frame_id" /\ Field(1) = "frame_id"
      /\ Field(2) = "packet_id" /\ Field(3) = "packet_id"
      /\ Field(4) = "packet_offset" /\ Field(5) = "packet_offset"
      /\ Field(6) = "packet_offset" /\ Field(7) = "packet_offset"
  BY DEF Field
<1>4. /\ Field(8) = "image_x_size" /\ Field(9) = "image_x_size"
      /\ Field(10) = "image_y_size" /\ Field(11) = "image_y_size"
      /\ Field(12) = "pixel_size" /\ Field(13) = "pixel_size"
  BY DEF Field
<1>5. /\ Field(14) = "compression"
      /\ Field(15) = "compressed_size" /\ Field(16) = "compressed_size"
      /\ Field(17) = "compressed_size" /\ Field(18) = "compressed_size"
  BY DEF Field
<1>6. /\ Encode(h)[0] = ByteOf(h["frame_id"], 1)
      /\ Encode(h)[1] = ByteOf(h["frame_id"], 2)
      /\ Encode(h)[2] = ByteOf(h["packet_id"], 1)
      /\ Encode(h)[3] = ByteOf(h["packet_id"], 2)
  BY <1>1, <1>2, <1>3 DEF Positions
<1>7. /\ Encode(h)[4] = ByteOf(h["packet_offset"], 1)
      /\ Encode(h)[5] = ByteOf(h["packet_offset"], 2)
      /\ Encode(h)[6] = ByteOf(h["packet_offset"], 3)
      /\ Encode(h)[7] = ByteOf(h["packet_offset"], 4)
  BY <1>1, <1>2, <1>3 DEF Positions
<1>8. /\ Encode(h)[8] = ByteOf(h["image_x_size"], 1)
      /\ Encode(h)[9] = ByteOf(h["image_x_size"], 2)
      /\ Encode(h)[10] = ByteOf(h["image_y_size"], 1)
      /\ Encode(h)[11] = ByteOf(h["image_y_size"], 2)
      /\ Encode(h)[12] = ByteOf(h["pixel_size"], 1)
      /\ Encode(h)[13] = ByteOf(h["pixel_size"], 2)
  BY <1>1, <1>2, <1>4 DEF Positions
<1>9. /\ Encode(h)[14] = ByteOf(h["compression"], 1)
      /\ Encode(h)[15] = ByteOf(h["compressed_size"], 1)
      /\ Encode(h)[16] = ByteOf(h["compressed_size"], 2)
      /\ Encode(h)[17] = ByteOf(h["compressed_size"], 3)
      /\ Encode(h)[18] = ByteOf(h["compressed_size"], 4)
  BY <1>1, <1>2, <1>5 DEF Positions
<1> HIDE DEF Encode, First
<1> QED
  BY <1>2, <1>6, <1>7, <1>8, <1>9

(* What handle_packet makes of a header make_packets laid out.             *)
LEMMA RoundTrip ==
    ASSUME NEW h \in [Fields -> Nat], NEW f \in Fields
    PROVE  Decode(Encode(h))[f] = h[f] % Values(f)
<1>1. h[f] \in Nat
  OBVIOUS
<1>2. CASE f \in {"packet_offset", "compressed_size"}
  <2>1. Decode(Encode(h))[f] = FourBytes(Encode(h), First(f))
    BY <1>2 DEF Decode
  <2>2. FourBytes(Encode(h), First(f))
          = ByteOf(h[f], 1) + ByteOf(h[f], 2) * Scale[2]
              + ByteOf(h[f], 3) * Scale[3] + ByteOf(h[f], 4) * Scale[4]
    BY <1>2, Layout DEF FourBytes
  <2>3. Values(f) = (Base * Base) * (Base * Base)
    BY <1>2 DEF Values
  <2> QED
    BY <1>1, <2>1, <2>2, <2>3, FourBytesOf
<1>3. CASE f = "compression"
  <2>1. Decode(Encode(h))[f] = Encode(h)[First(f)]
    BY <1>3 DEF Decode
  <2>2. Values(f) = Base
    BY <1>3 DEF Values
  <2> QED
    BY <1>1, <1>3, <2>1, <2>2, Layout, OneByteOf
<1>4. CASE f \notin {"packet_offset", "compressed_size", "compression"}
  <2>1. Decode(Encode(h))[f] = TwoBytes(Encode(h), First(f))
    BY <1>4 DEF Decode
  <2>2. TwoBytes(Encode(h), First(f)) = ByteOf(h[f], 1) + ByteOf(h[f], 2) * Base
    BY <1>4, Layout DEF TwoBytes, Fields
  <2>3. Values(f) = Base * Base
    BY <1>4 DEF Values
  <2> QED
    BY <1>1, <2>1, <2>2, <2>3, TwoBytesOf
<1> QED
  BY <1>2, <1>3, <1>4

(* What is on the wire and in the decoded header, step by step.            *)
HeaderInv ==
    /\ header \in [Fields -> Nat]
    /\ pc = "sent" => wire = Encode(header)
    /\ pc = "received" => decoded = Decode(Encode(header))

(* Every field of every header arrives as it was written, cut to the width *)
(* the header gives it (make_packets and handle_packet).                   *)
THEOREM HeadersArrive == Spec => []ArrivesTruncated
<1>1. Init => HeaderInv
  BY HeaderAssumption DEF Init, HeaderInv
<1>2. HeaderInv /\ [Next]_vars => HeaderInv'
  <2> SUFFICES ASSUME HeaderInv, [Next]_vars
               PROVE  HeaderInv'
    OBVIOUS
  <2>1. CASE MakePacket
    BY <2>1 DEF MakePacket, HeaderInv
  <2>2. CASE HandlePacket
    BY <2>2 DEF HandlePacket, HeaderInv
  <2>3. CASE UNCHANGED vars
    BY <2>3 DEF vars, HeaderInv
  <2> QED
    BY <2>1, <2>2, <2>3 DEF Next
<1>3. HeaderInv => ArrivesTruncated
  BY RoundTrip DEF HeaderInv, ArrivesTruncated
<1> QED
  BY <1>1, <1>2, <1>3, PTL DEF Spec
---------------------------------------------------------------------------
LEMMA Scales ==
    /\ Base \in Nat \ {0} /\ \A x, y \in Nat : x * y \in Nat
    /\ \A k \in 1..4 : Scale[k] \in Nat \ {0}
<1>1. Base \in Nat \ {0} /\ \A x, y \in Nat \ {0} : x * y \in Nat \ {0}
  BY HeaderAssumption
<1>2. Base * Base \in Nat \ {0} /\ Base * Base * Base \in Nat \ {0}
  BY <1>1
<1> QED
  BY <1>1, <1>2 DEF Scale

LEMMA WireBytes ==
    ASSUME NEW h \in [Fields -> Nat]
    PROVE  Encode(h) \in [Positions -> 0..(Base - 1)]
<1>1. ASSUME NEW v \in Nat, NEW k \in 1..4
      PROVE  ByteOf(v, k) \in 0..(Base - 1)
  <2>1. v \div Scale[k] \in Nat
    BY Scales, DivModDef
  <2> HIDE DEF Scale
  <2> QED
    BY <2>1, Scales, DivModDef DEF ByteOf
<1>2. ASSUME NEW i \in Positions
      PROVE  Field(i) \in Fields /\ i - First(Field(i)) + 1 \in 1..4
  BY DEF Positions, Field, First, Fields
<1> QED
  BY <1>1, <1>2 DEF Encode

LEMMA FieldNumbers ==
    ASSUME NEW w \in [Positions -> Nat]
    PROVE  Decode(w) \in [Fields -> Nat]
<1>1. ASSUME NEW i \in 0..17
      PROVE  TwoBytes(w, i) \in Nat
  <2>1. w[i] \in Nat /\ w[i + 1] \in Nat
    BY DEF Positions
  <2>2. w[i + 1] * Base \in Nat
    BY <2>1, Scales
  <2> QED
    BY <2>1, <2>2 DEF TwoBytes
<1>2. ASSUME NEW i \in 0..15
      PROVE  FourBytes(w, i) \in Nat
  <2>1. w[i] \in Nat /\ w[i + 1] \in Nat /\ w[i + 2] \in Nat /\ w[i + 3] \in Nat
    BY DEF Positions
  <2>2. /\ w[i + 1] * Scale[2] \in Nat /\ w[i + 2] * Scale[3] \in Nat
        /\ w[i + 3] * Scale[4] \in Nat
    BY <2>1, Scales
  <2> QED
    BY <2>1, <2>2 DEF FourBytes
<1>3. ASSUME NEW f \in Fields
      PROVE  /\ First(f) \in 0..17 /\ First(f) \in Positions
             /\ f \in {"packet_offset", "compressed_size"} => First(f) \in 0..15
  BY DEF Fields, First, Positions
<1>4. ASSUME NEW f \in Fields
      PROVE  Decode(w)[f] \in Nat
  <2>1. CASE f \in {"packet_offset", "compressed_size"}
    BY <1>2, <1>3, <2>1 DEF Decode
  <2>2. CASE f = "compression"
    BY <1>3, <2>2 DEF Decode
  <2>3. CASE f \notin {"packet_offset", "compressed_size", "compression"}
    BY <1>1, <1>3, <2>3 DEF Decode
  <2> QED
    BY <2>1, <2>2, <2>3
<1> QED
  BY <1>4 DEF Decode

(* What make_packets writes are bytes and what handle_packet reads are     *)
(* numbers, for every header.                                              *)
THEOREM HeaderTypeCorrect == Spec => []TypeOK
<1>1. Init => TypeOK
  BY HeaderAssumption DEF Init, TypeOK
<1>2. TypeOK /\ [Next]_vars => TypeOK'
  <2> SUFFICES ASSUME TypeOK, [Next]_vars
               PROVE  TypeOK'
    OBVIOUS
  <2>1. CASE MakePacket
    BY <2>1, WireBytes DEF MakePacket, TypeOK
  <2>2. CASE HandlePacket
    <3>1. wire \in [Positions -> Nat]
      BY Scales DEF TypeOK
    <3> QED
      BY <2>2, <3>1, FieldNumbers DEF HandlePacket, TypeOK
  <2>3. CASE UNCHANGED vars
    BY <2>3 DEF vars, TypeOK
  <2> QED
    BY <2>1, <2>2, <2>3 DEF Next
<1> QED
  BY <1>1, <1>2, PTL DEF Spec
===========================================================================
