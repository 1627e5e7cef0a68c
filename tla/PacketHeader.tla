--------------------------- MODULE PacketHeader ---------------------------
(***************************************************************************)
(* The bytes of a datagram's header: how make_packets lays out its fields  *)
(* and how handle_packet puts them together again                          *)
(* (transport_protocol.cpp).  Both sides spell every byte out by hand, so  *)
(* each position and each shift appears twice in the code.                 *)
(*                                                                         *)
(* Base stands for the 256 values of a byte.  A field of the sender is a   *)
(* size_t (frame_id a uint16_t, compression a uint8_t), the wire gives it  *)
(* two, four or one bytes.                                                 *)
(***************************************************************************)
EXTENDS Integers

CONSTANTS
    Base,     \* values of a byte
    Headers   \* the headers make_packets is asked to lay out

Fields == {"frame_id", "packet_id", "packet_offset", "image_x_size", "image_y_size",
           "pixel_size", "compression", "compressed_size"}

ASSUME HeaderAssumption ==
    /\ Base \in Nat \ {0, 1}
    /\ Headers \subseteq [Fields -> Nat]

VARIABLES
    header,   \* the fields on the sender's side
    wire,     \* packet[0] to packet[18]; packet[19] is never written
    decoded,  \* Header preambule of handle_packet
    pc        \* "tx" | "sent" | "received"

vars == <<header, wire, decoded, pc>>

Positions == 0..18

(* 2^(k * BitPerByte) *)
Scale == <<1, Base, Base * Base, Base * Base * Base>>

(* A sender that forgets the mask. *)
ByteOfUnmasked(v, k) == v \div Scale[k]

(* (v >> (k - 1) * BitPerByte) & 0xff *)
ByteOf(v, k) == (v \div Scale[k]) % Base

(* The field and the byte of it each position of the header holds. *)
Field(i) ==
    CASE i \in 0..1   -> "frame_id"
      [] i \in 2..3   -> "packet_id"
      [] i \in 4..7   -> "packet_offset"
      [] i \in 8..9   -> "image_x_size"
      [] i \in 10..11 -> "image_y_size"
      [] i \in 12..13 -> "pixel_size"
      [] i = 14       -> "compression"
      [] i \in 15..18 -> "compressed_size"

First(f) ==
    CASE f = "frame_id"        -> 0
      [] f = "packet_id"       -> 2
      [] f = "packet_offset"   -> 4
      [] f = "image_x_size"    -> 8
      [] f = "image_y_size"    -> 10
      [] f = "pixel_size"      -> 12
      [] f = "compression"     -> 14
      [] f = "compressed_size" -> 15

Encode(h) == [i \in Positions |-> ByteOf(h[Field(i)], i - First(Field(i)) + 1)]

TwoBytes(w, i) == w[i] + w[i + 1] * Base

FourBytes(w, i) ==
    w[i] + w[i + 1] * Scale[2] + w[i + 2] * Scale[3] + w[i + 3] * Scale[4]

(* A receiver that takes the third byte of the offset for the fourth. *)
DecodeSwapped(w) ==
    [f \in Fields |->
        CASE f \in {"packet_offset", "compressed_size"} ->
                w[First(f)] + w[First(f) + 1] * Scale[2]
                    + w[First(f) + 3] * Scale[3] + w[First(f) + 2] * Scale[4]
          [] f = "compression" -> w[First(f)]
          [] OTHER -> TwoBytes(w, First(f))]

Decode(w) ==
    [f \in Fields |->
        CASE f \in {"packet_offset", "compressed_size"} -> FourBytes(w, First(f))
          [] f = "compression" -> w[First(f)]
          [] OTHER -> TwoBytes(w, First(f))]

Init ==
    /\ header \in Headers
    /\ wire = [i \in Positions |-> 0]
    /\ decoded = [f \in Fields |-> 0]
    /\ pc = "tx"

MakePacket ==
    /\ pc = "tx"
    /\ wire' = Encode(header)
    /\ pc' = "sent"
    /\ UNCHANGED <<header, decoded>>

HandlePacket ==
    /\ pc = "sent"
    /\ decoded' = Decode(wire)
    /\ pc' = "received"
    /\ UNCHANGED <<header, wire>>

Next == MakePacket \/ HandlePacket

Spec == Init /\ [][Next]_vars
---------------------------------------------------------------------------
(* Each position of the header holds a byte, and each field a number.      *)
TypeOK ==
    /\ header \in [Fields -> Nat]
    /\ wire \in [Positions -> 0..(Base - 1)]
    /\ decoded \in [Fields -> Nat]
    /\ pc \in {"tx", "sent", "received"}

(* How many values the wire has for a field. *)
Values(f) ==
    CASE f \in {"packet_offset", "compressed_size"} -> (Base * Base) * (Base * Base)
      [] f = "compression" -> Base
      [] OTHER -> Base * Base

(* The receiver reads every field as the sender wrote it, down to the      *)
(* width the header gives it: what does not fit is cut off silently, what  *)
(* fits arrives unchanged, and no field leaks into another.                *)
ArrivesTruncated ==
    pc = "received" => \A f \in Fields : decoded[f] = header[f] % Values(f)
===========================================================================
