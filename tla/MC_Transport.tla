--------------------------- MODULE MC_Transport ---------------------------
(***************************************************************************)
(* Values for the transport protocol's constants.  A page holds two bytes, *)
(* so a frame of three bytes is a full page and a short one, one of five   *)
(* has two full pages before the short one.                                *)
(***************************************************************************)
EXTENDS TransportProtocol

Raw(c, r, p) == [cols |-> c, rows |-> r, pixel |-> p, jpeg |-> 0]
Jpeg(n) == [cols |-> 1, rows |-> 1, pixel |-> 3, jpeg |-> n]

RawOneSize == {Raw(1, 1, 3)}
RawThreePages == {Raw(1, 5, 1)}
MixedPages == {Raw(1, 1, 3), Jpeg(4), Raw(4, 1, 1)}

NoGarbage == {0}
AnyGarbage == {-3, 0, 3}

Reliable == {1}
Lossy == {0, 1}
Doubled == {2}
===========================================================================
