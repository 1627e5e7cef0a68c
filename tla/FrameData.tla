---------------------------- MODULE FrameData ----------------------------
(***************************************************************************)
(* Payloads, as sequences of bytes that are told apart by where they come  *)
(* from: the i-th byte of the frame that was handed to the streamer as     *)
(* number `frame`.  Zero is the byte vector::resize fills new room with.   *)
(***************************************************************************)
EXTENDS Integers, Sequences

Byte(k, i) == [frame |-> k, at |-> i]

Zero == [frame |-> 0, at |-> 0]

Bytes == [frame : Nat, at : Nat]

(* vector::resize: the bytes that stay keep their values. *)
Resize(v, n) == [i \in 1..n |-> IF i <= Len(v) THEN v[i] ELSE Zero]

(* std::copy of d behind the first `offset` bytes of v. *)
CopyIn(v, offset, d) ==
    [i \in 1..Len(v) |->
        IF offset < i /\ i <= offset + Len(d) THEN d[i - offset] ELSE v[i]]

(* The places of a payload nobody has written. *)
Holes(v) == {i \in 1..Len(v) : v[i] = Zero}

(* v shows frame k and nothing else: every byte is the frame's own byte    *)
(* at its own place, or a hole.                                            *)
PartialCopy(v, k) == \A i \in 1..Len(v) : v[i] \in {Zero, Byte(k, i)}
===========================================================================
