----------------------------- MODULE FrameStore -----------------------------
(* What a place holds into which frames of different sizes are written one *)
(* over the other; frames are numbered in the order they are written.      *)
EXTENDS Integers, Sequences

(* After the first n frames chunk a belongs to frame k: the newest that    *)
(* reaches so far, 0 for a chunk nobody has written.                       *)
Shows(sizes, n, a, k) ==
    /\ k \in 0..n
    /\ k > 0 => sizes[k] >= a
    /\ \A j \in (k + 1)..n : sizes[j] < a
===========================================================================
