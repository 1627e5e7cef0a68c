-------------------------- MODULE MC_PacketHeader --------------------------
(* Bytes of three values.  Every pair of fields takes every pair of        *)
(* interesting values while the others stay at a small one: the largest    *)
(* value of one, two and four bytes, the smallest that no longer fits, and *)
(* values whose bytes all differ.                                          *)
EXTENDS PacketHeader

MCBase == 3

MCValues == {0, 2, 3, 5, 8, 9, 15, 26, 27, 54, 80, 81, 100}

MCHeaders ==
    {[e \in Fields |-> CASE e = f -> v [] e = g -> w [] OTHER -> 1] :
        f \in Fields, g \in Fields, v \in MCValues, w \in MCValues}
===========================================================================
