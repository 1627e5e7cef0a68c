--------------------------- MODULE FrameChannel ---------------------------
(***************************************************************************)
(* What the streamer and the receiver promise their callers together: a    *)
(* best-effort channel for frames.                                         *)
(*                                                                         *)
(* The source offers frames, the channel may deliver a frame with holes    *)
(* or drop it, the display takes what was delivered.  It never delivers a  *)
(* blend of two frames, and on a network that keeps the order of datagrams *)
(* (Ordered) it delivers frames in the order of the source and each at     *)
(* most once.                                                              *)
(*                                                                         *)
(* The promise is void after `broken`: the receiver met a datagram of      *)
(* another frame under the identifier of the one it is assembling.         *)
(***************************************************************************)
EXTENDS FrameData

CONSTANT Ordered   \* whether the network keeps the order of datagrams

VARIABLES
    offered,   \* the sizes of the frames the source has offered
    queue,     \* delivered frames the display has not taken yet
    horizon,   \* on an ordered network, no frame below it is delivered any more
    broken

chan == <<offered, queue, horizon, broken>>

Init ==
    /\ offered = <<>>
    /\ queue = <<>>
    /\ horizon = 0
    /\ broken = FALSE

(* t is s with one new element at its end. *)
Extends(s, t) ==
    /\ Len(t) = Len(s) + 1
    /\ \A i \in 1..Len(s) : t[i] = s[i]

Offer ==
    /\ Extends(offered, offered')
    /\ UNCHANGED <<queue, horizon, broken>>

Advance == horizon' \in 1..Len(offered) /\ (Ordered => horizon <= horizon')

Skip ==
    /\ Advance
    /\ UNCHANGED <<offered, queue, broken>>

(* The delivered frame is the new last element of the queue. *)
Deliver ==
    /\ Extends(queue, queue')
    /\ LET v == queue'[Len(queue')]
       IN /\ v.src \in 1..Len(offered)
          /\ Len(v.payload) = offered[v.src]
          /\ PartialCopy(v.payload, v.src)
          /\ Ordered => horizon <= v.src /\ v.src < horizon'
    /\ Advance
    /\ UNCHANGED <<offered, broken>>

Take ==
    /\ queue # <<>>
    /\ queue' = Tail(queue)
    /\ UNCHANGED <<offered, horizon, broken>>

Next == Offer \/ Skip \/ Deliver \/ Take

Spec == Init /\ [][broken' \/ Next]_chan
===========================================================================
