------------------------- MODULE TransportProtocol -------------------------
(***************************************************************************)
(* The path of a frame from VideoStreamer::SendFrame to                    *)
(* VideoReceiver::ReadFrame: Protocol::Manager on both sides               *)
(* (transport_protocol.cpp), the datagrams between them, and the fifo the  *)
(* receiver's thread fills.                                                *)
(*                                                                         *)
(* A frame is named by the place it has in `sent`.  Sizes are in bytes,    *)
(* with PacketPayload for the 1280 bytes of a page, IdMod for the 2^16     *)
(* values of the wire's frame_id and DimMod for those of its image sizes.  *)
(* Header fields are modelled by their value after the round trip through  *)
(* the wire (module PacketHeader); packet_id, which the receiver decodes   *)
(* and never reads, is left out.                                           *)
(***************************************************************************)
EXTENDS FrameData, Pages

CONSTANTS
    Pictures,       \* what SendFrame is given: [cols, rows, pixel, jpeg]
    MaxFrames,      \* bound: frames the source produces
    PacketPayload,  \* bytes of a page
    IdMod,          \* number of frame identifiers
    DimMod,         \* values of image_x_size, image_y_size and pixel_size
    Copies,         \* how many copies of a datagram the network may deliver
    Ordered,        \* whether the network keeps the order of datagrams
    Garbage         \* what an uninitialised _received_data_volume may hold

(* jpeg is the size of the encoded picture, 0 when _compression >= 100     *)
(* sends the pixels as they are.                                           *)
ASSUME TransportAssumption ==
    /\ Pictures \subseteq [cols : Nat \ {0}, rows : Nat \ {0},
                           pixel : Nat \ {0}, jpeg : Nat]
    /\ MaxFrames \in Nat
    /\ PacketPayload \in Nat \ {0}
    /\ IdMod \in Nat \ {0}
    /\ DimMod \in Nat \ {0}
    /\ Copies \subseteq Nat
    /\ Ordered \in BOOLEAN
    /\ Garbage \subseteq Int

VARIABLES
    sent,           \* history: the pictures given to SendFrame so far
    frame_counter,  \* Manager::_frame_counter of the streamer
    packs,          \* packets of SendFrame's loop not handed to sendto yet
    net,            \* datagrams in flight
    rx,             \* Manager::_rx_buffer of the receiver
    volume,         \* Manager::_received_data_volume
    fifo,           \* VideoReceiver::_fifo
    alive,          \* FALSE once an exception has left the receiver's thread
    cur,            \* history: the frame whose datagram was copied into rx last
    zeroed,         \* history: whether volume has ever been assigned
    confused,       \* history: a datagram was handled that carries the identifier
                    \* of the frame in rx and belongs to another frame
    shown           \* history: the frames ReadFrame has returned

tx_vars == <<sent, frame_counter, packs>>
rx_vars == <<rx, volume, fifo, alive, cur, zeroed, confused, shown>>
vars == <<tx_vars, net, rx_vars>>

FrameIds == 0..(IdMod - 1)
---------------------------------------------------------------------------
(* The streamer. *)

PayloadSize(pic) ==
    IF pic.jpeg > 0 THEN pic.jpeg ELSE pic.cols * pic.rows * pic.pixel

(* The fields of the wire header that describe the picture.  For an        *)
(* uncompressed frame compressed_size is whatever frame_info held; the     *)
(* receiver does not read it then, and 0 stands for it.                    *)
HeadOf(pic) ==
    [image_x_size    |-> pic.cols % DimMod,
     image_y_size    |-> pic.rows % DimMod,
     pixel_size      |-> pic.pixel % DimMod,
     compression     |-> IF pic.jpeg > 0 THEN 1 ELSE 0,
     compressed_size |-> pic.jpeg]

(* The i-th page of frame k, as the datagram make_packets wraps it in. *)
PageData(k, pic, i) ==
    LET offset == (i - 1) * PacketPayload
        length == Least(PayloadSize(pic) - offset, PacketPayload)
    IN [j \in 1..length |-> Byte(k, offset + j)]

(* make_packets that forgets to advance `offset` past the first page. *)
MakePacketsStuckOffset(id, k, pic) ==
    [i \in 1..PageCount(PayloadSize(pic), PacketPayload) |->
        [frame |-> k, frame_id |-> id, head |-> HeadOf(pic),
         offset |-> 0, data |-> PageData(k, pic, i)]]

(* make_packets that places page i where page i + 1 belongs. *)
MakePacketsLateOffset(id, k, pic) ==
    [i \in 1..PageCount(PayloadSize(pic), PacketPayload) |->
        [frame |-> k, frame_id |-> id, head |-> HeadOf(pic),
         offset |-> i * PacketPayload, data |-> PageData(k, pic, i)]]

MakePackets(id, k, pic) ==
    [i \in 1..PageCount(PayloadSize(pic), PacketPayload) |->
        [frame |-> k, frame_id |-> id, head |-> HeadOf(pic),
         offset |-> (i - 1) * PacketPayload, data |-> PageData(k, pic, i)]]

(* An identifier that skips the value 0 on overflow. *)
NextIdSkipsZero(id) == IF id = IdMod - 1 THEN 1 % IdMod ELSE id + 1

(* An identifier wider than its field. *)
NextIdUnbounded(id) == id + 1

(* _frame_counter++ on a uint16_t. *)
NextId(id) == (id + 1) % IdMod

SendFrame(pic) ==
    /\ packs = <<>>
    /\ Len(sent) < MaxFrames
    /\ sent' = Append(sent, pic)
    /\ packs' = MakePackets(frame_counter, Len(sent) + 1, pic)
    /\ frame_counter' = NextId(frame_counter)
    /\ UNCHANGED <<net, rx_vars>>

(* sendto hands the next packet to the network, which delivers it n times. *)
SendPacket(n) ==
    /\ packs # <<>>
    /\ net' = net \cup {[copy |-> c, packet |-> Head(packs)] : c \in 1..n}
    /\ packs' = Tail(packs)
    /\ UNCHANGED <<sent, frame_counter, rx_vars>>

(* The server process dies and is started again: the rest of the frame is  *)
(* never sent, and _frame_counter, which no constructor sets, holds        *)
(* whatever the memory of the new process does.                            *)
RestartServer ==
    /\ packs' = <<>>
    /\ frame_counter' \in FrameIds
    /\ UNCHANGED <<sent, net, rx_vars>>
---------------------------------------------------------------------------
(* The receiver. *)

(* _target_data_size of the frame a header describes. *)
Target(h) ==
    IF h.compression = 1
    THEN h.compressed_size
    ELSE h.pixel_size * h.image_x_size * h.image_y_size

(* A receiver that hands over its frame without looking whether it has one. *)
EmitsEmpty(p) == p.frame_id # rx.frame_id

(* A datagram of another frame completes the one in rx. *)
Emits(p) == p.frame_id # rx.frame_id /\ rx.payload # <<>>

(* The integrity of the frame that datagram p completes, as a fraction:    *)
(* p's own bytes are already counted and p's own frame is the divisor.     *)
Integrity(p) == [got |-> volume + Len(p.data), of |-> Target(p.head)]

(* A ready frame that already carries the header of the datagram. *)
ReadyFrameNewHead(p) ==
    [src |-> cur, head |-> p.head, payload |-> rx.payload,
     integrity |-> Integrity(p), zeroed |-> zeroed]

(* The frame handed over is _rx_buffer as it is before p is copied. *)
ReadyFrame(p) ==
    [src |-> cur, head |-> rx.head, payload |-> rx.payload,
     integrity |-> Integrity(p), zeroed |-> zeroed]

(* A receiver that keeps the moved frame's bytes for the next one. *)
RoomKeepsFrame(p) == Resize(rx.payload, Target(p.head))

(* The payload after the move to _out_buffer and the resize. *)
Room(p) ==
    Resize(IF Emits(p) THEN <<>> ELSE rx.payload, Target(p.head))

(* How handle_packet ends: an empty frame returns false at once, a page    *)
(* that does not fit the frame throws, any other is copied.                *)
Outcome(p) ==
    LET available == Target(p.head) - p.offset
    IN IF Target(p.head) = 0 THEN "empty"
       ELSE IF Len(p.data) <= 0 \/ available <= 0 \/ available < Len(p.data)
       THEN "thrown" ELSE "copied"

(* A datagram of another frame that handle_packet takes for one of the     *)
(* frame in rx.                                                            *)
Mistaken(p) ==
    rx.payload # <<>> /\ p.frame_id = rx.frame_id /\ p.frame # cur

Distance(a, b) == IF a <= b THEN b - a ELSE a - b

(* On an ordered network the oldest datagram in flight comes first. *)
Oldest(p) ==
    \A d \in net :
        \/ p.frame < d.packet.frame
        \/ p.frame = d.packet.frame /\ p.offset <= d.packet.offset

(* A count that carries the completing datagram over to its own frame. *)
VolumeAfterCarried(p) == IF Emits(p) THEN Len(p.data) ELSE volume + Len(p.data)

(* A count that is not reset. *)
VolumeAfterNoReset(p) == volume + Len(p.data)

VolumeAfter(p) == IF Emits(p) THEN 0 ELSE volume + Len(p.data)

(* ReadRoutine: recv, handle_packet, and the push under _mutex when it     *)
(* reports a ready frame.                                                  *)
ReceivePacket(d) ==
    LET p == d.packet
        copied == Outcome(p) = "copied"
    IN /\ alive
       /\ Ordered => Oldest(p)
       /\ net' = net \ {d}
       /\ volume' = VolumeAfter(p)
       /\ rx' = IF copied
                THEN [frame_id |-> p.frame_id, head |-> p.head,
                      payload |-> CopyIn(Room(p), p.offset, p.data)]
                ELSE [frame_id |-> rx.frame_id, head |-> rx.head,
                      payload |-> Room(p)]
       /\ fifo' = IF copied /\ Emits(p) THEN Append(fifo, ReadyFrame(p)) ELSE fifo
       /\ alive' = (Outcome(p) # "thrown")
       /\ cur' = IF copied THEN p.frame ELSE cur
       /\ zeroed' = (zeroed \/ Emits(p))
       /\ confused' = (confused \/ Mistaken(p))
       /\ UNCHANGED <<tx_vars, shown>>

(* A ReadFrame that forgets _fifo.pop(). *)
ReadFrameKeeps ==
    /\ alive
    /\ fifo # <<>>
    /\ Len(shown) < MaxFrames
    /\ shown' = Append(shown, Head(fifo).src)
    /\ UNCHANGED <<tx_vars, net, rx, volume, fifo, alive, cur, zeroed, confused>>

(* ReadFrame takes the oldest frame of the fifo; while there is none it    *)
(* sleeps and looks again.                                                 *)
ReadFrame ==
    /\ alive
    /\ fifo # <<>>
    /\ shown' = Append(shown, Head(fifo).src)
    /\ fifo' = Tail(fifo)
    /\ UNCHANGED <<tx_vars, net, rx, volume, alive, cur, zeroed, confused>>
---------------------------------------------------------------------------
(* Before its first datagram the receiver's FrameDesc is empty and its     *)
(* frame_id, like both counters, is whatever the memory held.  The fields  *)
(* of rx.head are not read before they are written.                        *)
Init ==
    /\ sent = <<>>
    /\ frame_counter \in FrameIds
    /\ packs = <<>>
    /\ net = {}
    /\ rx \in [frame_id : FrameIds,
               head : {[image_x_size |-> 0, image_y_size |-> 0, pixel_size |-> 0,
                        compression |-> 0, compressed_size |-> 0]},
               payload : {<<>>}]
    /\ volume \in Garbage
    /\ fifo = <<>>
    /\ alive = TRUE
    /\ cur = 0
    /\ zeroed = FALSE
    /\ confused = FALSE
    /\ shown = <<>>

(* The server's loop sends one picture after the other. *)
Next ==
    \/ \E pic \in Pictures : SendFrame(pic)
    \/ \E n \in Copies : SendPacket(n)
    \/ \E d \in net : ReceivePacket(d)
    \/ ReadFrame

Spec == Init /\ [][Next]_vars

(* The streamer's loop, the receiver's thread and the display's loop are   *)
(* each scheduled again and again; the source owes nobody a frame.         *)
Fairness ==
    /\ WF_vars(\E n \in Copies : SendPacket(n))
    /\ WF_vars(\E d \in net : ReceivePacket(d))
    /\ WF_vars(ReadFrame)

FairSpec == Spec /\ Fairness

RestartSpec == Init /\ [][Next \/ RestartServer]_vars
---------------------------------------------------------------------------
Heads == [image_x_size : Nat, image_y_size : Nat, pixel_size : Nat,
          compression : {0, 1}, compressed_size : Nat]

Packets == [frame : Nat, frame_id : FrameIds, head : Heads, offset : Nat,
            data : Seq(Bytes)]

ReadyFrames == [src : Nat, head : Heads, payload : Seq(Bytes),
                integrity : [got : Int, of : Nat], zeroed : BOOLEAN]

(* Every variable keeps the type transport_protocol.h and video_receiver.h *)
(* declare it with.                                                        *)
TypeOK ==
    /\ sent \in Seq(Pictures)
    /\ frame_counter \in FrameIds
    /\ packs \in Seq(Packets)
    /\ net \subseteq [copy : Nat, packet : Packets]
    /\ rx \in [frame_id : FrameIds, head : Heads, payload : Seq(Bytes)]
    /\ volume \in Int
    /\ fifo \in Seq(ReadyFrames)
    /\ alive \in BOOLEAN
    /\ cur \in 0..Len(sent)
    /\ zeroed \in BOOLEAN
    /\ confused \in BOOLEAN
    /\ shown \in Seq(1..Len(sent))

(* What make_packets cuts a frame into fits the frame the receiver sets up *)
(* for it, so handle_packet never throws "Error in receiver buffer": the   *)
(* exception would leave the receiver's thread and terminate the process.  *)
(* It rests on dimensions that fit the 16 bits the header has for them.    *)
FramesFit ==
    \A pic \in Pictures :
        pic.cols < DimMod /\ pic.rows < DimMod /\ pic.pixel < DimMod

ReceiverSurvives == FramesFit => alive

(* handle_packet tells frames apart by frame_id alone.  Until it meets a   *)
(* datagram of another frame under the identifier of the one in rx, a      *)
(* frame in the fifo shows one picture of the source: its own size, each   *)
(* byte its own or never received, nothing of another frame -- also of     *)
(* frames that a restart of the server cut short.                          *)
OneFramePerPicture ==
    ~confused =>
        \A i \in 1..Len(fifo) :
            /\ fifo[i].src \in 1..Len(sent)
            /\ Len(fifo[i].payload) = Target(HeadOf(sent[fifo[i].src]))
            /\ PartialCopy(fifo[i].payload, fifo[i].src)

(* ReadFrame lays a cv::Mat of the frame's dimensions over its payload and *)
(* clones it: the payload must hold the bytes the dimensions promise,      *)
(* whatever was lost, reordered, blended or restarted.                     *)
GeometryMatchesPayload ==
    \A i \in 1..Len(fifo) : Len(fifo[i].payload) = Target(fifo[i].head)

(* A server that runs on counts its frames, so that happens no sooner than *)
(* after a full turn of the 2^16 identifiers: of two frames that are taken *)
(* for one, one is IdMod or more frames older.                             *)
OnlyLapsConfuse ==
    [][\A d \in net :
          ReceivePacket(d) /\ Mistaken(d.packet)
              => Distance(cur, d.packet.frame) >= IdMod]_vars

(* On a network that keeps the order, frames are shown in the order of the *)
(* source and none is shown twice.                                         *)
InOrder ==
    Ordered =>
        \A i, j \in 1..Len(shown) : i < j => shown[i] < shown[j]

SameSize == \A p, q \in Pictures : PayloadSize(p) = PayloadSize(q)

(* The integrity of a frame counts the first datagram of the next frame    *)
(* instead of its own.  On an ordered network without duplicates and with  *)
(* frames of one size, which fits the header, it still never calls a frame *)
(* with a hole complete, once the count has been zeroed.                   *)
NoFalseFull ==
    Ordered /\ Copies \subseteq {0, 1} /\ SameSize /\ FramesFit /\ ~confused =>
        \A i \in 1..Len(fifo) :
            fifo[i].zeroed /\ fifo[i].integrity.got >= fifo[i].integrity.of
                => Holes(fifo[i].payload) = {}

(* On a lossless ordered network and with frames of one size, which fits   *)
(* the header, every frame is complete, and every one after the first is   *)
(* reported as exactly 100 %.                                              *)
LosslessExact ==
    Ordered /\ Copies = {1} /\ SameSize /\ FramesFit =>
        \A i \in 1..Len(fifo) :
            /\ Holes(fifo[i].payload) = {}
            /\ fifo[i].zeroed => fifo[i].integrity.got = fifo[i].integrity.of

(* client.cpp prints the integrity as "Frame integrity (%)": a share of    *)
(* the frame, between nothing and all of it.                               *)
IntegrityIsPercentage ==
    \A i \in 1..Len(fifo) :
        0 <= fifo[i].integrity.got /\ fifo[i].integrity.got <= fifo[i].integrity.of

(* "Identifier (counter) of current frame": two frames in a row never look *)
(* like one, so no picture mixes their bytes.                              *)
FrameIdIdentifies ==
    \A i \in 1..Len(fifo) : PartialCopy(fifo[i].payload, fifo[i].src)

(* A frame is only handed over by a datagram of the next one, so the last  *)
(* frame of the source is never shown; every earlier one is, in the end,   *)
(* when no datagram is lost.                                               *)
NewestButOneShown ==
    \A k \in 1..MaxFrames :
        (Len(sent) > k) ~> (\E i \in 1..Len(shown) : shown[i] = k)

(* The abstract channel the two ends make up.                              *)
Channel == INSTANCE FrameChannel WITH
    offered <- [k \in 1..Len(sent) |-> Target(HeadOf(sent[k]))],
    queue   <- fifo,
    horizon <- cur,
    broken  <- confused

ChannelSpec == Channel!Spec
---------------------------------------------------------------------------
(* The strengthening under which the invariants are inductive.             *)

(* A packet carries its frame's header and a piece of its frame's bytes,   *)
(* and the piece is not empty and lies inside the frame.                   *)
FromFrame(p) ==
    /\ p.frame \in 1..Len(sent)
    /\ p.head = HeadOf(sent[p.frame])
    /\ Len(p.data) > 0
    /\ p.offset + Len(p.data) <= PayloadSize(sent[p.frame])
    /\ \A j \in 1..Len(p.data) : p.data[j] = Byte(p.frame, p.offset + j)

PacketsFromFrames ==
    /\ \A i \in 1..Len(packs) : FromFrame(packs[i]) /\ packs[i].frame = Len(sent)
    /\ \A d \in net : FromFrame(d.packet)

(* What rx holds is as large as its header says, the header of frame cur. *)
RxDescribesCur ==
    alive /\ rx.payload # <<>> =>
        /\ cur \in 1..Len(sent)
        /\ rx.head = HeadOf(sent[cur])
        /\ Len(rx.payload) = Target(rx.head)

FifoDescribesSource ==
    \A i \in 1..Len(fifo) :
        /\ fifo[i].src \in 1..Len(sent)
        /\ fifo[i].head = HeadOf(sent[fifo[i].src])
        /\ Len(fifo[i].payload) = Target(fifo[i].head)

(* Holds whether the server restarts or not. *)
SizesInv ==
    /\ TypeOK
    /\ PacketsFromFrames
    /\ RxDescribesCur
    /\ FifoDescribesSource
    /\ ReceiverSurvives

(* Packets on their way to the receiver. *)
Pending == {d.packet : d \in net} \cup {packs[i] : i \in 1..Len(packs)}

(* The packets of one frame carry one identifier, whatever restarts do to  *)
(* the counter: a frame is never continued after one.                      *)
OneIdPerFrame ==
    /\ \A p, q \in Pending : p.frame = q.frame => p.frame_id = q.frame_id
    /\ alive /\ rx.payload # <<>> =>
          \A p \in Pending : p.frame = cur => p.frame_id = rx.frame_id

(* Without restarts identifiers count the frames from some first value b. *)
IdOf(b, k) == (b + k - 1) % IdMod

IdsFrom(b) ==
    /\ frame_counter = IdOf(b, Len(sent) + 1)
    /\ \A p \in Pending : p.frame_id = IdOf(b, p.frame)
    /\ alive /\ rx.payload # <<>> => rx.frame_id = IdOf(b, cur)

IdsCountFrames == \E b \in FrameIds : IdsFrom(b)

RxShowsCur == alive /\ ~confused /\ rx.payload # <<>> => PartialCopy(rx.payload, cur)

FifoShowsSource ==
    ~confused => \A i \in 1..Len(fifo) : PartialCopy(fifo[i].payload, fifo[i].src)

(* On an ordered network nothing older than cur is in flight, and what was *)
(* handed over is older than cur and in order.                             *)
NetAhead == Ordered => \A d \in net : cur <= d.packet.frame

FifoInOrder ==
    Ordered =>
        /\ \A i \in 1..Len(fifo) : fifo[i].src < cur
        /\ \A i, j \in 1..Len(fifo) : i < j => fifo[i].src < fifo[j].src
        /\ \A i \in 1..Len(shown), j \in 1..Len(fifo) : shown[i] < fifo[j].src
        /\ \A i \in 1..Len(shown) : shown[i] < cur

(* Holds whether the server restarts or not. *)
ContentsInv ==
    /\ SizesInv
    /\ OneIdPerFrame
    /\ RxShowsCur
    /\ FifoShowsSource
    /\ NetAhead
    /\ FifoInOrder
    /\ InOrder
===========================================================================
