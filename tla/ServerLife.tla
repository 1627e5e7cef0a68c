----------------------------- MODULE ServerLife -----------------------------
(***************************************************************************)
(* The life of a server, from its command line to its end: main.cpp,       *)
(* server.cpp, the video sources it reads (video_source.cpp,               *)
(* cv_video_source, ipc_video_source), VideoStreamer outside of the        *)
(* protocol (video_streamer.cpp) and the traffic and frame rate it prints. *)
(*                                                                         *)
(* What becomes of the packets is module TransportProtocol's subject, how  *)
(* processes share the IPC objects module Ipc's; here the objects may fail *)
(* to open.  A frame is its size in bytes, 0 for an empty cv::Mat.         *)
(***************************************************************************)
EXTENDS Options, Statistics

CONSTANTS
    CommandLines,   \* what main may be called with
    FrameSizes,     \* sizes of the frames a source yields
    EncodedSizes,   \* what the codec makes of them
    PacketPayload,  \* bytes of a page, whatever packet_size was configured
    HeaderSize,     \* bytes of a packet's header
    Steps,          \* ticks the clock may advance at once
    MaxClock,       \* bound: ticks
    MaxReads        \* bound: frames read

ASSUME ServerAssumption ==
    /\ CommandLines \subseteq Seq(Seq(Words))
    /\ FrameSizes \subseteq Nat \ {0}
    /\ EncodedSizes \subseteq Nat \ {0}
    /\ PacketPayload \in Nat \ {0}
    /\ HeaderSize \in Nat
    /\ Steps \subseteq Nat \ {0}
    /\ MaxClock \in Nat
    /\ MaxReads \in Nat

VARIABLES
    pc,          \* where the process is
    args,        \* its command line
    conf,        \* the Configurator
    opened,      \* what make_video_source opened
    ipc,         \* how opening the IPC objects went
    held,        \* whether it holds the semaphore
    streamer,    \* VideoStreamer's settings, with _dest_address once it is set
    socket,      \* _socket_desc: "none", "open" or "closed"
    left,        \* sizes of the packets of SendFrame's loop not sent yet
    clock,       \* steady_clock
    timing,      \* the source's _timing
    source,      \* the source's _traffic
    traffic,     \* the streamer's _traffic
    read_log,    \* history: every read, its size and time
    sent_log,    \* history: every packet sent, its size and time
    report       \* what was printed last, and history: after how many reads and when

stats == <<timing, source, traffic, read_log, sent_log, report>>
vars == <<pc, args, conf, opened, ipc, held, streamer, socket, left, clock, stats>>

Ended == {"client", "reported", "crashed"}
---------------------------------------------------------------------------
(* Starting. *)

(* A client is module ReceiverLife's subject. *)
Start ==
    /\ pc = "start"
    /\ conf' = Configure(args)
    /\ pc' = IF conf'.mode = "server" THEN "source" ELSE "client"
    /\ UNCHANGED <<args, opened, ipc, held, streamer, socket, left, clock, stats>>

(* An exception leaves run_server: the streamer's destructor closes the    *)
(* socket, main prints "Unexpected exception: ".  A semaphore that is held *)
(* stays taken.                                                            *)
Throw ==
    /\ pc' = "reported"
    /\ socket' = IF socket = "open" THEN "closed" ELSE socket

Descriptors == {"open", "zero", "failed"}
IpcObjects == [shm : Descriptors, sem : {"open", "failed"}, mq : Descriptors]

(* The IPC objects report that they cannot be opened and go on: shm_open   *)
(* and mq_open with the descriptor -1, or with 0 when stdin is closed,     *)
(* sem_open with a null pointer.  -1 passes for an open descriptor, 0 does *)
(* not, and only one of them can have it.                                  *)
OpenIpcSource ==
    /\ pc = "source"
    /\ conf.source = "ipc"
    /\ ipc' \in {o \in IpcObjects : "zero" \notin {o.shm} \cap {o.mq}}
    /\ opened' = <<"ipc", "shared memory">>
    /\ pc' = "config"
    /\ UNCHANGED <<args, conf, held, streamer, socket, left, clock, stats>>

(* CvVideoSource::Open throws "Invalid source" when OpenCV cannot open it. *)
OpenCapture(ok) ==
    /\ pc = "source"
    /\ conf.source # "ipc"
    /\ IF ok
       THEN /\ opened' = <<conf.source, IF conf.source = "webcamera" THEN conf.cam_id
                                        ELSE conf.video_path>>
            /\ pc' = "config"
            /\ UNCHANGED socket
       ELSE Throw /\ UNCHANGED opened
    /\ UNCHANGED <<args, conf, ipc, held, streamer, left, clock, stats>>

Unset == [ip |-> NoValue, port |-> 0, compression |-> 100, pause |-> 100,
          address |-> {}, wire_port |-> <<0, 0>>]

(* config_videostreamer *)
ConfigStreamer ==
    /\ pc = "config"
    /\ streamer' = [streamer EXCEPT !.ip = conf.ip, !.port = conf.port,
                                    !.compression = conf.compression, !.pause = conf.pause]
    /\ pc' = "init"
    /\ UNCHANGED <<args, conf, opened, ipc, held, socket, left, clock, stats>>

(* A server that converts its port, as it should, while clients do not. *)
DestinedByHtons(settings, address) ==
    [settings EXCEPT !.address = address, !.wire_port = NetworkOrder(settings.port)]

(* update_destination: htonl for the address, no htons for the port. *)
Destined(settings, address) ==
    [settings EXCEPT !.address = address, !.wire_port = InMemory(settings.port)]

(* VideoStreamer::Init: the socket, its port 52000, then the address.      *)
InitStreamer(bound) ==
    /\ pc = "init"
    /\ \E address \in Conversions(streamer.ip) :
          IF bound /\ address # BadAddress
          THEN /\ socket' = "open"
               /\ streamer' = Destined(streamer, address)
               /\ pc' = "loop"
          ELSE /\ socket' = "closed"
               /\ pc' = "reported"
               /\ UNCHANGED streamer
    /\ UNCHANGED <<args, conf, opened, ipc, held, left, clock, stats>>
---------------------------------------------------------------------------
(* The loop. *)

Packets(size) ==
    [i \in 1..PageCount(size, PacketPayload) |->
        HeaderSize + Least(PacketPayload, size - (i - 1) * PacketPayload)]

(* The rest of Read once the frame is there, and make_packets if there is  *)
(* something to send: an empty frame sends the loop round again.           *)
Yield(size) ==
    /\ timing' = PushEvent(timing, clock)
    /\ source' = AddTransaction(source, size, clock)
    /\ read_log' = Append(read_log, [amount |-> size, stamp |-> clock])
    /\ IF size = 0
       THEN pc' = "loop" /\ UNCHANGED left
       ELSE /\ pc' = "send"
            /\ \E n \in IF streamer.compression < 100 THEN EncodedSizes ELSE {size} :
                  left' = Packets(n)
    /\ UNCHANGED <<args, conf, opened, ipc, streamer, clock, traffic, sent_log, report>>

FileEnded ==
    conf.source = "videofile" /\ \E i \in 1..Len(read_log) : read_log[i].amount = 0

CanRead == pc = "loop" /\ Len(read_log) < MaxReads

(* CvVideoSource::Read: a camera may miss a frame, a file comes to an end. *)
ReadCapture(size) ==
    /\ CanRead
    /\ conf.source # "ipc"
    /\ FileEnded => size = 0
    /\ Yield(size)
    /\ UNCHANGED <<held, socket>>

(* read_frame waits for a message; from descriptor -1 it returns at once.  *)
ReceiveMessage ==
    /\ CanRead
    /\ conf.source = "ipc"
    /\ \/ ipc.mq = "failed" /\ Yield(0) /\ UNCHANGED socket
       \/ /\ \/ ipc.mq = "open" /\ pc' = "lock" /\ UNCHANGED socket
             \/ ipc.mq = "zero" /\ Throw
          /\ UNCHANGED <<args, conf, opened, ipc, streamer, left, clock, stats>>
    /\ UNCHANGED held

(* A lock that does not look at its pointer. *)
LockAnyway ==
    /\ pc = "lock"
    /\ held' = TRUE
    /\ pc' = "copy"
    /\ UNCHANGED <<args, conf, opened, ipc, streamer, socket, left, clock, stats>>

LockSemaphore ==
    /\ pc = "lock"
    /\ IF ipc.sem = "open"
       THEN held' = TRUE /\ pc' = "copy" /\ UNCHANGED socket
       ELSE Throw /\ UNCHANGED held
    /\ UNCHANGED <<args, conf, opened, ipc, streamer, left, clock, stats>>

(* A return before unlock. *)
CopyFrameReturnsEarly(size) ==
    /\ pc = "copy"
    /\ ipc.shm # "zero"
    /\ Yield(size)
    /\ UNCHANGED <<held, socket>>

(* cv::Mat may throw, for want of memory or at what the message says, and  *)
(* get_pointer does for descriptor 0: both under the lock, which no guard  *)
(* object releases.  With descriptor -1 the copy follows a pointer nobody  *)
(* has set, which may end the process or read anything.                    *)
CopyFrame(size) ==
    /\ pc = "copy"
    /\ \/ ipc.shm # "zero" /\ Yield(size) /\ held' = FALSE /\ UNCHANGED socket
       \/ /\ Throw
          /\ UNCHANGED <<args, conf, opened, ipc, held, streamer, left, clock, stats>>
       \/ /\ ipc.shm = "failed"
          /\ pc' = "crashed"
          /\ UNCHANGED <<args, conf, opened, ipc, held, streamer, socket, left, clock, stats>>

(* sendto, AddTransaction, and the loop's turn after the last packet. *)
SendPacket ==
    /\ pc = "send"
    /\ traffic' = AddTransaction(traffic, Head(left), clock)
    /\ sent_log' = Append(sent_log, [amount |-> Head(left), stamp |-> clock])
    /\ left' = Tail(left)
    /\ pc' = IF left' # <<>> THEN "send" ELSE IF conf.debug THEN "debug" ELSE "loop"
    /\ UNCHANGED <<args, conf, opened, ipc, held, streamer, socket, clock, timing, source,
                   read_log, report>>

(* The source's frame rate and both traffics; asking prunes the windows.   *)
Debug ==
    /\ pc = "debug"
    /\ source' = CheckFifo(source, clock)
    /\ traffic' = CheckFifo(traffic, clock)
    /\ report' = [fps    |-> IF conf.source = "ipc" THEN GetFps(timing) ELSE GetAverageFps(timing),
                  source |-> source'.accumulator, sent |-> traffic'.accumulator,
                  reads  |-> Len(read_log), at |-> clock]
    /\ pc' = "loop"
    /\ UNCHANGED <<args, conf, opened, ipc, held, streamer, socket, left, clock, timing,
                   read_log, sent_log>>

(* Time passes: the source has no frame yet, the pause between packets, a  *)
(* busy machine.  Before the first frame it does not matter.               *)
Tick(d) ==
    /\ pc \in {"loop", "send", "debug"}
    /\ clock + d <= MaxClock
    /\ clock' = clock + d
    /\ UNCHANGED <<pc, args, conf, opened, ipc, held, streamer, socket, left, stats>>
---------------------------------------------------------------------------
NoReport == [fps |-> <<0, 1>>, source |-> 0, sent |-> 0, reads |-> 0, at |-> -1]

Init ==
    /\ pc = "start"
    /\ args \in CommandLines
    /\ conf = Configure(<<>>)
    /\ opened = <<"nothing", "">>
    /\ ipc = [shm |-> "open", sem |-> "open", mq |-> "open"]
    /\ held = FALSE
    /\ streamer = Unset
    /\ socket = "none"
    /\ left = <<>>
    /\ clock = 0
    /\ timing = <<>>
    /\ source = NewTraffic
    /\ traffic = NewTraffic
    /\ read_log = <<>>
    /\ sent_log = <<>>
    /\ report = NoReport

ServerStep ==
    \/ Start
    \/ OpenIpcSource
    \/ \E ok \in BOOLEAN : OpenCapture(ok)
    \/ ConfigStreamer
    \/ \E bound \in BOOLEAN : InitStreamer(bound)
    \/ \E size \in FrameSizes \cup {0} : ReadCapture(size)
    \/ ReceiveMessage
    \/ LockSemaphore
    \/ \E size \in FrameSizes : CopyFrame(size)
    \/ SendPacket
    \/ Debug

Next == ServerStep \/ \E d \in Steps : Tick(d)

Spec == Init /\ [][Next]_vars

(* The process is scheduled, other processes announce frames and give the  *)
(* semaphore back.                                                         *)
FairSpec == Spec /\ WF_vars(ServerStep)
---------------------------------------------------------------------------
Events == [amount : Nat, stamp : Nat]
Traffics == [events : Seq(Events), accumulator : Nat]

(* No window's sum goes below zero, no window of timestamps grows beyond   *)
(* its limit.                                                              *)
TypeOK ==
    /\ pc \in Ended \cup {"start", "source", "config", "init", "loop", "lock", "copy",
                          "send", "debug"}
    /\ args \in CommandLines
    /\ ipc \in IpcObjects
    /\ held \in BOOLEAN
    /\ streamer.wire_port \in (0..(Base - 1)) \X (0..(Base - 1))
    /\ streamer.address \subseteq 0..31
    /\ socket \in {"none", "open", "closed"}
    /\ left \in Seq(Nat \ {0})
    /\ clock \in 0..MaxClock
    /\ timing \in Seq(Nat) /\ Len(timing) <= Window
    /\ source \in Traffics /\ traffic \in Traffics
    /\ read_log \in Seq(Events) /\ sent_log \in Seq(Events)

(* The value of the last argument --key=value, among arguments that have   *)
(* no blanks.                                                              *)
Asked(key, default) ==
    LET given == {i \in 1..Len(args) : args[i][1].key = key /\ IsOption(args[i][1])}
    IN IF given = {} THEN default ELSE args[Max(given)][1].val

AskedNumber(key, default) ==
    NumberOf(Asked(key, [NoValue EXCEPT !.number = <<default>>]))

(* The number of an octet of the address in use. *)
OctetInUse(i) ==
    LET Value(k) == IF k + 8 * (4 - i) \in streamer.address THEN Power[k] ELSE 0
    IN Value(0) + Value(1) + Value(2) + Value(3) + Value(4) + Value(5) + Value(6) + Value(7)

DottedQuad(ip) ==
    Len(ip.quad) = 4 /\ ~ip.cut /\ \A i \in 1..4 : ip.quad[i] \in 0..255

(* Arguments with blanks are cut. *)
NoBlanks == \A i \in 1..Len(args) : Len(args[i]) = 1

(* What to open for a kind of source; a kind there is none of means a      *)
(* camera.                                                                 *)
SourceFor(kind, file, camera) ==
    IF kind = "ipc" THEN <<"ipc", "shared memory">>
    ELSE IF kind = "videofile" THEN <<"videofile", file>>
    ELSE <<"webcamera", camera>>

(* Whatever order options come in and however often: what the user asked   *)
(* for is in effect when a packet leaves -- the source, quality and pause, *)
(* and as port the one that a client binds which is given the same, though *)
(* neither end converts it.                                                *)
SettingsInEffect ==
    LET kind == Asked("source", [NoValue EXCEPT !.text = "webcamera"]).text
        file == Asked("video_path", [NoValue EXCEPT !.text = "default.avi"]).text
    IN pc = "send" /\ NoBlanks =>
          /\ streamer.wire_port = ListeningPort(AskedNumber("port", 53500))
          /\ streamer.compression = AskedNumber("compression", 100)
          /\ streamer.pause = AskedNumber("package_pause", 100)
          /\ opened = SourceFor(kind, file, AskedNumber("cam_id", 0))

(* Packets go to the address the user asked for, if it is one: the text    *)
(* goes through the configurator and the streamer's settings, and is put   *)
(* together, octet by octet, only once.                                    *)
AddressInEffect ==
    LET ip == Asked("ip", DefaultIp)
    IN pc = "send" /\ NoBlanks /\ DottedQuad(ip) =>
          \A i \in 1..4 : OctetInUse(i) = ip.quad[i]

(* The sum of a log in which what is older than the interval counts nothing. *)
LastInterval(log) ==
    SumOf([i \in 1..Len(log) |->
              [log[i] EXCEPT !.amount = IF clock - log[i].stamp <= Interval THEN @ ELSE 0]])

(* No pause so long that an age, cut to an int, looks young again. *)
NoLongPause(log) ==
    \A i \in 1..Len(log) :
        (IF i < Len(log) THEN log[i + 1].stamp ELSE clock) - log[i].stamp
            < IntRange \div 2 - Interval

JustPrinted == report.at = clock /\ report.reads = Len(read_log) /\ pc = "loop"

(* The traffic printed under "Mb/s" is what was read, and what was sent,   *)
(* in the last second: an accumulator of doubles that is only ever changed *)
(* by differences keeps step with a window pruned at irregular times.      *)
(* After 35 minutes without traffic it does not.                           *)
TrafficIsLastSecond ==
    JustPrinted =>
        /\ NoLongPause(read_log) => report.source = LastInterval(read_log)
        /\ NoLongPause(sent_log) => report.sent = LastInterval(sent_log)

(* The printed frame rate is that of the last Window reads, of the last    *)
(* two with an IPC source.                                                 *)
FrameRateIsRecent ==
    LET n == Len(read_log)
        m == IF conf.source = "ipc" THEN Least(n, 2) ELSE Least(n, Window)
    IN JustPrinted /\ n > 1 =>
          report.fps = Rate(m - 1, read_log[n].stamp - read_log[n - m + 1].stamp)

(* The semaphore is held to copy a frame and for nothing that may take     *)
(* long: not while packets leave, each after a pause, not while a camera   *)
(* or a message is waited for, nor when the semaphore itself is.  Only an  *)
(* exception or a bad pointer in the copy ends a server that has it.       *)
HeldOnlyToCopy == held => pc = "copy" \/ pc \in Ended

(* A server that cannot do its job says why ("Unexpected exception: "),    *)
(* instead of streaming to a wrong address or going round in silence: with *)
(* an address that has a wrong separator, without its semaphore, or with   *)
(* an object whose descriptor is 0.                                        *)
TroubleReported ==
    (/\ pc = "init"
     /\ \/ conf.ip.cut
        \/ /\ conf.source = "ipc"
           /\ \/ ipc.mq = "zero"
              \/ ipc.mq = "open" /\ (ipc.sem = "failed" \/ ipc.shm = "zero"))
    ~> (pc = "reported")
===========================================================================
