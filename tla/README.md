# TLA+ models of compression_streamer

The program streams video over UDP and hands frames between processes of one
host through shared memory. `src/compression_streamer` is the C++ program: a
server that reads a camera, a file or the shared memory and streams it, and a
client that receives and shows it. `src/streamer_scripts` are Python scripts
that feed or read the shared memory. The repository has no README, no tests and
hardly a comment; the models are taken from the code.

## 1. The system

| Component | State | Operations | Made correct by |
|---|---|---|---|
| `Paginator` (`paginator.h`) | range, page size, vector of pages | constructor | the pages tile the range, none is empty or too long |
| `Protocol::Manager`, sending side (`make_packets`) | `_frame_counter` | `make_packets` | every page travels with the offset and header of its own frame |
| `Protocol::Manager`, receiving side (`handle_packet`) | `_rx_buffer`, `_out_buffer`, `_received_data_volume` | `handle_packet`, `read_data_chunk` | no picture mixes frames; sizes match; never throws on what the streamer sends; integrity means something |
| `VideoStreamer` | socket, settings, `_dest_address`, traffic | `Init`, `SendFrame`, setters | a frame's packets are sent in order, to where the user asked; the socket is closed in the end |
| `VideoReceiver` | socket, `_enable_loop`, `_fifo`, `_mutex`, reader thread | `Init`, `StartReceive`, `ReadFrame`, destructor | frames come out in order and once; the thread never outlives the object; it ends when asked |
| `IpcManager` over `PosixShmem`, `PosixSemaphore`, `PosixMQueue`, in C++ and Python | segment, semaphore, queue of 10 messages, all shared between processes | `write_frame`, `read_frame`, lock and unlock, exit | critical sections exclude each other; an image is what the segment held at one moment; nobody gets stuck |
| video sources | capture handle or IPC objects, statistics | `Open`, `Read`, `GetFps`, `GetTraffic` | a source that cannot work says so |
| `VideoCodec` | – | `encode`, `decode` | a wrapper over OpenCV |
| `TrafficStat`, `TimingStat` | window of events | push, average | what is printed is the traffic of the last second and the rate of the last frames |
| `Configurator`, `ArgParser` | options | parse, getters | what was asked for is in effect when the first packet leaves |
| `main`, `run_server`, `run_client` | – | the two loops | failures are reported; what others wait for is kept no longer than needed |

Interactions. `run_server` takes a frame from a source and calls `SendFrame`,
which paginates it and calls `sendto` page by page. The client's reader thread
receives datagrams, feeds them to `handle_packet` and pushes a finished frame
into `_fifo` under `_mutex`; the main thread polls the fifo under the same
mutex, shows the frame and polls the keyboard. With `source=ipc` the server
reads frames that another process, usually `server.py`, writes into the shared
memory.

What is hard: a datagram network (loss, duplicates, reordering) under a
protocol that recognises a new frame only by a different 16-bit number; the
count of bytes that runs ahead of the frame it belongs to; two threads and the
destruction of the object they share; several processes in two languages with
different ideas of locking (C++ waits for ever, Python gives up after 10 ms and
may go on regardless), which exit, are interrupted and are killed between lock
and unlock; objects that fail to open and are used nevertheless; statistics
pruned at irregular times.
`PROJECT.json` lists these hazards line by line.

## 2. Modules

| Module | Models | Notes |
|---|---|---|
| `Pages` | the number of pages | used by the two below |
| `Paginator` | the constructor, one action per loop iteration | iterators are positions |
| `FrameData` | payloads as sequences of bytes that know where they come from, `resize`, `copy` | |
| `FrameChannel` | **abstract specification**: what streamer and receiver promise together | a best-effort channel |
| `TransportProtocol` | the path from `SendFrame` to `ReadFrame` | implements `FrameChannel` |
| `PacketHeader` | the header's bytes, written and read | |
| `FrameStore`, `FrameMailbox` | **abstract specification**: what `IpcManager` promises | a box; writing and reading are single steps |
| `Ipc` | the shared-memory hand-over, C++ and Python | implements `FrameMailbox` |
| `ReceiverLife` | `VideoReceiver` and its thread from `Init` to the destructor, as `run_client` uses them | |
| `Options` | `ArgParser`, `Configurator` and the conversion of addresses and ports, as operators | |
| `Statistics` | `TrafficStat` and `TimingStat` as values and operators on them | |
| `ServerLife` | a server from its command line to its end: source, streamer, statistics | uses the two above |
| `PageLemmas` | proofs | arithmetic of pages; induction along numbers |
| `PaginatorProofs`, `PacketHeaderProofs`, `TransportProofs`, `IpcProofs`, `ReceiverLifeProofs`, `ServerProofs` | proofs | each about the module it is named after |
| `IntegrityProofs` | proofs | what the integrity of a frame tells; builds on `TransportProofs` |
| `MC_*` | constants for TLC | |

### How state and actions correspond to the code

*TransportProtocol.* `frame_counter`, `rx`, `volume` and `fifo` are
`_frame_counter`, `_rx_buffer`, `_received_data_volume` and `_fifo`; `packs` is
the rest of the loop in `SendFrame`, `net` the datagrams in flight, `sent` the
frames given to `SendFrame`, named by their number. `SendFrame(pic)` is
`make_packets`; `SendPacket(n)` one `sendto`, of which the network delivers `n`
copies; `ReceivePacket(d)` a whole round of `ReadRoutine`: `recv`,
`handle_packet` with its two branches, which differ only in where the size
comes from (`Target`), and the push; `ReadFrame` the locked part of
`VideoReceiver::ReadFrame`. The order inside `handle_packet` is kept: the bytes
are counted first, then the frame in `_rx_buffer` is handed over, then the
buffer is resized, then the page is checked and copied. Uninitialised members
(`_frame_counter`, `_received_data_volume`, `_rx_buffer.frame_id`) start with
any value. `_out_buffer` is filled and read within one `ReceivePacket` and needs
no variable. `RestartServer` drops the packets not sent yet and takes any
counter; nothing else changes, for the receiver does not notice. `confused` is
history: a datagram met, in the receiver, a frame that is another and has its
identifier (`Mistaken`). Pixels are bytes that carry their frame and position, so a mixture of
frames is visible; integrity is a fraction, not a double.

*PacketHeader.* `Base` stands for 256. Both sides address every byte by hand,
so `Encode` follows the writer's positions (`Field`) and `Decode` the reader's
(`First`). `TransportProtocol` uses the result: dimensions modulo `DimMod`,
identifiers modulo `IdMod`.

*Ipc.* One action per system call or chunk of a copy. `WriteLock`, `CopyIn`,
`Unlock`, `Send` are `write_frame`; `Receive`, `ReadLock`, `CopyOut`, `Unlock`
are `read_frame`. Python differs: its lock and send may time out
(`ReadLockTimeout`, `SendTimeout`; a writer whose lock times out drops the
frame, which leaves no trace), its unlock tests the value and posts in two
steps (`UnlockCheck`, `UnlockRelease`), and at exit `__del__` unlocks once more
(`Exit`, `DyingCheck`, `DyingRelease`). `Interrupt` is `server.py` going on
after an exception inside `write_frame`, possibly with the semaphore. `Kill` is
a process that vanishes with what it holds. A process that exits or is killed
is started again. `frames` holds the sizes of the frames written to the end,
which names them; a chunk of the segment is the number of the frame written
there last; `results` is what `read_frame` returned, as far as it was read under
the semaphore. `holders`, who acquired the semaphore, and `usurped`, whether a
Python process has posted one it had not acquired (`PythonPost`), are history.
A process is inside (`Inside`) when it is in the code between lock and unlock,
whether it acquired anything or not.

*ReceiverLife.* `main` and `reader` are the two threads' places. `Network`
lets datagrams stop and come back, `PressKey` is the user, whose key waits until
`waitKey` is called after the next frame. `recv` may fail.

*Options.* A command line is a sequence of arguments cut into words at blanks,
because `ArgParser` joins `argv` and splits it again. A value is a record of the
ways the program reads it: as text, as a number, as a dotted address
(`NumberOf`, `Conversions`). `Configure` is the constructor of `Configurator`,
with every default. `Conversions` gives a set, because `convert_addr` compares a
separator that it may never have read. What is built in a loop (`Parse`, the
sum of a window, the powers of two behind shifts) is a recursive function, not a
RECURSIVE operator, so that it can be proved about. A port is the two bytes it
has in memory (`InMemory`), in the order of the machine (`LittleEndian`), because
neither end calls `htons` for it; `NetworkOrder` is what `htons` would make of it,
and `ListeningPort` what the receiver binds.

*Statistics.* A `TrafficStat` is its queue and its accumulator; a `TimingStat` is
its deque. Time is a count of ticks; `Age` is cut to `IntRange` values the way
`usecs_to_tail` cuts microseconds to an `int`.

*ServerLife.* `pc` is where `main` and `run_server` are, from `Start` over opening
the source (`OpenCapture`, `OpenIpcSource`), `ConfigStreamer` and `InitStreamer`
into the loop: `ReadCapture`, or `ReceiveMessage`, `LockSemaphore` and `CopyFrame`
for the shared memory; `Yield` is what both `Read`s end with and what the loop
does with the frame; `SendPacket` is one turn of `SendFrame`'s loop; `Debug` are
the three numbers printed. `Throw` is an exception on its way to `main`; in `CopyFrame`
the constructor of `cv::Mat` or `get_pointer` may raise it, with the semaphore
held, and nothing releases it. The IPC
objects' descriptors are open, -1 (`"failed"`) or 0 (`"zero"`, possible when the
program is started without stdin), which the code takes for open, open and
closed. `read_log`, `sent_log` and the time in `report` are history. The server
also creates IPC objects it never uses when its source is not `ipc`.

## 3. Runs

| Run | Bounds | Shows |
|---|---|---|
| `paginator` | ranges 0–9, page sizes 0–4 | pages tile the range; nothing is empty or left over |
| `packet_header` | bytes of 3 values, every pair of fields with 13 boundary values each | fields arrive truncated to their width and do not leak |
| `transport_lossy` | 4 frames of 3 pages, 3 identifiers, loss, order kept | no blend, order, integrity never calls a frame with holes full, refinement of `FrameChannel`; identifiers confuse frames only after a full turn |
| `transport_reliable` | 4 frames of 3 pages, 2 identifiers, fair | integrity is exact; every frame but the last is shown |
| `transport_chaos` | 2 frames of 2 pages, raw and compressed, one too wide for the header; every datagram twice, any order, restarts | geometry matches payload; no blend and the refinement until a datagram is taken for one of another frame |
| `transport_first_frame` | 2 frames, perfect network | *violation*: the first frame has more than 100 % |
| `transport_restart_ids` | 3 frames, restarts, 4 identifiers | *violation*: a picture mixes two frames |
| `ipc_cpp` | 2 C++ writers, 1 C++ reader, 4 frames of 1 or 2 chunks, queue of 1, fair | nobody gets stuck; refinement of `FrameMailbox` |
| `ipc_python` | a C++ and a Python process on each side, 2 frames of 1 or 2 chunks, queue of 1, exits, interrupts and kills of the C++ writer | nobody but a Python reader after a timed-out lock is inside beside another; images are snapshots |
| `client_life` | fifo of 2, failing `recv`, fair | the thread stays inside the object's life; a pressed key and a destructor end the process |
| `client_failure` | fifo of 1 | *violation*: a failed `Init` crashes instead of being reported |
| `server` | 6 command lines, 4 reads, a window of 3 timestamps, 5 ticks, an int of 8 values, bytes of 4, fair | options in effect; traffic of the last second; frame rate; semaphore held for a copy only; trouble reported |

Why the bounds are enough. A page of two bytes gives frames with a full page, a
short page and both. Identifiers wrap within the run (2 or 3 identifiers, up to
4 frames), so equal identifiers of different frames occur; `MaxFrames`
exceeds `IdMod` in `transport_lossy` so that losing all of the frames between
makes them meet. A datagram that stays in `net` to the end is a lost one, so the
unordered runs cover losses without a separate choice. A queue of one message
is full after one frame; a frame of two chunks can be torn, and a shorter one
leaves a rest of it behind. In `server` the fourth read pushes the first out of
the window, one tick keeps an event in the interval of one tick and two do not,
and a pause of four ticks is what 35 minutes are to an `int`; the command lines
hold a repeated option, a port too large for its two bytes, a packet size nobody
reads, values that are missing, no numbers or cut by a blank, addresses with too few numbers, too large ones and a wrong
separator, an unknown source and an unknown mode. Deadlock is not
checked in any run: the source may stop, the constructor and the client end.

Conditions in the properties:

- `OneFramePerPicture`, `NoFalseFull`, `ChannelSpec`: until `confused`, when a
  datagram was taken for one of the frame in the receiver and is of another. The
  identifiers cannot tell these apart. Without restarts it takes frames `IdMod`
  (65536) or more apart (`OnlyLapsConfuse`); with them, a new server whose
  counter comes to hold the identifier the receiver is assembling. A restart alone
  ends nothing, and `GeometryMatchesPayload` holds regardless. With restarts
  `OneFramePerPicture` and `ChannelSpec` are checked in `transport_chaos`; that
  `InOrder` and `NoFalseFull` survive them too is proved.
- `NoFalseFull`, `LosslessExact`: on a network that keeps order and doubles
  nothing, frames of one size whose dimensions fit the header, and for the exact
  count from the second frame on: the count is taken with the next frame's first datagram instead of the frame's own, which evens
  out only under these conditions.
- `ReceiverSurvives`: dimensions fit the 16 bits of the header.
- `MutualExclusion`: two processes can be between lock and unlock, since the Python
  reader does not look at what its lock returned. The property says that it is the
  only one that goes in like that: of any two inside one is such a reader, so
  writers keep out each other and C++ readers.
- `MutualExclusion`, `ImageIsSnapshot`, `MailboxSpec`: until `usurped`, when a
  Python process releases a semaphore it did not acquire. The program does reach
  such states (unlock after a timed-out lock; `__del__`), and what its lock
  promises ends there. Images a Python reader takes after a timed-out lock are no
  part of any promise.
- `ImageIsSnapshot` says less than that an image is one frame, because that is
  not so: the message is read before the lock, and when a smaller frame has been
  written over a larger one, the segment shows both.
- `QuitEnds`: datagrams keep arriving (`[]<>(~silent)`) and frames keep being
  completed; `DestructionEnds` needs the first only.
- `SettingsInEffect`, `AddressInEffect`: arguments without blanks; the address if it
  is a dotted quad. Others are cut or converted to something else, which the model
  follows. The port in effect is the one a client of this program binds that is
  given the same option. It is not the port of that number, which the settings
  print (`configurator.cpp:151`): without `htons` the default 53500 leaves as 64720 on
  a little-endian machine. Client and server make the same mistake, so they find
  each other.
- `TrafficIsLastSecond`: no pause of 35 minutes (`NoLongPause`).
- `HeldOnlyToCopy`: a server that an exception or a bad pointer ends inside the
  copy keeps the semaphore, for it is released by a call, not by a guard object.

What the violations show:

- `transport_first_frame`: the datagram that completes a frame is counted for it,
  so the first frame is reported with more than 100 %.
- `transport_restart_ids`: a new server may go on with the identifier that is being
  assembled, because no constructor sets the counter.
- `client_failure`: `~VideoReceiver` uses its thread before there is one, so a
  client that cannot bind its port crashes instead of saying so.

## 4. Fairness

`FairSpec` of `TransportProtocol` has weak fairness of the streamer's loop, the
receiver's thread and the display loop, all of which run without conditions of
their own; the source owes no frame. `FairSpec` of `Ipc` has weak fairness of
each process for the call it is in; when a writer calls is left open. Weak
fairness does not promise a waiting process the semaphore, it promises only
that a process that could always go on does; that suffices because a blocked
`mq_send` stops the writers. `FairSpec` of `ReceiverLife` has weak fairness of
both threads, strong fairness of getting the mutex, for either, because each
frees it on every turn, and of `recv` returning when datagrams keep arriving. No
fairness makes the user press a key, the network deliver, or `recv` fail.
`FairSpec` of `ServerLife` has weak fairness of the process as a whole: it is
scheduled, a blocking `mq_receive` gets a message and `sem_wait` the semaphore in
the end, because other processes announce frames and unlock. That is only used
for `TroubleReported`, which says that a server that cannot work does not go
round in silence; time owes nothing.

## 5. Proofs

All theorems hold for every value of the constants that satisfies the named
assumptions (`PaginatorAssumption`, `HeaderAssumption`, `TransportAssumption`,
`IpcAssumption`, `LifeAssumption`, `OptionsAssumption`, `ServerAssumption`,
`StatisticsAssumption`), which only give the constants their types.

- `PaginatorProofs!PaginatorCorrect`: `TypeOK`, `SomethingLeft`, `PagesTileRange`.
  The invariant `IInv` adds that the pages still missing are as many as the rest
  of the range needs (`CountMatchesRest`); without it nothing ties the count
  computed before the loop to the offset in it. The step rests on
  `PageLemmas!PageCountStep`. `PaginatorTypeCorrect` and `PagesLeft` are its parts.
- `PacketHeaderProofs!HeadersArrive`: `ArrivesTruncated`. The core is arithmetic:
  `x % (a*b) = (x % a) + a * ((x \div a) % b)` (`DivDiv`), applied twice for two
  bytes and four (`TwoBytesOf`, `FourBytesOf`), and `Layout`, that reader and
  writer agree where a byte is. `HeaderTypeCorrect`: `TypeOK`, by closure of the
  numbers and bytes under the same operators.
- `TransportProofs`: all but `OnlyLaps` for `RestartSpec`, in which the server may be
  restarted at any time; `RestartsAllowed` says that this includes `Spec`.
  `SizesInv` (packets are pieces of their frames, the buffer has the size its
  header says, so does everything in the fifo) gives `SizesUnderRestart`,
  `ReaderNeverThrows` and `TypeCorrect`.
  `ContentsInv` adds that identifiers count frames from one first value since
  the last restart (`IdsCountFrames`), so that two equal identifiers less than
  `IdMod` apart mean one frame; that the buffer shows `cur` (`RxShowsCur`); and,
  on an ordered network, that nothing older than `cur` is in flight. It gives
  `NoBlend`, `ShownInOrder` and, step by step, `ImplementsChannel`: `SendFrame`
  is `Offer`, a datagram is a stutter, a `Skip` or a `Deliver`, `ReadFrame` is
  `Take`, a restart is a stutter. `OnlyLaps` is `OnlyLapsConfuse` for `Spec`: while
  the server runs on, identifiers count all frames from one first value.
- `IntegrityProofs`: `PagesInv` and `PipelineInv` say that what is on its way are
  pages of their frames, in the order of their offsets and none twice, which
  rests on the tiling of a frame by `make_packets` (`PacketsTileFrame`).
  - `FullMeansWhole`: `NoFalseFull`, with losses and restarts, until `confused`. The count that goes
    with a frame holds the first datagram of the next frame instead of its own
    first one, so it says nothing by itself. `AccountInv` relates the running count
    to the page copied last: either there is no hole so far and the count is the
    bytes up to the end of that page, less the first page (`Exact`), or it is short
    of that end by more than a page (`Short`). Short is for good, since a lost page
    is never made up for, and the next frame's datagram adds no more than a page.
  - `LosslessIsExact`: `LosslessExact`. `GaplessInv` adds that the page copied last,
    the datagrams in flight and the packets not yet sent are one sequence of
    pages in which each comes right after the one before, in the same frame or
    at the beginning of the next (`Seamless`). So nothing is ever `Short`.
  - Two of the hypotheses came from TLC, which finds counterexamples to either without
    frames that fit the header (the dimensions arrive truncated and the buffer
    is too small for the pages), and to the first with duplicates.
- `IpcProofs!LockExcludes`: `MutualExclusion`, for any number of processes. The
  value of the semaphore and the processes that acquired it share one permit
  until `usurped`, and who is inside has acquired it or is a Python reader
  (`InsideHolds`); without the second part the first says nothing about the
  segment.
- `IpcProofs`, the images: `TypeInv` adds to `TypeOK` where in a call a process may be
  copying and gives `IpcTypeCorrect`. `Shared` is inductive until `usurped`: the
  segment shows the frames written to the end, or those and the beginning of the
  next one while its writer holds the permit, or for ever after it was killed
  with it (`SegmentInv`); messages and the items of processes past their copy name
  written frames by their size (`MessageInv`); and what a reader inside has copied
  is what the segment still holds (`ReadingInv`). Without `SegmentInv` nothing ties
  an image to one moment: it is the moment of the unlock. This gives
  `ImagesAreSnapshots` and, because the last `CopyIn` of a frame is `Write` and the
  end of a read is `Read`, `ImplementsMailbox`.
- `ReceiverLifeProofs!ReaderStaysInside`: `ReaderInsideLifetime`. `LifeInv` adds that
  no reader exists before `StartReceive`, which finds an open socket, and that
  a holder of the mutex is inside its critical section. `LifeTypeCorrect`:
  `TypeOK`; `RoomInv` adds that a reader about to push found room.
- `ServerProofs!NeverHeldInTheLoop`: `HeldOnlyToCopy`, which is inductive as it
  stands: every way out of the copy that goes on with the loop gives the semaphore
  back.
- `ServerProofs!RateIsRecent`: `FrameRateIsRecent`. `RateInv` says that `timing` is the
  end of `read_log` backwards, as long as the window, and what the report was
  computed from.
- `ServerProofs!TrafficIsRecent`: `TrafficIsLastSecond`, for every interval, clock and
  width of an int. `TrafficInv` has, for source and streamer, a number k of dropped
  events: the queue is the log without its first k and the accumulator is the sum
  of the queue (`Holds`); the dropped ones are older than the interval, and the
  others were young when the last came (`Tended`). From this and `Busy`, no pause
  longer than an int counts, follows that every age in the queue can be read
  (`Readable`); so `check_fifo`, whose loop stops at the first young event, drops
  exactly the old ones (`Exact`), because the log is sorted. `MaskedSum` then
  equates the sum of the queue with that of the log in which old events
  count nothing. Pruning at every push is what makes `Tended` inductive: pruning
  only when the number is printed would leave events in the queue whose age is no
  longer readable after many short pauses.
- `ServerProofs!TypeCorrect`: `TypeOK`. It needs `TrafficInv` (the accumulator is the
  sum of what is left, hence not negative) and `ConfigureTyped`.
- `ServerProofs!SettingsReachTheStream`: `SettingsInEffect`. `HoldsLast` is the
  invariant of `parse`'s loop: each key has the value of the last option with
  that key. `AskedHeld` compares this with `Asked`, which looks for the last such
  argument directly, `SourceAsked` does so for what is opened, and `SettingsInv`
  follows the values from the `Configurator` to the source, the streamer and the
  socket. That an argument without blanks is one
  word is used through `FlattenSeqExact`.
- `ServerProofs!AddressReachesTheStream`: `AddressInEffect`. The number of each octet is the
  sum of its eight bits (`OctetBits`), and shifting four times by eight keeps the
  octets apart when they are below 256 (`AddressBits`).

Recursion in these proofs: a recursive function is a CHOOSE of a function that
satisfies its equation, so each needs one proof that such a function exists and
that its values are determined. The library's theorems on recursion take an
operator as parameter and cannot be used. `PageLemmas` has the same as facts on sets and
functions: every set of numbers has a least element (`Smallest`), a set with 0
and closed under successors up to n holds 0..n (`UpTo`), and a function with a
given first value and given steps exists (`Recursion`). `SumsExist`,
`FlattensExist`, `ParsedExist` and `PowerExact` are applications.

Every invariant, action property and refinement that a passing run checks is stated
by one of these theorems. What stays with TLC are the liveness properties, because
fairness and ENABLED are out of the prover's reach: `NewestButOneShown`,
`EveryFrameRead`, `QuitEnds`, `DestructionEnds` and `TroubleReported`.

## 6. Not modelled, and assumptions

Image coding (`VideoCodec` is a call of OpenCV; that `encode` fails is left out),
the Python image processing and test pattern, drawing, printing and the units
of what is printed, sleeping. A failing `sendto` goes unnoticed in the code and
is a lost datagram here. Frames are below 2^31 bytes, and fit the segment: the
code compares nowhere. Datagrams reaching the client come from the streamer.
The client's own conversion of its address is the same code as the streamer's
and not modelled a second time; of its port there is `ListeningPort`. `SendMessage`, `SetAddress`, `StopReceiver`,
`ArgParser`'s constructors from strings, `Synchronized` and non-blocking queues
have no callers; `Paginator`'s accessors return members. No option sets the
flags under which `run_client` and `run_server` would write their frames into
the shared memory: the C++ writers of `Ipc` are what `IpcManager` offers, the
reader is what `source=ipc` uses. The configured packet size is parsed and printed
(`configurator.cpp:155`) and read by nothing else: pages are 1280 bytes
(`transport_protocol.cpp:13`), which `PacketPayload` stands for whatever
`conf.packet_size` is.

The composition of `Ipc`, `ServerLife` and `TransportProtocol` into one state space
is not built: the three share no variable but the frame that is handed over, and
each abstracts what the next one needs (a frame's number, its size, its bytes).

## 7. Plan

Done, in this order: Paginator, transport with its abstract channel, header,
IPC with its abstract mailbox, client life cycle, server life cycle with options
and statistics; the proofs of all invariants and refinements.

What would come next:

1. `ReceiverLife`: `StopReceiver` and a second `StartReceive` as calls of a general
   user, should one appear.
2. Action properties of the abstract specifications, as corollaries of the
   refinements.
