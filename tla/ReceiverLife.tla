--------------------------- MODULE ReceiverLife ---------------------------
(***************************************************************************)
(* The life of the client's VideoReceiver (video_receiver.cpp, client.cpp, *)
(* main.cpp): the main thread initialises it, starts its reader thread,    *)
(* takes frames until 'q' and destroys it, while the reader thread uses    *)
(* the receiver's socket, flag, fifo and mutex by reference.               *)
(*                                                                         *)
(* What a datagram does to the protocol is module TransportProtocol's      *)
(* subject; here it completes a frame, or does not, or makes handle_packet *)
(* throw; and recv may fail without one.                                   *)
(***************************************************************************)
EXTENDS Integers

CONSTANTS
    Outcomes,     \* of recv and handle_packet
    MaxFifo       \* bound: frames waiting in _fifo

ASSUME LifeAssumption ==
    /\ Outcomes \subseteq {"none", "frame", "throw", "error"}
    /\ MaxFifo \in Nat \ {0}

VARIABLES
    main,         \* where run_client is
    reader,       \* where the reader thread is
    enable_loop,  \* _enable_loop, written and read without synchronisation
    fifo,         \* length of _fifo
    mutex,        \* who holds _mutex
    socket,       \* _socket_desc: "none", "open" or "closed"
    failed,       \* whether an exception is under way in the main thread
    key,          \* environment: whether 'q' has been pressed
    silent        \* environment: no datagram arrives

vars == <<main, reader, enable_loop, fifo, mutex, socket, failed, key, silent>>

Running == main \notin {"exited", "reported", "crashed", "terminated"}

ReaderRuns == reader \notin {"none", "done"}
---------------------------------------------------------------------------
(* The main thread. *)

(* open_socket throws "Cant create socket", or with a descriptor nobody    *)
(* closes but the destructor "Wrong IP-address for destination" or "Cant   *)
(* bind socket".                                                           *)
InitReceiver(ok) ==
    /\ main = "init"
    /\ socket' \in IF ok THEN {"open"} ELSE {"none", "open"}
    /\ failed' = ~ok
    /\ main' = IF ok THEN "start" ELSE "dtor"
    /\ UNCHANGED <<reader, enable_loop, fifo, mutex, key, silent>>

StartReceive ==
    /\ main = "start"
    /\ enable_loop' = TRUE
    /\ reader' = "test"
    /\ main' = "read"
    /\ UNCHANGED <<fifo, mutex, socket, failed, key, silent>>

(* ReadFrame looks into _fifo under _mutex; when it is empty it sleeps and *)
(* looks again.                                                            *)
ReadLock ==
    /\ main = "read"
    /\ mutex = "free"
    /\ mutex' = "main"
    /\ main' = "pop"
    /\ UNCHANGED <<reader, enable_loop, fifo, socket, failed, key, silent>>

(* A ReadFrame that does not look at the size. *)
ReadPopBlind ==
    /\ main = "pop"
    /\ fifo' = fifo - 1
    /\ main' = "show"
    /\ mutex' = "free"
    /\ UNCHANGED <<reader, enable_loop, socket, failed, key, silent>>

ReadPop ==
    /\ main = "pop"
    /\ IF fifo > 0
       THEN fifo' = fifo - 1 /\ main' = "show"
       ELSE main' = "read" /\ UNCHANGED fifo
    /\ mutex' = "free"
    /\ UNCHANGED <<reader, enable_loop, socket, failed, key, silent>>

(* A client that looks for a key only when no frame waits. *)
KeySeenIfIdle == key /\ fifo = 0

(* waitKey(1) == 'q' *)
KeySeen == key

(* Decoding and showing the frame; 'q' is only looked for here. *)
ShowFrame ==
    /\ main = "show"
    /\ main' = IF KeySeen THEN "dtor" ELSE "read"
    /\ UNCHANGED <<reader, enable_loop, fifo, mutex, socket, failed, key, silent>>

(* "Unexpected pixel size", or an exception of the codec. *)
ShowThrows ==
    /\ main = "show"
    /\ failed' = TRUE
    /\ main' = "dtor"
    /\ UNCHANGED <<reader, enable_loop, fifo, mutex, socket, key, silent>>

(* A destructor that leaves the flag alone. *)
FlagAfterDtorKept == enable_loop

FlagAfterDtor == FALSE

(* ~VideoReceiver dereferences _thread_ptr, which is null unless           *)
(* StartReceive has run.                                                   *)
Destroy ==
    /\ main = "dtor"
    /\ enable_loop' = FlagAfterDtor
    /\ main' = IF reader = "none" THEN "crashed" ELSE "join"
    /\ UNCHANGED <<reader, fifo, mutex, socket, failed, key, silent>>

(* A destructor that does not wait. *)
JoinedAtOnce == TRUE

Joined == reader = "done"

(* close, the members' destructors, and main's catch clause if an          *)
(* exception brought us here.                                              *)
Finish ==
    /\ main = "join"
    /\ Joined
    /\ socket' = "closed"
    /\ main' = IF failed THEN "reported" ELSE "exited"
    /\ UNCHANGED <<reader, enable_loop, fifo, mutex, failed, key, silent>>
---------------------------------------------------------------------------
(* The reader thread, ReadRoutine::operator(). *)

TestFlag ==
    /\ Running
    /\ reader = "test"
    /\ reader' = IF enable_loop THEN "recv" ELSE "done"
    /\ UNCHANGED <<main, enable_loop, fifo, mutex, socket, failed, key, silent>>

(* recv blocks until a datagram arrives, or fails: its -1 is a size larger *)
(* than the buffer, to which resize will not go.  An exception of resize   *)
(* or handle_packet leaves the thread and terminates the process.          *)
Receive(outcome) ==
    /\ Running
    /\ reader = "recv"
    /\ silent => outcome = "error"
    /\ outcome = "frame" => fifo < MaxFifo
    /\ reader' = CASE outcome = "none"  -> "test"
                   [] outcome = "frame" -> "lock"
                   [] OTHER             -> "done"
    /\ main' = IF outcome \in {"throw", "error"} THEN "terminated" ELSE main
    /\ UNCHANGED <<enable_loop, fifo, mutex, socket, failed, key, silent>>

PushLock ==
    /\ Running
    /\ reader = "lock"
    /\ mutex = "free"
    /\ mutex' = "reader"
    /\ reader' = "push"
    /\ UNCHANGED <<main, enable_loop, fifo, socket, failed, key, silent>>

Push ==
    /\ Running
    /\ reader = "push"
    /\ fifo' = fifo + 1
    /\ mutex' = "free"
    /\ reader' = "test"
    /\ UNCHANGED <<main, enable_loop, socket, failed, key, silent>>

(* The streamer on the other side pauses, goes or comes. *)
Network ==
    /\ Running
    /\ silent' = ~silent
    /\ UNCHANGED <<main, reader, enable_loop, fifo, mutex, socket, failed, key>>

(* The user; waitKey keeps the key until it is called. *)
PressKey ==
    /\ Running
    /\ key' = TRUE
    /\ UNCHANGED <<main, reader, enable_loop, fifo, mutex, socket, failed, silent>>
---------------------------------------------------------------------------
Init ==
    /\ main = "init"
    /\ reader = "none"
    /\ enable_loop \in BOOLEAN   \* no initialiser
    /\ fifo = 0
    /\ mutex = "free"
    /\ socket = "none"
    /\ failed = FALSE
    /\ key = FALSE
    /\ silent \in BOOLEAN

MainStep ==
    \/ \E ok \in BOOLEAN : InitReceiver(ok)
    \/ StartReceive
    \/ ReadLock
    \/ ReadPop
    \/ ShowFrame
    \/ ShowThrows
    \/ Destroy
    \/ Finish

ReaderStep ==
    \/ TestFlag
    \/ \E outcome \in Outcomes : Receive(outcome)
    \/ PushLock
    \/ Push

Next == MainStep \/ ReaderStep \/ Network \/ PressKey

Spec == Init /\ [][Next]_vars

(* Both threads are scheduled.  std::mutex is not fair: a thread that      *)
(* tries again and again gets it only if it is free again and again.       *)
FairSpec ==
    /\ Spec
    /\ WF_vars(MainStep)
    /\ WF_vars(TestFlag \/ Push)
    /\ SF_vars(\E outcome \in Outcomes \ {"error"} : Receive(outcome))
    /\ SF_vars(PushLock)
    /\ SF_vars(ReadLock)
---------------------------------------------------------------------------
(* In particular the fifo's length is never negative: nobody pops an empty *)
(* queue.                                                                  *)
TypeOK ==
    /\ main \in {"init", "start", "read", "pop", "show", "dtor", "join",
                 "exited", "reported", "crashed", "terminated"}
    /\ reader \in {"none", "test", "recv", "lock", "push", "done"}
    /\ enable_loop \in BOOLEAN
    /\ fifo \in 0..MaxFifo
    /\ mutex \in {"free", "main", "reader"}
    /\ socket \in {"none", "open", "closed"}
    /\ failed \in BOOLEAN
    /\ key \in BOOLEAN
    /\ silent \in BOOLEAN

(* The reader thread works on references into the receiver: it is gone     *)
(* before the receiver is, it never receives from a closed descriptor, and *)
(* it leaves no mutex locked behind.                                       *)
ReaderInsideLifetime ==
    /\ ReaderRuns => main \notin {"exited", "reported"} /\ socket = "open"
    /\ main \in {"exited", "reported"} => mutex = "free"

(* Pressing 'q' ends the process as long as datagrams keep arriving and    *)
(* some of them complete a frame: the key is only looked for after a       *)
(* frame, for which ReadFrame waits without a way out, and the join waits  *)
(* for a thread that sits in recv and looks at the flag when it returns.   *)
QuitEnds ==
    /\ []<>(~silent)
    /\ []<>(reader \in {"lock", "done"})
    => (key ~> ~Running)

(* And whatever makes the main thread give up the receiver, the process    *)
(* ends if datagrams keep arriving, whether or not they complete frames.   *)
DestructionEnds == []<>(~silent) => (main = "dtor" ~> ~Running)

(* main catches what run_client throws and prints "Unexpected exception:": *)
(* a client that fails says why instead of crashing.                       *)
FailureReported == failed => main \in {"dtor", "join", "reported"}
===========================================================================
