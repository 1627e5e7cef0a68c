------------------------ MODULE ReceiverLifeProofs ------------------------
(* The reader thread and the receiver it works on, for a fifo of any       *)
(* length and whatever handle_packet makes of the datagrams.               *)
EXTENDS ReceiverLife, TLAPS

(* Before StartReceive there is no reader, and it is only started with an  *)
(* open socket.                                                            *)
NotStarted ==
    /\ main \in {"init", "start"} => reader = "none"
    /\ main = "start" => socket = "open"

(* The main thread destroys the receiver only when the reader is done.     *)
Outlives ==
    /\ ReaderRuns => socket = "open"
    /\ main \in {"exited", "reported"} => reader = "done"

(* Each holder of the mutex is inside its critical section.                *)
MutexHeld ==
    /\ mutex \in {"free", "main", "reader"}
    /\ mutex = "main" => main \in {"pop", "terminated"}
    /\ mutex = "reader" => reader = "push"

LifeInv == NotStarted /\ Outlives /\ MutexHeld

LEMMA MainKeepsLifeInv ==
    ASSUME LifeInv, MainStep
    PROVE  LifeInv'
<1> USE DEF LifeInv, NotStarted, Outlives, MutexHeld, ReaderRuns
<1>1. CASE \E ok \in BOOLEAN : InitReceiver(ok)
  BY <1>1 DEF InitReceiver
<1>2. CASE StartReceive
  BY <1>2 DEF StartReceive
<1>3. CASE ReadLock \/ ReadPop
  BY <1>3 DEF ReadLock, ReadPop
<1>4. CASE ShowFrame \/ ShowThrows
  BY <1>4 DEF ShowFrame, ShowThrows
<1>5. CASE Destroy
  BY <1>5 DEF Destroy
<1>6. CASE Finish
  BY <1>6 DEF Finish, Joined
<1> QED
  BY <1>1, <1>2, <1>3, <1>4, <1>5, <1>6 DEF MainStep

LEMMA ReaderKeepsLifeInv ==
    ASSUME LifeInv, ReaderStep
    PROVE  LifeInv'
<1> USE DEF LifeInv, NotStarted, Outlives, MutexHeld, ReaderRuns
<1>1. CASE TestFlag
  BY <1>1 DEF TestFlag, Running
<1>2. CASE \E outcome \in Outcomes : Receive(outcome)
  <2>1. PICK outcome \in Outcomes : Receive(outcome)
    BY <1>2
  <2>2. outcome \in {"none", "frame", "throw", "error"}
    BY LifeAssumption
  <2>3. reader' \in {"test", "lock", "done"}
    BY <2>1, <2>2 DEF Receive
  <2> QED
    BY <2>1, <2>3 DEF Receive, Running
<1>3. CASE PushLock \/ Push
  BY <1>3 DEF PushLock, Push, Running
<1> QED
  BY <1>1, <1>2, <1>3 DEF ReaderStep

(* The reader thread never outlives the receiver it refers to, never       *)
(* receives from a closed descriptor and leaves no mutex locked            *)
(* (VideoReceiver::~VideoReceiver and ReadRoutine).                        *)
THEOREM ReaderStaysInside == Spec => []ReaderInsideLifetime
<1>1. Init => LifeInv
  BY DEF Init, LifeInv, NotStarted, Outlives, MutexHeld, ReaderRuns
<1>2. LifeInv /\ [Next]_vars => LifeInv'
  <2>1. CASE UNCHANGED vars
    BY <2>1 DEF vars, LifeInv, NotStarted, Outlives, MutexHeld, ReaderRuns
  <2>2. ASSUME LifeInv, Network \/ PressKey
        PROVE  LifeInv'
    BY <2>2 DEF Network, PressKey, LifeInv, NotStarted, Outlives, MutexHeld, ReaderRuns
  <2> QED
    BY <2>1, <2>2, MainKeepsLifeInv, ReaderKeepsLifeInv DEF Next
<1>3. LifeInv => ReaderInsideLifetime
  BY DEF LifeInv, Outlives, MutexHeld, ReaderInsideLifetime, ReaderRuns
<1> QED
  BY <1>1, <1>2, <1>3, PTL DEF Spec
---------------------------------------------------------------------------
(* A reader that is about to push found room.                              *)
RoomInv == TypeOK /\ (reader \in {"lock", "push"} => fifo < MaxFifo)

(* Nobody pops an empty queue, whatever the two threads' order             *)
(* (VideoReceiver::ReadFrame, ReadRoutine).                                *)
THEOREM LifeTypeCorrect == Spec => []TypeOK
<1>1. Init => RoomInv
  <2>1. 0 \in 0..MaxFifo
    BY LifeAssumption
  <2> QED
    BY <2>1, Zenon DEF Init, RoomInv, TypeOK
<1>2. RoomInv /\ [Next]_vars => RoomInv'
  <2> SUFFICES ASSUME RoomInv, [Next]_vars
               PROVE  RoomInv'
    OBVIOUS
  <2> USE LifeAssumption DEF RoomInv, TypeOK
  <2>1. CASE UNCHANGED vars
    BY <2>1 DEF vars
  <2>2. ASSUME Network \/ PressKey
        PROVE  RoomInv'
    <3>1. UNCHANGED <<main, reader, enable_loop, fifo, mutex, socket, failed>>
      BY <2>2 DEF Network, PressKey
    <3>2. key' \in BOOLEAN /\ silent' \in BOOLEAN
      BY <2>2, Zenon DEF Network, PressKey
    <3>3. enable_loop' \in BOOLEAN /\ failed' \in BOOLEAN
      BY <3>1, Zenon
    <3> QED
      BY <3>1, <3>2, <3>3
  <2>3. CASE (\E ok \in BOOLEAN : InitReceiver(ok)) \/ StartReceive
    BY <2>3 DEF InitReceiver, StartReceive
  <2>4. CASE ReadLock \/ ReadPop
    BY <2>4 DEF ReadLock, ReadPop
  <2>5. CASE ShowFrame \/ ShowThrows \/ Destroy \/ Finish
    <3>1. CASE ShowFrame
      BY <3>1 DEF ShowFrame
    <3>2. CASE ShowThrows
      BY <3>2 DEF ShowThrows
    <3>3. CASE Destroy
      BY <3>3 DEF Destroy, FlagAfterDtor
    <3>4. CASE Finish
      BY <3>4 DEF Finish
    <3> QED
      BY <2>5, <3>1, <3>2, <3>3, <3>4
  <2>6. CASE TestFlag \/ PushLock \/ Push
    BY <2>6 DEF TestFlag, PushLock, Push
  <2>7. CASE \E outcome \in Outcomes : Receive(outcome)
    <3>1. PICK outcome \in Outcomes : Receive(outcome)
      BY <2>7
    <3>2. CASE outcome = "frame"
      BY <3>1, <3>2 DEF Receive
    <3>3. CASE outcome # "frame"
      <4>1. reader' \in {"test", "done"} /\ main' \in {main, "terminated"}
        BY <3>1, <3>3 DEF Receive
      <4> QED
        BY <3>1, <4>1 DEF Receive
    <3> QED
      BY <3>2, <3>3
  <2> QED
    BY <2>1, <2>2, <2>3, <2>4, <2>5, <2>6, <2>7 DEF Next, MainStep, ReaderStep
<1> QED
  BY <1>1, <1>2, PTL DEF Spec, RoomInv
===========================================================================
