-------------------------------- MODULE Ipc --------------------------------
(***************************************************************************)
(* Frames handed from process to process on one host: IpcManager in C++    *)
(* (ipc_manager.cpp over posix_shmem, posix_semaphore, posix_mqueue) and   *)
(* its namesake in Python (streamer_scripts), which share one memory       *)
(* segment, one semaphore and one message queue.                           *)
(*                                                                         *)
(* A writer copies its frame into the segment under the semaphore and,     *)
(* after releasing it, announces the frame's geometry in the queue; a      *)
(* reader takes a message and then, under the semaphore, as many bytes as  *)
(* the message says of whatever the segment holds by then.                 *)
(*                                                                         *)
(* A frame is named by its place in `frames` and consists of chunks; a     *)
(* chunk of the segment holds the number of the frame written there last.  *)
(* Copying moves one chunk at a time.                                      *)
(***************************************************************************)
EXTENDS FrameStore, FiniteSets

CONSTANTS
    Writers,          \* processes that call write_frame
    Readers,          \* processes that call read_frame
    Python,           \* those of them that run the Python scripts
    Killable,         \* those of them that may be killed and started again
    Sizes,            \* sizes of frames, in chunks
    Room,             \* chunks of the segment (ShmemDedfaultSize)
    QueueMsgsCount,   \* capacity of the queue
    MaxFrames         \* bound: frames written

ASSUME IpcAssumption ==
    /\ Writers \cap Readers = {}
    /\ Python \subseteq Writers \cup Readers
    /\ Killable \subseteq Writers \cup Readers
    /\ Room \in Nat
    /\ Sizes \subseteq 1..Room
    /\ QueueMsgsCount \in Nat \ {0}
    /\ MaxFrames \in Nat

Procs == Writers \cup Readers

VARIABLES
    sem,       \* value of the semaphore
    shm,       \* the segment
    mq,        \* the queue
    pc,        \* where each process is
    item,      \* the frame it writes, or the message it received
    pos,       \* chunks it has copied
    img,       \* the image a reader has copied so far
    holders,   \* history: processes that acquired the semaphore and have not
               \* released it
    usurped,   \* history: a Python process released it out of turn
    frames,    \* history: sizes of the frames written to the end
    results    \* history: what read_frame returned of what it read under the
               \* semaphore

vars == <<sem, shm, mq, pc, item, pos, img, holders, usurped, frames, results>>
local == <<pc, item, pos, img>>

(* ftruncate fills the segment with zeros. *)
EmptySegment == [i \in 1..Room |-> 0]

NoItem == [frame |-> 0, size |-> 0, nul |-> FALSE]
---------------------------------------------------------------------------
(* The semaphore. *)

(* A lock that does not wait. *)
AcquireNoWait(p) ==
    /\ sem' = IF sem > 0 THEN sem - 1 ELSE 0
    /\ holders' = holders \cup {p}

(* sem_wait, and acquire(timeout) when it succeeds. *)
Acquire(p) ==
    /\ sem > 0
    /\ sem' = sem - 1
    /\ holders' = holders \cup {p}

(* A release that forgets sem_post. *)
PostNothing(p) ==
    /\ UNCHANGED sem
    /\ holders' = holders \ {p}

(* sem_post, whoever calls it. *)
Post(p) ==
    /\ sem' = sem + 1
    /\ holders' = holders \ {p}

(* Nobody has used the segment yet. *)
Unused ==
    /\ holders = {}
    /\ frames = <<>>
    /\ shm = EmptySegment

(* A Python process posts after a look at the value, without knowing who   *)
(* has taken the semaphore.  That is harmless if it has, or if a semaphore *)
(* created with 0 is given its first permit.                               *)
PythonPost(p) ==
    /\ Post(p)
    /\ usurped' = (usurped \/ (p \notin holders /\ ~(sem = 0 /\ Unused)))

Goto(p, l) == pc' = [pc EXCEPT ![p] = l]

Copied(p) == pc[p] = "copy" /\ pos[p] = item[p].size

(* What follows the critical section: the writer still has to announce its *)
(* frame, read_frame returns.                                              *)
Leave(p) ==
    /\ Goto(p, IF p \in Writers THEN "send" ELSE "idle")
    /\ results' = IF p \in Readers \cap holders
                  THEN Append(results, [frame |-> item[p].frame, img |-> img[p]])
                  ELSE results
    /\ UNCHANGED <<item, pos, img>>

Unlock(p) ==
    /\ p \notin Python
    /\ Copied(p)
    /\ Post(p)
    /\ Leave(p)
    /\ UNCHANGED <<shm, mq, usurped, frames>>

(* The Python unlock looks at the value first and posts only when it is 0. *)
(* A reader whose message lost its last digit instead of a NUL never gets  *)
(* here: reshape raises (see Exit).                                        *)
UnlockCheck(p) ==
    /\ p \in Python
    /\ Copied(p)
    /\ p \in Readers => item[p].nul
    /\ IF sem = 0
       THEN /\ Goto(p, "release")
            /\ UNCHANGED <<item, pos, img, holders, results>>
       ELSE /\ holders' = holders \ {p}
            /\ Leave(p)
    /\ UNCHANGED <<sem, shm, mq, usurped, frames>>

UnlockRelease(p) ==
    /\ pc[p] = "release"
    /\ PythonPost(p)
    /\ Leave(p)
    /\ UNCHANGED <<shm, mq, frames>>
---------------------------------------------------------------------------
(* write_frame.  A Python writer that cannot lock within 10 ms drops its   *)
(* frame, which changes nothing here.                                      *)

(* A writer that goes on after a lock that timed out, as the Python reader *)
(* does.                                                                   *)
WriteLockUnchecked(w, n) ==
    /\ w \in Writers
    /\ pc[w] = "idle"
    /\ Len(frames) < MaxFrames
    /\ \/ Acquire(w)
       \/ w \in Python /\ sem = 0 /\ UNCHANGED <<sem, holders>>
    /\ item' = [item EXCEPT ![w] = [frame |-> Len(frames) + 1, size |-> n,
                                    nul |-> w \notin Python]]
    /\ pos' = [pos EXCEPT ![w] = 0]
    /\ Goto(w, "copy")
    /\ UNCHANGED <<shm, mq, img, usurped, frames, results>>

WriteLock(w, n) ==
    /\ w \in Writers
    /\ pc[w] = "idle"
    /\ Len(frames) < MaxFrames
    /\ Acquire(w)
    /\ item' = [item EXCEPT ![w] = [frame |-> Len(frames) + 1, size |-> n,
                                    nul |-> w \notin Python]]
    /\ pos' = [pos EXCEPT ![w] = 0]
    /\ Goto(w, "copy")
    /\ UNCHANGED <<shm, mq, img, usurped, frames, results>>

CopyIn(w) ==
    /\ w \in Writers
    /\ pc[w] = "copy"
    /\ ~Copied(w)
    /\ shm' = [shm EXCEPT ![pos[w] + 1] = item[w].frame]
    /\ pos' = [pos EXCEPT ![w] = @ + 1]
    /\ frames' = IF pos[w] + 1 = item[w].size THEN Append(frames, item[w].size) ELSE frames
    /\ UNCHANGED <<sem, mq, pc, item, img, holders, usurped, results>>

(* A queue without a limit. *)
HasRoomAlways == TRUE

HasRoom == Len(mq) < QueueMsgsCount

(* C++ sends the message with its NUL, Python without one. *)
Send(w) ==
    /\ pc[w] = "send"
    /\ HasRoom
    /\ mq' = Append(mq, item[w])
    /\ Goto(w, "idle")
    /\ UNCHANGED <<sem, shm, item, pos, img, holders, usurped, frames, results>>

(* BusyError after 10 ms: the message is lost, its frame stays in shm. *)
SendTimeout(w) ==
    /\ w \in Python
    /\ pc[w] = "send"
    /\ ~HasRoom
    /\ Goto(w, "idle")
    /\ UNCHANGED <<sem, shm, mq, item, pos, img, holders, usurped, frames, results>>
---------------------------------------------------------------------------
(* read_frame.  Receiving waits for a message; in Python for a second at a *)
(* time, between which nothing changes here.                               *)

Receive(r) ==
    /\ r \in Readers
    /\ pc[r] = "idle"
    /\ mq # <<>>
    /\ mq' = Tail(mq)
    /\ item' = [item EXCEPT ![r] = Head(mq)]
    /\ pos' = [pos EXCEPT ![r] = 0]
    /\ img' = [img EXCEPT ![r] = <<>>]
    /\ Goto(r, "lock")
    /\ UNCHANGED <<sem, shm, holders, usurped, frames, results>>

ReadLock(r) ==
    /\ pc[r] = "lock"
    /\ Acquire(r)
    /\ Goto(r, "copy")
    /\ UNCHANGED <<shm, mq, item, pos, img, usurped, frames, results>>

(* The Python reader does not look at what lock(timeout=0.010) returned. *)
ReadLockTimeout(r) ==
    /\ r \in Python
    /\ pc[r] = "lock"
    /\ sem = 0
    /\ Goto(r, "copy")
    /\ UNCHANGED <<sem, shm, mq, item, pos, img, holders, usurped, frames, results>>

CopyOut(r) ==
    /\ r \in Readers
    /\ pc[r] = "copy"
    /\ ~Copied(r)
    /\ img' = [img EXCEPT ![r] = Append(@, shm[pos[r] + 1])]
    /\ pos' = [pos EXCEPT ![r] = @ + 1]
    /\ UNCHANGED <<sem, shm, mq, pc, item, holders, usurped, frames, results>>
---------------------------------------------------------------------------
(* The end of a process. *)

(* A Python process ends at 'q', at an interrupt or with an exception;     *)
(* neither comes in the middle of a memory copy, a single call.  On its    *)
(* way out PosixSemaphore.__del__ unlocks whether it holds the lock or not.*)
Exit(p) ==
    /\ p \in Python
    /\ pc[p] = "copy" => pos[p] \in {0, item[p].size}
    /\ pc[p] \notin {"dying", "dying_release"}
    /\ Goto(p, "dying")
    /\ UNCHANGED <<sem, shm, mq, item, pos, img, holders, usurped, frames, results>>

(* server.py catches an interrupt of write_frame like any other exception  *)
(* and writes the raw frame instead: a process that holds the semaphore    *)
(* goes on holding it, and its locks time out until somebody posts.        *)
Interrupt(w) ==
    /\ w \in Python \cap Writers
    /\ pc[w] \in {"copy", "release", "send"}
    /\ pc[w] = "copy" => pos[w] \in {0, item[w].size}
    /\ Goto(w, "idle")
    /\ UNCHANGED <<sem, shm, mq, item, pos, img, holders, usurped, frames, results>>

(* The next process of that name starts idle; the semaphore exists and     *)
(* keeps its value.                                                        *)
DyingCheck(p) ==
    /\ pc[p] = "dying"
    /\ IF sem = 0
       THEN Goto(p, "dying_release") /\ UNCHANGED holders
       ELSE Goto(p, "idle") /\ holders' = holders \ {p}
    /\ UNCHANGED <<sem, shm, mq, item, pos, img, usurped, frames, results>>

DyingRelease(p) ==
    /\ pc[p] = "dying_release"
    /\ PythonPost(p)
    /\ Goto(p, "idle")
    /\ UNCHANGED <<shm, mq, item, pos, img, frames, results>>

(* SIGKILL, or a crash of the C++ program: nothing is cleaned up, and what *)
(* it held stays taken.                                                    *)
Kill(p) ==
    /\ p \in Killable
    /\ Goto(p, "idle")
    /\ holders' = holders \ {p}
    /\ UNCHANGED <<sem, shm, mq, item, pos, img, usurped, frames, results>>
---------------------------------------------------------------------------
(* The process that comes first creates the semaphore: with the value 1 in *)
(* C++, with posix_ipc's default 0 in Python.                              *)
InitialValue(p) == IF p \in Python THEN 0 ELSE 1

Init ==
    /\ sem \in {InitialValue(p) : p \in Procs}
    /\ shm = EmptySegment
    /\ mq = <<>>
    /\ pc = [p \in Procs |-> "idle"]
    /\ item = [p \in Procs |-> NoItem]
    /\ pos = [p \in Procs |-> 0]
    /\ img = [p \in Procs |-> <<>>]
    /\ holders = {}
    /\ usurped = FALSE
    /\ frames = <<>>
    /\ results = <<>>

(* The steps a process takes on its own once a call has begun. *)
Step(p) ==
    \/ Unlock(p) \/ UnlockCheck(p) \/ UnlockRelease(p)
    \/ CopyIn(p) \/ Send(p) \/ SendTimeout(p)
    \/ Receive(p) \/ ReadLock(p) \/ ReadLockTimeout(p) \/ CopyOut(p)
    \/ DyingCheck(p) \/ DyingRelease(p)

(* Each process calls write_frame, or read_frame, in a loop until it ends. *)
Next ==
    \E p \in Procs :
        \/ \E n \in Sizes : WriteLock(p, n)
        \/ Step(p)
        \/ Exit(p) \/ Interrupt(p)
        \/ Kill(p)

Spec == Init /\ [][Next]_vars

(* Every process goes on with the call it is in; when a writer calls       *)
(* write_frame is the camera's business.                                   *)
FairSpec == Spec /\ \A p \in Procs : WF_vars(Step(p))
---------------------------------------------------------------------------
(* A writer that has not finished holds the number of the next frame. *)
Items == [frame : 0..(Len(frames) + 1), size : 0..Room, nul : BOOLEAN]

(* Values and queue stay within what POSIX allows them: the semaphore is   *)
(* never negative, the queue never longer than mq_maxmsg.                  *)
TypeOK ==
    /\ sem \in Nat
    /\ shm \in [1..Room -> 0..(Len(frames) + 1)]
    /\ mq \in Seq(Items) /\ Len(mq) <= QueueMsgsCount
    /\ pc \in [Procs -> {"idle", "lock", "copy", "release", "send",
                         "dying", "dying_release"}]
    /\ item \in [Procs -> Items]
    /\ pos \in [Procs -> 0..Room]
    /\ img \in [Procs -> Seq(0..(Len(frames) + 1))]
    /\ holders \subseteq Procs
    /\ usurped \in BOOLEAN
    /\ frames \in Seq(Sizes)
    /\ results \in Seq([frame : 0..(Len(frames) + 1), img : Seq(0..(Len(frames) + 1))])

(* Between lock and unlock, where a process copies. *)
Inside(p) == pc[p] \in {"copy", "release"}

(* Of two processes between lock and unlock one is a Python reader that    *)
(* went in after its lock had timed out: writers keep each other out, and  *)
(* C++ readers, through timeouts, interrupts and kills anywhere -- until a *)
(* Python process releases a semaphore it had not acquired, which its      *)
(* unlock after a timed-out lock and its __del__ may both do.              *)
MutualExclusion ==
    ~usurped =>
        \A p, q \in Procs :
            p # q /\ Inside(p) /\ Inside(q)
                => \E r \in {p, q} : r \in Readers \cap Python /\ r \notin holders

(* An image that was read under the semaphore is what the segment held at  *)
(* one moment, between two calls of write_frame and not before the frame   *)
(* its message announced: chunk by chunk the newest frame that reaches so  *)
(* far.  So nothing is torn or older than announced, although the message  *)
(* that says how to read it travels outside the semaphore, frames differ   *)
(* in size and processes may be killed anywhere.  It ends where a Python   *)
(* process releases a semaphore it had not acquired.                       *)
ImageIsSnapshot ==
    ~usurped =>
        \A i \in 1..Len(results) :
            LET k == results[i].frame
            IN /\ k \in 1..Len(frames)
               /\ Len(results[i].img) = frames[k]
               /\ \E n \in k..Len(frames) :
                     \A a \in 1..frames[k] : Shows(frames, n, a, results[i].img[a])

(* The abstract mailbox, in which writing and reading are single steps; an *)
(* image read after a timed-out lock is no part of its promise.            *)
Mailbox == INSTANCE FrameMailbox WITH
    written <- frames, taken <- results, broken <- usurped

MailboxSpec == Mailbox!Spec

(* With C++ processes nobody gets stuck: a writer that waits for room in   *)
(* the queue does not hold the semaphore the reader needs to make room, so *)
(* every frame is announced and read in the end.                           *)
EveryFrameRead ==
    \A k \in 1..MaxFrames :
        (Len(frames) >= k) ~> (\E i \in 1..Len(results) : results[i].frame = k)
===========================================================================
