----------------------------- MODULE IpcProofs -----------------------------
(* The shared-memory hand-over, for any number of C++ and Python processes *)
(* and frames of any sizes: first its semaphore, then what a reader finds  *)
(* in the segment.                                                         *)
EXTENDS Ipc, FiniteSetTheorems, SequenceTheorems, TLAPS

Results == [frame : 0..(Len(frames) + 1), img : Seq(0..(Len(frames) + 1))]

(* Where in a call copying may be: what TypeOK needs to be inductive.      *)
CallInv ==
    \A p \in Procs :
        /\ pc[p] = "lock" => p \in Readers /\ pos[p] = 0 /\ img[p] = <<>>
        /\ pc[p] = "copy" => pos[p] <= item[p].size
        /\ pc[p] = "copy" /\ p \in Writers => item[p].size \in Sizes

TypeInv == TypeOK /\ CallInv

(* Numbers of frames stay valid as frames are added.                       *)
LEMMA TypesGrow ==
    ASSUME TypeOK, NEW size \in Sizes, frames' = Append(frames, size)
    PROVE  /\ Len(frames') = Len(frames) + 1
           /\ frames' \in Seq(Sizes)
           /\ shm \in [1..Room -> 0..(Len(frames') + 1)]
           /\ mq \in Seq(Items')
           /\ item \in [Procs -> Items']
           /\ img \in [Procs -> Seq(0..(Len(frames') + 1))]
           /\ results \in Seq(Results')
<1> DEFINE K == 0..(Len(frames) + 1)
           KK == 0..(Len(frames') + 1)
<1>1. Len(frames) \in Nat /\ Len(frames') = Len(frames) + 1 /\ frames' \in Seq(Sizes)
  BY DEF TypeOK
<1>2. K \subseteq KK
  BY <1>1
<1>3. Items \subseteq Items'
  BY <1>2, Zenon DEF Items
<1>4. Seq(K) \subseteq Seq(KK)
  BY <1>2, SeqMonotonic
<1>5. Results \subseteq Results'
  BY <1>2, <1>4, Zenon DEF Results
<1>6. mq \in Seq(Items) /\ results \in Seq(Results)
  BY DEF TypeOK, Results
<1>7. mq \in Seq(Items')
  BY <1>3, <1>6, SeqMonotonic
<1>8. results \in Seq(Results')
  BY <1>5, <1>6, SeqMonotonic
<1> QED
  BY <1>1, <1>2, <1>3, <1>4, <1>7, <1>8 DEF TypeOK

(* Lengths, and the sets that depend on them, while no frame is added.     *)
LEMMA SameFrames ==
    ASSUME frames' = frames
    PROVE  Items' = Items /\ Results' = Results
BY DEF Items, Results

(* The copying of a call never passes the size it was started with.        *)
LEMMA TypeInvariant == Spec => []TypeInv
<1> USE IpcAssumption DEF Procs
<1>1. Init => TypeInv
  <2> SUFFICES ASSUME Init
               PROVE  TypeInv
    OBVIOUS
  <2>1. /\ sem \in Nat /\ shm \in [1..Room -> 0..1] /\ Len(frames) = 0
        /\ frames \in Seq(Sizes) /\ mq \in Seq(Items) /\ Len(mq) = 0
    BY DEF Init, InitialValue, EmptySegment
  <2>2. NoItem \in Items
    BY <2>1 DEF NoItem, Items
  <2>3. img \in [Procs -> Seq(0..(Len(frames) + 1))]
    BY DEF Init
  <2>4. results \in Seq(Results)
    BY DEF Init
  <2>5. TypeOK
    <3>1. /\ pc \in [Procs -> {"idle", "lock", "copy", "release", "send",
                               "dying", "dying_release"}]
          /\ item \in [Procs -> Items] /\ pos \in [Procs -> 0..Room]
      BY <2>2 DEF Init
    <3>2. shm \in [1..Room -> 0..(Len(frames) + 1)]
      BY <2>1
    <3>3. holders \subseteq Procs /\ usurped \in BOOLEAN
      BY Zenon DEF Init
    <3>4. Len(mq) <= QueueMsgsCount
      BY <2>1
    <3> QED
      BY <2>1, <2>3, <2>4, <3>1, <3>2, <3>3, <3>4, Zenon DEF TypeOK, Results
  <2> QED
    BY <2>5 DEF Init, TypeInv, CallInv
<1>2. TypeInv /\ [Next]_vars => TypeInv'
  <2> SUFFICES ASSUME TypeInv, [Next]_vars
               PROVE  TypeInv'
    OBVIOUS
  <2> USE DEF TypeInv
  <2>0. /\ Len(frames) \in Nat /\ frames \in Seq(Sizes)
        /\ mq \in Seq(Items) /\ results \in Seq(Results)
        /\ item \in [Procs -> Items] /\ pos \in [Procs -> 0..Room]
        /\ img \in [Procs -> Seq(0..(Len(frames) + 1))] /\ sem \in Nat
    BY DEF TypeOK, Results
  <2>1. CASE UNCHANGED vars
    BY <2>1, SameFrames DEF vars, TypeOK, CallInv
  <2>2. CASE Next
    <3>1. PICK p \in Procs :
            (\E n \in Sizes : WriteLock(p, n)) \/ Step(p) \/ Exit(p) \/ Interrupt(p) \/ Kill(p)
      BY <2>2 DEF Next
    <3> DEFINE result == [frame |-> item[p].frame, img |-> img[p]]
    <3>2. result \in Results
      BY <2>0 DEF Results, Items
    <3>3. ASSUME Leave(p), frames' = frames
          PROVE  /\ results' \in Seq(Results) /\ UNCHANGED <<item, pos, img>>
                 /\ pc' = [pc EXCEPT ![p] = "send"] \/ pc' = [pc EXCEPT ![p] = "idle"]
      <4>1. Append(results, result) \in Seq(Results)
        BY <2>0, <3>2, AppendProperties
      <4> QED
        BY <3>3, <4>1, <2>0 DEF Leave, Goto
    <3>4. ASSUME NEW n \in Sizes, WriteLock(p, n)
          PROVE  TypeInv'
      <4>1. frames' = frames /\ Items' = Items /\ Results' = Results
        BY <3>4, SameFrames DEF WriteLock
      <4>2. [frame |-> Len(frames) + 1, size |-> n, nul |-> p \notin Python] \in Items
        BY <2>0 DEF Items
      <4>3. item' \in [Procs -> Items]
        BY <2>0, <4>2, <3>4 DEF WriteLock
      <4> QED
        BY <3>4, <4>1, <4>3 DEF WriteLock, Acquire, Goto, TypeOK, CallInv
    <3>5. CASE Exit(p) \/ Interrupt(p) \/ Kill(p)
      <4>1. frames' = frames /\ Items' = Items /\ Results' = Results
        BY <3>5, SameFrames DEF Exit, Interrupt, Kill
      <4> QED
        BY <3>5, <4>1 DEF Exit, Interrupt, Kill, Goto, TypeOK, CallInv
    <3>6. CASE Step(p)
      <4>1. CASE Unlock(p)
        <5>1. frames' = frames /\ Items' = Items /\ Results' = Results
          BY <4>1, SameFrames DEF Unlock
        <5>2. Leave(p)
          BY <4>1 DEF Unlock
        <5> QED
          <6>1. sem' \in Nat /\ usurped' \in BOOLEAN /\ holders' \subseteq Procs
            BY <4>1 DEF Unlock, Post, TypeOK
          <6>2. CallInv'
            BY <5>2, <5>1, <3>3 DEF CallInv, TypeOK
          <6> QED
            BY <4>1, <5>1, <5>2, <6>1, <6>2, <3>3 DEF Unlock, TypeOK, Results
      <4>2. CASE UnlockCheck(p)
        <5>1. frames' = frames /\ Items' = Items /\ Results' = Results
          BY <4>2, SameFrames DEF UnlockCheck
        <5>2. CASE sem = 0
          BY <4>2, <5>1, <5>2 DEF UnlockCheck, Goto, TypeOK, CallInv
        <5>3. CASE sem # 0
          <6>1. Leave(p)
            BY <4>2, <5>3 DEF UnlockCheck
          <6> QED
            BY <4>2, <5>1, <5>3, <6>1, <3>3 DEF UnlockCheck, TypeOK, CallInv, Results
        <5> QED
          BY <5>2, <5>3
      <4>3. CASE UnlockRelease(p)
        <5>1. frames' = frames /\ Items' = Items /\ Results' = Results
          BY <4>3, SameFrames DEF UnlockRelease
        <5>2. Leave(p)
          BY <4>3 DEF UnlockRelease
        <5> QED
          <6>1. sem' \in Nat /\ usurped' \in BOOLEAN /\ holders' \subseteq Procs
            BY <4>3 DEF UnlockRelease, PythonPost, Post, TypeOK
          <6>2. CallInv'
            BY <5>2, <5>1, <3>3 DEF CallInv, TypeOK
          <6> QED
            BY <4>3, <5>1, <5>2, <6>1, <6>2, <3>3 DEF UnlockRelease, TypeOK, Results
      <4>4. CASE CopyIn(p)
        <5>1. /\ item[p].size \in Sizes /\ item[p].frame \in 0..(Len(frames) + 1)
              /\ pos[p] + 1 \in 1..Room /\ pos[p] + 1 <= item[p].size
          <6>1. /\ p \in Writers /\ pc[p] = "copy" /\ pos[p] # item[p].size
                /\ pos[p] \in 0..Room /\ item[p] \in Items
            BY <4>4, <2>0 DEF CopyIn, Copied
          <6>2. pos[p] <= item[p].size /\ item[p].size \in Sizes
            BY <6>1 DEF CallInv
          <6>3. item[p].size \in 0..Room /\ item[p].frame \in 0..(Len(frames) + 1)
            BY <6>1 DEF Items
          <6>4. pos[p] + 1 \in 1..Room /\ pos[p] + 1 <= item[p].size
            BY <6>1, <6>2, <6>3, IpcAssumption
          <6> QED
            BY <6>2, <6>3, <6>4
        <5>2. pos' \in [Procs -> 0..Room] /\ pos' = [pos EXCEPT ![p] = @ + 1]
          BY <4>4, <5>1, <2>0 DEF CopyIn
        <5>3. CallInv'
          BY <4>4, <5>1, <5>2, <2>0 DEF CopyIn, CallInv, TypeOK
        <5>4. shm' \in [1..Room -> 0..(Len(frames) + 1)]
          BY <4>4, <5>1 DEF CopyIn, TypeOK
        <5>5. CASE frames' = frames
          BY <4>4, <5>2, <5>3, <5>4, <5>5, SameFrames DEF CopyIn, TypeOK, Results
        <5>6. CASE frames' = Append(frames, item[p].size)
          <6>1. /\ Len(frames') = Len(frames) + 1
                /\ frames' \in Seq(Sizes)
                /\ mq \in Seq(Items')
                /\ item \in [Procs -> Items']
                /\ img \in [Procs -> Seq(0..(Len(frames') + 1))]
                /\ results \in Seq(Results')
            BY <5>1, <5>6, TypesGrow
          <6>2. shm' \in [1..Room -> 0..(Len(frames') + 1)]
            BY <5>4, <6>1, <2>0
          <6> QED
            BY <4>4, <5>2, <5>3, <6>1, <6>2 DEF CopyIn, TypeOK, Results
        <5> QED
          BY <4>4, <5>5, <5>6 DEF CopyIn
      <4>5. CASE Send(p)
        <5>1. frames' = frames /\ Items' = Items /\ Results' = Results
          BY <4>5, SameFrames DEF Send
        <5>2. mq' \in Seq(Items) /\ Len(mq') = Len(mq) + 1
          BY <4>5, <2>0, AppendProperties DEF Send
        <5> QED
          <6>1. CallInv'
            BY <4>5 DEF Send, Goto, TypeOK, CallInv
          <6>2. Len(mq') <= QueueMsgsCount
            BY <4>5, <5>2, IpcAssumption DEF Send, HasRoom, TypeOK
          <6>3. TypeOK'
            BY <4>5, <5>1, <5>2, <6>2 DEF Send, Goto, TypeOK
          <6> QED
            BY <6>1, <6>3
      <4>6. CASE SendTimeout(p)
        BY <4>6, SameFrames DEF SendTimeout, Goto, TypeOK, CallInv
      <4>7. CASE Receive(p)
        <5>1. frames' = frames /\ Items' = Items /\ Results' = Results
          BY <4>7, SameFrames DEF Receive
        <5>2. /\ mq' \in Seq(Items) /\ Len(mq') = Len(mq) - 1
              /\ Head(mq) \in Items
          BY <4>7, <2>0, HeadTailProperties DEF Receive
        <5>3. item' \in [Procs -> Items] /\ <<>> \in Seq(0..(Len(frames) + 1))
          BY <4>7, <5>2, <2>0 DEF Receive
        <5>4. CallInv'
          BY <4>7, <2>0 DEF Receive, Goto, TypeOK, CallInv
        <5>5. TypeOK'
          BY <4>7, <5>1, <5>2, <5>3 DEF Receive, Goto, TypeOK, Results
        <5> QED
          BY <5>4, <5>5
      <4>8. CASE ReadLock(p)
        <5>1. p \in Readers /\ pos[p] = 0 /\ 0 <= item[p].size
          BY <4>8, <2>0 DEF ReadLock, CallInv, Items
        <5>2. CallInv'
          BY <4>8, <5>1, <2>0 DEF ReadLock, Acquire, Goto, TypeOK, CallInv
        <5>3. TypeOK'
          BY <4>8, SameFrames DEF ReadLock, Acquire, Goto, TypeOK, Results
        <5> QED
          BY <5>2, <5>3
      <4>9. CASE ReadLockTimeout(p)
        <5>1. p \in Readers /\ pos[p] = 0 /\ 0 <= item[p].size
          BY <4>9, <2>0 DEF ReadLockTimeout, CallInv, Items
        <5>2. CallInv'
          BY <4>9, <5>1, <2>0 DEF ReadLockTimeout, Goto, TypeOK, CallInv
        <5>3. TypeOK'
          BY <4>9, SameFrames DEF ReadLockTimeout, Goto, TypeOK, Results
        <5> QED
          BY <5>2, <5>3
      <4>10. CASE CopyOut(p)
        <5>1. frames' = frames /\ Items' = Items /\ Results' = Results
          BY <4>10, SameFrames DEF CopyOut
        <5>2. /\ pos[p] + 1 \in 1..Room /\ pos[p] + 1 <= item[p].size
          BY <4>10, <2>0 DEF CopyOut, Copied, CallInv, Items
        <5>3. Append(img[p], shm[pos[p] + 1]) \in Seq(0..(Len(frames) + 1))
          BY <5>2, <2>0, AppendProperties DEF TypeOK
        <5>4. img' \in [Procs -> Seq(0..(Len(frames) + 1))]
          BY <4>10, <5>3, <2>0 DEF CopyOut
        <5>5. pos' \in [Procs -> 0..Room]
          BY <4>10, <5>2, <2>0 DEF CopyOut
        <5> QED
          BY <4>10, <5>1, <5>2, <5>4, <5>5 DEF CopyOut, TypeOK, CallInv
      <4>11. CASE DyingCheck(p)
        BY <4>11, SameFrames DEF DyingCheck, Goto, TypeOK, CallInv
      <4>12. CASE DyingRelease(p)
        BY <4>12, SameFrames DEF DyingRelease, PythonPost, Post, Goto, TypeOK, CallInv
      <4> QED
        BY <3>6, <4>1, <4>2, <4>3, <4>4, <4>5, <4>6, <4>7, <4>8, <4>9, <4>10, <4>11, <4>12
           DEF Step
    <3> QED
      BY <3>1, <3>4, <3>5, <3>6
  <2> QED
    BY <2>1, <2>2
<1> QED
  BY <1>1, <1>2, PTL DEF Spec

(* Values and queue stay within their limits (PosixSemaphore, PosixMQueue).*)
THEOREM IpcTypeCorrect == Spec => []TypeOK
BY TypeInvariant, PTL DEF TypeInv
---------------------------------------------------------------------------
(* Who went in with the semaphore still has it: everybody between lock and *)
(* unlock but a Python reader.                                             *)
InsideHolds ==
    \A p \in Procs : Inside(p) /\ ~(p \in Readers /\ p \in Python) => p \in holders

LEMMA InsideHoldsStep ==
    ASSUME TypeInv, InsideHolds, Next
    PROVE  InsideHolds'
<1>1. pc \in [Procs -> {"idle", "lock", "copy", "release", "send",
                        "dying", "dying_release"}]
  BY DEF TypeInv, TypeOK
<1>2. PICK p \in Procs :
        (\E n \in Sizes : WriteLock(p, n)) \/ Step(p) \/ Exit(p) \/ Interrupt(p) \/ Kill(p)
  BY DEF Next
<1>3. ASSUME NEW q \in Procs, q # p
      PROVE  pc'[q] = pc[q] /\ (q \in holders => q \in holders')
  <2>1. CASE (\E n \in Sizes : WriteLock(p, n)) \/ Exit(p) \/ Interrupt(p) \/ Kill(p)
    BY <1>1, <1>3, <2>1 DEF WriteLock, Acquire, Exit, Interrupt, Kill, Goto
  <2>2. CASE Unlock(p) \/ UnlockCheck(p) \/ UnlockRelease(p)
    BY <1>1, <1>3, <2>2 DEF Unlock, UnlockCheck, UnlockRelease, PythonPost, Post, Leave, Goto
  <2>3. CASE CopyIn(p) \/ Send(p) \/ SendTimeout(p) \/ Receive(p) \/ ReadLock(p)
    BY <1>1, <1>3, <2>3 DEF CopyIn, Send, SendTimeout, Receive, ReadLock, Acquire, Goto
  <2>4. CASE ReadLockTimeout(p) \/ CopyOut(p) \/ DyingCheck(p) \/ DyingRelease(p)
    BY <1>1, <1>3, <2>4 DEF ReadLockTimeout, CopyOut, DyingCheck, DyingRelease,
       PythonPost, Post, Goto
  <2> QED
    BY <1>2, <2>1, <2>2, <2>3, <2>4 DEF Step
<1>4. ASSUME Inside(p)', ~(p \in Readers /\ p \in Python)
      PROVE  p \in holders'
  <2>1. CASE \E n \in Sizes : WriteLock(p, n)
    BY <2>1 DEF WriteLock, Acquire
  <2>2. CASE Exit(p) \/ Interrupt(p) \/ Kill(p) \/ DyingCheck(p) \/ DyingRelease(p)
    BY <1>1, <1>4, <2>2 DEF Exit, Interrupt, Kill, DyingCheck, DyingRelease, Goto, Inside
  <2>3. CASE Unlock(p) \/ UnlockRelease(p) \/ Send(p) \/ SendTimeout(p) \/ Receive(p)
    BY <1>1, <1>4, <2>3 DEF Unlock, UnlockRelease, Leave, Send, SendTimeout, Receive, Goto,
       Inside
  <2>4. CASE UnlockCheck(p)
    <3>1. pc[p] = "copy" /\ (holders' = holders \/ pc'[p] \in {"send", "idle"})
      BY <1>1, <2>4 DEF UnlockCheck, Copied, Leave, Goto
    <3> QED
      BY <1>4, <3>1 DEF Inside, InsideHolds
  <2>5. CASE CopyIn(p) \/ CopyOut(p)
    BY <1>4, <2>5 DEF CopyIn, CopyOut, Inside, InsideHolds
  <2>6. CASE ReadLock(p)
    BY <2>6 DEF ReadLock, Acquire
  <2>7. CASE ReadLockTimeout(p)
    BY <1>4, <2>7 DEF ReadLockTimeout, TypeInv, CallInv
  <2> QED
    BY <1>2, <2>1, <2>2, <2>3, <2>4, <2>5, <2>6, <2>7 DEF Step
<1> QED
  BY <1>3, <1>4 DEF InsideHolds, Inside

(* Inductive: while nobody has posted out of turn, the value and the       *)
(* processes inside share one permit.                                      *)
OnePermit ==
    /\ sem \in Nat
    /\ IsFiniteSet(holders)
    /\ ~usurped => sem + Cardinality(holders) <= 1

PermitInv == OnePermit /\ InsideHolds

(* Entering moves the permit from the value to the process.                *)
LEMMA AcquireKeepsPermit ==
    ASSUME OnePermit, NEW p, Acquire(p), usurped' = usurped
    PROVE  OnePermit'
<1>1. sem \in Nat \ {0} /\ sem' = sem - 1 /\ holders' = holders \cup {p}
  BY DEF Acquire, OnePermit
<1>2. /\ IsFiniteSet(holders')
      /\ Cardinality(holders') \in {Cardinality(holders), Cardinality(holders) + 1}
  BY <1>1, FS_AddElement DEF OnePermit
<1>3. Cardinality(holders) \in Nat
  BY FS_CardinalityType DEF OnePermit
<1> QED
  BY <1>1, <1>2, <1>3 DEF OnePermit

(* A post either moves it back or is out of turn.                          *)
LEMMA PostKeepsPermit ==
    ASSUME OnePermit, NEW p, Post(p),
           \/ usurped' = usurped /\ (~usurped => p \in holders)
           \/ PythonPost(p)
    PROVE  OnePermit'
<1>1. /\ sem \in Nat /\ sem' = sem + 1 /\ holders' = holders \ {p}
  BY DEF Post, OnePermit
<1>2. /\ IsFiniteSet(holders')
      /\ p \in holders => Cardinality(holders') = Cardinality(holders) - 1
  BY <1>1, FS_RemoveElement DEF OnePermit
<1>3. Cardinality(holders) \in Nat
  BY FS_CardinalityType DEF OnePermit
<1>4. ~usurped' => ~usurped /\ (p \in holders \/ (sem = 0 /\ holders = {}))
  <2>1. CASE usurped' = usurped /\ (~usurped => p \in holders)
    BY <2>1, Zenon
  <2>2. CASE PythonPost(p)
    BY <2>2, Zenon DEF PythonPost, Unused
  <2> QED
    BY <2>1, <2>2
<1>5. ~usurped' => sem' + Cardinality(holders') <= 1
  <2>1. ~usurped' => sem + Cardinality(holders) <= 1
    BY <1>4 DEF OnePermit
  <2>2. CASE p \in holders
    BY <1>1, <1>2, <1>3, <2>1, <2>2
  <2>3. CASE sem = 0 /\ holders = {}
    <3>1. holders' = {} /\ sem' = 1
      BY <1>1, <2>3
    <3> QED
      BY <3>1, FS_EmptySet
  <2> QED
    BY <1>4, <2>2, <2>3
<1> QED
  BY <1>1, <1>2, <1>5 DEF OnePermit

(* A process that goes without posting takes the permit with it, if it had *)
(* it.                                                                     *)
LEMMA LeavingKeepsPermit ==
    ASSUME OnePermit, NEW p, sem' = sem, usurped' = usurped,
           holders' = holders \/ holders' = holders \ {p}
    PROVE  OnePermit'
<1>1. CASE holders' = holders
  BY <1>1 DEF OnePermit
<1>2. CASE holders' = holders \ {p}
  <2>1. /\ IsFiniteSet(holders')
        /\ Cardinality(holders') <= Cardinality(holders)
        /\ Cardinality(holders) \in Nat /\ Cardinality(holders') \in Nat
    BY <1>2, FS_Subset, FS_CardinalityType DEF OnePermit
  <2> QED
    BY <2>1 DEF OnePermit
<1> QED
  BY <1>1, <1>2

(* Every step moves the permit, loses it, or is out of turn.               *)
LEMMA PermitStep ==
    ASSUME PermitInv, Next
    PROVE  OnePermit'
<1>1. OnePermit
  BY DEF PermitInv
<1>2. PICK p \in Procs :
        (\E n \in Sizes : WriteLock(p, n)) \/ Step(p) \/ Exit(p) \/ Interrupt(p) \/ Kill(p)
  BY DEF Next
<1>3. CASE (\E n \in Sizes : WriteLock(p, n)) \/ ReadLock(p)
  BY <1>1, <1>3, AcquireKeepsPermit DEF WriteLock, ReadLock
<1>4. CASE Unlock(p)
  <2>1. p \in holders
    BY <1>4 DEF Unlock, Copied, Inside, PermitInv, InsideHolds
  <2> QED
    BY <1>1, <1>4, <2>1, PostKeepsPermit DEF Unlock
<1>5. CASE UnlockRelease(p) \/ DyingRelease(p)
  BY <1>1, <1>5, PostKeepsPermit DEF UnlockRelease, DyingRelease, PythonPost
<1>6. CASE Exit(p) \/ Interrupt(p) \/ Kill(p) \/ DyingCheck(p)
  BY <1>1, <1>6, LeavingKeepsPermit DEF Exit, Interrupt, Kill, DyingCheck
<1>7. CASE UnlockCheck(p)
  BY <1>1, <1>7, LeavingKeepsPermit DEF UnlockCheck
<1>8. CASE CopyIn(p) \/ Send(p) \/ SendTimeout(p)
  BY <1>1, <1>8, LeavingKeepsPermit DEF CopyIn, Send, SendTimeout
<1>9. CASE Receive(p) \/ ReadLockTimeout(p) \/ CopyOut(p)
  BY <1>1, <1>9, LeavingKeepsPermit DEF Receive, ReadLockTimeout, CopyOut
<1> QED
  BY <1>2, <1>3, <1>4, <1>5, <1>6, <1>7, <1>8, <1>9 DEF Step

LEMMA PermitInvariant == Spec => []PermitInv
<1>1. Init => PermitInv
  <2> SUFFICES ASSUME Init
               PROVE  PermitInv
    OBVIOUS
  <2>1. sem \in {0, 1} /\ holders = {} /\ \A p \in Procs : pc[p] = "idle"
    BY DEF Init, InitialValue
  <2>2. IsFiniteSet({}) /\ Cardinality({}) = 0
    BY FS_EmptySet
  <2> QED
    BY <2>1, <2>2 DEF PermitInv, OnePermit, InsideHolds, Inside
<1>2. TypeInv /\ PermitInv /\ [Next]_vars => PermitInv'
  <2>1. TypeInv /\ PermitInv /\ Next => PermitInv'
    BY PermitStep, InsideHoldsStep DEF PermitInv
  <2>2. PermitInv /\ UNCHANGED vars => PermitInv'
    BY DEF vars, PermitInv, OnePermit, InsideHolds, Inside
  <2> QED
    BY <2>1, <2>2
<1> QED
  BY <1>1, <1>2, TypeInvariant, PTL DEF Spec

(* What the numbers mean for processes.                                    *)
LEMMA OneInside ==
    ASSUME PermitInv, ~usurped
    PROVE  /\ sem > 0 => holders = {}
           /\ \A p, q \in holders : p = q
<1>1. /\ IsFiniteSet(holders) /\ Cardinality(holders) \in Nat
      /\ sem \in Nat /\ sem + Cardinality(holders) <= 1
  BY FS_CardinalityType DEF PermitInv, OnePermit
<1>2. sem > 0 => holders = {}
  BY <1>1, FS_EmptySet
<1>3. ASSUME NEW p \in holders, NEW q \in holders, p # q
      PROVE  FALSE
  <2>1. /\ IsFiniteSet(holders \ {p})
        /\ Cardinality(holders \ {p}) = Cardinality(holders) - 1
    BY <1>1, FS_RemoveElement
  <2>2. Cardinality(holders \ {p}) = 0
    BY <1>1, <2>1, FS_CardinalityType
  <2>3. holders \ {p} = {}
    BY <2>1, <2>2, FS_EmptySet
  <2> QED
    BY <1>3, <2>3
<1> QED
  BY <1>2, <1>3

(* Of two processes between lock and unlock one is a Python reader that    *)
(* went in after its lock had timed out, however many processes there are, *)
(* in either language, and wherever they are killed or interrupted -- as   *)
(* long as no Python process has released a semaphore it had not acquired  *)
(* (PosixSemaphore in both languages).                                     *)
THEOREM LockExcludes == Spec => []MutualExclusion
<1>1. PermitInv => MutualExclusion
  <2> SUFFICES ASSUME PermitInv, ~usurped, NEW p \in Procs, NEW q \in Procs, p # q,
                      Inside(p), Inside(q)
               PROVE  \E r \in {p, q} : r \in Readers \cap Python /\ r \notin holders
    BY DEF MutualExclusion
  <2>1. p \notin holders \/ q \notin holders
    BY OneInside
  <2> QED
    BY <2>1 DEF PermitInv, InsideHolds
<1> QED
  BY <1>1, PermitInvariant, PTL
---------------------------------------------------------------------------
(* Frames written over one another.                                        *)

(* One more frame: what the earlier ones showed is still what they showed; *)
(* now the new one shows as far as it reaches, and the rest is as before.  *)
LEMMA ShowsAppend ==
    ASSUME NEW sizes \in Seq(Nat), NEW size \in Nat,
           NEW n \in 0..Len(sizes), NEW a \in Nat \ {0}, NEW k,
           Shows(sizes, n, a, k)
    PROVE  /\ Shows(Append(sizes, size), n, a, k)
           /\ n = Len(sizes) /\ size < a => Shows(Append(sizes, size), Len(sizes) + 1, a, k)
<1>1. /\ Len(sizes) \in Nat /\ Append(sizes, size)[Len(sizes) + 1] = size
      /\ \A i \in 1..Len(sizes) : Append(sizes, size)[i] = sizes[i]
  OBVIOUS
<1>2. /\ k \in 0..n /\ (k > 0 => sizes[k] >= a)
      /\ \A j \in (k + 1)..n : sizes[j] < a
  BY DEF Shows
<1>3. k > 0 => k \in 1..Len(sizes)
  BY <1>1, <1>2
<1>4. \A j \in (k + 1)..n : j \in 1..Len(sizes)
  BY <1>1, <1>2
<1>5. Shows(Append(sizes, size), n, a, k)
  BY <1>1, <1>2, <1>3, <1>4 DEF Shows
<1>6. ASSUME n = Len(sizes), size < a
      PROVE  Shows(Append(sizes, size), Len(sizes) + 1, a, k)
  <2>1. \A j \in (k + 1)..(Len(sizes) + 1) :
          j \in (k + 1)..n \/ j = Len(sizes) + 1
    BY <1>1, <1>2, <1>6
  <2> QED
    BY <1>1, <1>2, <1>3, <1>4, <1>6, <2>1 DEF Shows
<1> QED
  BY <1>5, <1>6

LEMMA ShowsNew ==
    ASSUME NEW sizes \in Seq(Nat), NEW size \in Nat, NEW a \in Nat, a <= size
    PROVE  Shows(Append(sizes, size), Len(sizes) + 1, a, Len(sizes) + 1)
BY DEF Shows
---------------------------------------------------------------------------
(* A frame a message may name.                                             *)
Announced(message) ==
    message.frame \in 1..Len(frames) /\ message.size = frames[message.frame]

(* A writer in the middle of its frame.                                    *)
Half(p) == p \in Writers /\ pc[p] = "copy" /\ pos[p] < item[p].size

(* The segment shows the frames that have been written.                    *)
Clean == \A a \in 1..Room : Shows(frames, Len(frames), a, shm[a])

(* The segment shows the next frame as far as its writer has got.          *)
HalfClean(w) ==
    /\ item[w].frame = Len(frames) + 1
    /\ \A a \in 1..Room : IF a <= pos[w] THEN shm[a] = Len(frames) + 1
                          ELSE Shows(frames, Len(frames), a, shm[a])

WritersInside == \A w \in Writers : pc[w] = "copy" => w \in holders

SegmentInv ==
    /\ sem > 0 => Clean
    /\ \A p \in holders : IF Half(p) THEN HalfClean(p) ELSE Clean

MessageInv ==
    /\ \A i \in 1..Len(mq) : Announced(mq[i])
    /\ \A p \in Procs :
          pc[p] \in {"lock", "copy", "release", "send"} /\ ~Half(p) => Announced(item[p])

ReadingInv ==
    \A r \in Readers :
        /\ pc[r] \in {"copy", "release"} => Len(img[r]) = pos[r]
        /\ pc[r] = "release" => pos[r] = item[r].size
        /\ r \in holders /\ pc[r] \in {"copy", "release"} =>
              \A a \in 1..pos[r] : img[r][a] = shm[a]

Shared == WritersInside /\ SegmentInv /\ MessageInv /\ ReadingInv /\ ImageIsSnapshot

(* Inductive: while nobody has posted out of turn, the segment is dirty    *)
(* only below a writer that holds the semaphore, or when the semaphore     *)
(* will never be had again.                                                *)
ShareInv == ~usurped => Shared

(* A result whose image is a snapshot.                                     *)
Snapshot(result) ==
    /\ result.frame \in 1..Len(frames)
    /\ Len(result.img) = frames[result.frame]
    /\ \E n \in result.frame..Len(frames) :
          \A a \in 1..frames[result.frame] : Shows(frames, n, a, result.img[a])

LEMMA ResultsAreSnapshots ==
    ASSUME ~usurped
    PROVE  ImageIsSnapshot <=> \A i \in 1..Len(results) : Snapshot(results[i])
BY DEF ImageIsSnapshot, Snapshot

(* It stays one as frames are added.                                       *)
LEMMA SnapshotKept ==
    ASSUME frames \in Seq(Nat), NEW result, Snapshot(result),
           frames' = frames \/ \E size \in Nat : frames' = Append(frames, size)
    PROVE  Snapshot(result)'
<1>1. /\ result.frame \in 1..Len(frames) /\ Len(result.img) = frames[result.frame]
      /\ Len(frames) \in Nat /\ frames[result.frame] \in Nat
  BY DEF Snapshot
<1>2. /\ Len(frames) <= Len(frames') /\ Len(frames') \in Nat
      /\ frames'[result.frame] = frames[result.frame]
  BY <1>1
<1>3. PICK n \in result.frame..Len(frames) :
        \A a \in 1..frames[result.frame] : Shows(frames, n, a, result.img[a])
  BY DEF Snapshot
<1>4. n \in 0..Len(frames) /\ n \in result.frame..Len(frames')
  BY <1>1, <1>2, <1>3
<1>5. ASSUME NEW a \in 1..frames[result.frame]
      PROVE  Shows(frames', n, a, result.img[a])
  <2>1. Shows(frames, n, a, result.img[a]) /\ a \in Nat \ {0}
    BY <1>1, <1>3
  <2> QED
    BY <1>4, <2>1, ShowsAppend
<1>6. result.frame \in 1..Len(frames')
  BY <1>1, <1>2
<1>7. \A a \in 1..frames'[result.frame] : Shows(frames', n, a, result.img[a])
  BY <1>2, <1>5
<1> QED
  BY <1>1, <1>2, <1>4, <1>6, <1>7, Zenon DEF Snapshot

(* Results stay snapshots.                                                 *)
LEMMA ResultsKept ==
    ASSUME TypeInv, ~usurped, ImageIsSnapshot, results' = results,
           frames' = frames \/ \E size \in Sizes : frames' = Append(frames, size)
    PROVE  ImageIsSnapshot'
<1>1. frames \in Seq(Nat) /\ Sizes \subseteq Nat
  <2>1. frames \in Seq(Sizes) /\ Sizes \subseteq Nat
    BY IpcAssumption DEF TypeInv, TypeOK
  <2> QED
    BY <2>1, SeqMonotonic
<1>2. ASSUME NEW i \in 1..Len(results)
      PROVE  Snapshot(results[i])'
  <2>1. Snapshot(results[i])
    BY ResultsAreSnapshots
  <2>2. ASSUME NEW result, Snapshot(result)
        PROVE  Snapshot(result)'
    BY <1>1, <2>2, SnapshotKept
  <2> QED
    BY <2>1, <2>2 DEF Snapshot
<1> QED
  BY <1>2 DEF ImageIsSnapshot, Snapshot

(* What a reader inside has copied is a snapshot of the latest frames.     *)
LEMMA InsideIsSnapshot ==
    ASSUME TypeInv, NEW p \in Procs, Announced(item[p]), Clean,
           Len(img[p]) = item[p].size,
           \A a \in 1..item[p].size : img[p][a] = shm[a]
    PROVE  /\ Snapshot([frame |-> item[p].frame, img |-> img[p]])
           /\ \A a \in 1..item[p].size : Shows(frames, Len(frames), a, img[p][a])
<1>1. frames \in Seq(Sizes) /\ Sizes \subseteq 1..Room /\ Room \in Nat
  BY IpcAssumption DEF TypeInv, TypeOK
<1>2. /\ item[p].size \in 1..Room /\ item[p].frame \in 1..Len(frames)
      /\ item[p].size = frames[item[p].frame]
  BY <1>1 DEF Announced
<1>3. Len(frames) \in item[p].frame..Len(frames)
  BY <1>1, <1>2
<1>4. \A a \in 1..item[p].size : Shows(frames, Len(frames), a, img[p][a])
  BY <1>1, <1>2 DEF Clean
<1> QED
  BY <1>2, <1>3, <1>4 DEF Snapshot

(* A reader inside adds a snapshot, nobody else adds anything.             *)
LEMMA ResultAdded ==
    ASSUME TypeInv, ~usurped, ImageIsSnapshot, NEW p \in Procs, Leave(p), frames' = frames,
           p \in Readers /\ p \in holders =>
               /\ Announced(item[p]) /\ Clean
               /\ Len(img[p]) = item[p].size
               /\ \A a \in 1..item[p].size : img[p][a] = shm[a]
    PROVE  ImageIsSnapshot'
<1> DEFINE result == [frame |-> item[p].frame, img |-> img[p]]
<1>1. CASE p \notin Readers \cap holders
  BY <1>1, ResultsKept DEF Leave
<1>2. CASE p \in Readers \cap holders
  <2>1. results' = Append(results, result) /\ results \in Seq(Results)
    BY <1>2 DEF Leave, TypeInv, TypeOK, Results
  <2>2. /\ Len(results) \in Nat /\ Len(results') = Len(results) + 1
        /\ results'[Len(results) + 1] = result
        /\ \A i \in 1..Len(results) : results'[i] = results[i]
    BY <2>1
  <2>3. Snapshot(result)
    BY <1>2, InsideIsSnapshot
  <2>4. ASSUME NEW i \in 1..Len(results')
        PROVE  Snapshot(results'[i])
    <3>1. CASE i \in 1..Len(results)
      BY <2>2, <3>1, ResultsAreSnapshots
    <3>2. CASE i = Len(results) + 1
      BY <2>2, <2>3, <3>2
    <3> QED
      BY <2>2, <3>1, <3>2
  <2> QED
    BY <2>4 DEF ImageIsSnapshot, Snapshot
<1> QED
  BY <1>1, <1>2

(* Steps that leave segment, frames and messages alone, and take no process*)
(* into a copy: the lock may move only where the segment is clean, a       *)
(* message may only be held on to.                                         *)
LEMMA QuietStep ==
    ASSUME TypeInv, TypeInv', PermitInv, Shared, ~usurped, NEW p \in Procs,
           UNCHANGED <<shm, mq, item, pos, img, frames>>,
           \A q \in Procs \ {p} : pc'[q] = pc[q],
           pc'[p] \in {"idle", "release", "send", "dying", "dying_release"},
           pc'[p] \in {"release", "send"} => pc[p] \in {"copy", "release", "send"} /\ ~Half(p),
           pc'[p] = "release" => pc[p] = "copy" /\ pos[p] = item[p].size,
           sem' > 0 => sem > 0 \/ (p \in holders /\ ~Half(p)) \/ Clean,
           holders' = holders \/ holders' = holders \ {p},
           p \in holders' /\ Half(p) => pos[p] = 0,
           ImageIsSnapshot'
    PROVE  Shared'
<1>1. WritersInside'
  <2> SUFFICES ASSUME NEW w \in Writers, pc'[w] = "copy"
               PROVE  w \in holders'
    BY DEF WritersInside
  <2>1. w # p /\ w \in Procs
    BY DEF Procs
  <2> QED
    BY <2>1 DEF Shared, WritersInside
<1>2. ~Half(p)' /\ (\A q \in Procs \ {p} : Half(q)' = Half(q))
  BY DEF Half
<1>3. Clean' = Clean
  BY DEF Clean
<1>4. p \in holders /\ ~Half(p) => Clean
  BY DEF Shared, SegmentInv
<1>5. p \in holders' => Clean
  <2>1. CASE p \in holders' /\ Half(p)
    <3>1. p \in holders /\ pos[p] = 0 /\ HalfClean(p)
      BY <2>1 DEF Shared, SegmentInv
    <3> QED
      BY <3>1 DEF HalfClean, Clean
  <2> QED
    BY <1>4, <2>1
<1>6. SegmentInv'
  <2>1. sem' > 0 => Clean
    BY <1>4 DEF Shared, SegmentInv
  <2>2. ASSUME NEW q \in holders', q # p
        PROVE  IF Half(q)' THEN HalfClean(q)' ELSE Clean'
    <3>1. q \in holders /\ q \in Procs
      BY <2>2 DEF TypeInv, TypeOK
    <3>2. HalfClean(q)' = HalfClean(q)
      BY DEF HalfClean
    <3> QED
      BY <1>2, <1>3, <2>2, <3>1, <3>2 DEF Shared, SegmentInv
  <2> QED
    BY <1>2, <1>3, <1>5, <2>1, <2>2 DEF SegmentInv
<1>7. MessageInv'
  <2>1. \A m : Announced(m)' = Announced(m)
    BY DEF Announced
  <2>2. pc'[p] \in {"lock", "copy", "release", "send"} => Announced(item[p])
    BY DEF Shared, MessageInv
  <2>3. ASSUME NEW q \in Procs \ {p}, pc'[q] \in {"lock", "copy", "release", "send"}, ~Half(q)'
        PROVE  Announced(item[q])
    BY <1>2, <2>3 DEF Shared, MessageInv
  <2> QED
    BY <2>1, <2>2, <2>3 DEF Shared, MessageInv, Announced
<1>8. ReadingInv'
  <2> SUFFICES ASSUME NEW r \in Readers
               PROVE  /\ pc'[r] \in {"copy", "release"} => Len(img[r]) = pos[r]
                      /\ pc'[r] = "release" => pos[r] = item[r].size
                      /\ r \in holders' /\ pc'[r] \in {"copy", "release"} =>
                            \A a \in 1..pos[r] : img[r][a] = shm[a]
    BY DEF ReadingInv
  <2>1. r \in Procs
    BY DEF Procs
  <2>2. CASE r # p
    BY <2>1, <2>2 DEF Shared, ReadingInv
  <2>3. CASE r = p
    BY <2>3 DEF Shared, ReadingInv
  <2> QED
    BY <2>2, <2>3
<1> QED
  BY <1>1, <1>6, <1>7, <1>8 DEF Shared

(* At the end of its copy a reader inside has what the segment shows.      *)
LEMMA InsideAtEnd ==
    ASSUME TypeInv, Shared, NEW p \in Procs, Copied(p) \/ pc[p] = "release",
           p \in Readers /\ p \in holders
    PROVE  /\ Announced(item[p]) /\ Clean
           /\ Len(img[p]) = item[p].size
           /\ \A a \in 1..item[p].size : img[p][a] = shm[a]
<1>1. /\ pc[p] \in {"copy", "release"} /\ pos[p] = item[p].size
      /\ ~Half(p)
  <2>1. p \notin Writers
    BY IpcAssumption
  <2> QED
    BY <2>1 DEF Copied, Half, Shared, ReadingInv
<1>2. Announced(item[p]) /\ Clean
  BY <1>1 DEF Shared, MessageInv, SegmentInv
<1> QED
  BY <1>1, <1>2 DEF Shared, ReadingInv

(* The end of a call, and of a process.                                    *)
LEMMA EndsKeepShared ==
    ASSUME TypeInv, TypeInv', PermitInv, Shared, ~usurped, ~usurped', NEW p \in Procs,
           \/ Unlock(p) \/ UnlockCheck(p) \/ UnlockRelease(p) \/ SendTimeout(p)
           \/ Exit(p) \/ Interrupt(p) \/ Kill(p) \/ DyingCheck(p) \/ DyingRelease(p)
    PROVE  Shared'
<1> DEFINE HasSnapshot == p \in Readers /\ p \in holders =>
               /\ Announced(item[p]) /\ Clean
               /\ Len(img[p]) = item[p].size
               /\ \A a \in 1..item[p].size : img[p][a] = shm[a]
<1>1. /\ pc \in [Procs -> {"idle", "lock", "copy", "release", "send",
                          "dying", "dying_release"}]
      /\ pos[p] \in Nat /\ item[p].size \in Nat /\ sem \in Nat
  <2>1. /\ item \in [Procs -> Items] /\ pos \in [Procs -> 0..Room]
        /\ pc \in [Procs -> {"idle", "lock", "copy", "release", "send",
                              "dying", "dying_release"}]
        /\ sem \in Nat
    BY Zenon DEF TypeInv, TypeOK
  <2>2. item[p] \in Items /\ pos[p] \in 0..Room
    BY <2>1, Zenon
  <2> QED
    BY <2>1, <2>2, IpcAssumption DEF Items
<1>2. Copied(p) \/ pc[p] = "release" =>
          /\ pc[p] \in {"copy", "release"}
          /\ p \in Readers => pos[p] = item[p].size
          /\ ~Half(p)
  BY <1>1 DEF Copied, Half, Shared, ReadingInv
<1>3. Copied(p) \/ pc[p] = "release" => HasSnapshot
  BY InsideAtEnd
<1>4. ASSUME Unlock(p) \/ UnlockRelease(p) \/ DyingRelease(p)
      PROVE  (p \in holders \/ Clean) /\ holders' = holders \ {p}
  <2>1. holders' = holders \ {p}
    BY <1>4 DEF Unlock, UnlockRelease, DyingRelease, PythonPost, Post
  <2>2. CASE Unlock(p)
    BY <2>1, <2>2 DEF Unlock, Copied, Inside, PermitInv, InsideHolds
  <2>3. CASE PythonPost(p)
    <3>1. p \in holders \/ Unused
      BY <2>3, Zenon DEF PythonPost
    <3>2. ASSUME Unused
          PROVE  Clean
      <4>1. \A i \in 1..Room : shm[i] = 0
        BY <3>2 DEF Unused, EmptySegment
      <4> QED
        BY <3>2, <4>1 DEF Unused, Clean, Shows
    <3> QED
      BY <2>1, <3>1, <3>2
  <2> QED
    BY <1>4, <2>2, <2>3 DEF UnlockRelease, DyingRelease
<1>5. CASE Unlock(p) \/ UnlockRelease(p)
  <2>1. /\ Leave(p) /\ UNCHANGED <<shm, mq, frames, item, pos, img>>
        /\ Copied(p) \/ pc[p] = "release"
    BY <1>5 DEF Unlock, UnlockRelease, Leave
  <2>2. ImageIsSnapshot'
    BY <1>3, <2>1, ResultAdded DEF Shared
  <2>3. pc' = [pc EXCEPT ![p] = "send"] \/ pc' = [pc EXCEPT ![p] = "idle"]
    BY <2>1 DEF Leave, Goto
  <2> QED
    BY <1>1, <1>2, <1>4, <1>5, <2>1, <2>2, <2>3, QuietStep
<1>6. CASE UnlockCheck(p)
  <2>1. /\ Copied(p) /\ ~Half(p) /\ UNCHANGED <<shm, mq, frames, sem, item, pos, img>>
    BY <1>2, <1>6 DEF UnlockCheck, Leave
  <2>2. CASE sem = 0
    <3>1. pc' = [pc EXCEPT ![p] = "release"] /\ UNCHANGED <<holders, results>>
      BY <1>6, <2>2 DEF UnlockCheck, Goto
    <3>2. ImageIsSnapshot'
      BY <2>1, <3>1, ResultsKept DEF Shared
    <3>3. pc[p] = "copy" /\ pos[p] = item[p].size
      BY <2>1 DEF Copied
    <3> QED
      BY <1>1, <2>1, <3>1, <3>2, <3>3, QuietStep
  <2>3. CASE sem # 0
    <3>1. Leave(p) /\ holders' = holders \ {p}
      BY <1>6, <2>3 DEF UnlockCheck
    <3>2. ImageIsSnapshot'
      BY <1>3, <2>1, <3>1, ResultAdded DEF Shared
    <3>3. pc' = [pc EXCEPT ![p] = "send"] \/ pc' = [pc EXCEPT ![p] = "idle"]
      BY <3>1 DEF Leave, Goto
    <3>4. pc[p] = "copy"
      BY <2>1 DEF Copied
    <3> QED
      BY <1>1, <2>1, <3>1, <3>2, <3>3, <3>4, QuietStep
  <2> QED
    BY <2>2, <2>3
<1>7. CASE SendTimeout(p) \/ Exit(p) \/ Interrupt(p) \/ Kill(p) \/ DyingCheck(p)
  <2>1. UNCHANGED <<shm, mq, frames, sem, item, pos, img, results>>
    BY <1>7 DEF SendTimeout, Exit, Interrupt, Kill, DyingCheck
  <2>2. ImageIsSnapshot'
    BY <2>1, ResultsKept DEF Shared
  <2>3. /\ \A q \in Procs \ {p} : pc'[q] = pc[q]
        /\ pc'[p] \in {"idle", "dying", "dying_release"}
        /\ holders' = holders \/ holders' = holders \ {p}
    BY <1>1, <1>7 DEF SendTimeout, Exit, Interrupt, Kill, DyingCheck, Goto
  <2>4. p \in holders' /\ Half(p) => pos[p] = 0
    BY <1>1, <1>7 DEF SendTimeout, Exit, Interrupt, Kill, DyingCheck, Half
  <2> QED
    BY <2>1, <2>2, <2>3, <2>4, QuietStep
<1>8. CASE DyingRelease(p)
  <2>1. UNCHANGED <<shm, mq, frames, item, pos, img, results>>
    BY <1>8 DEF DyingRelease
  <2>2. ImageIsSnapshot'
    BY <2>1, ResultsKept DEF Shared
  <2>3. /\ \A q \in Procs \ {p} : pc'[q] = pc[q]
        /\ pc'[p] = "idle" /\ ~Half(p)
    BY <1>1, <1>8 DEF DyingRelease, Goto, Half
  <2> QED
    BY <1>4, <1>8, <2>1, <2>2, <2>3, QuietStep
<1> QED
  BY <1>5, <1>6, <1>7, <1>8

(* Steps of a process outside of a copy, or entering or inside a reader's: *)
(* frames and segment stay, messages are only passed on.                   *)
LEMMA ReaderStep ==
    ASSUME TypeInv, TypeInv', PermitInv, Shared, ~usurped, ~usurped', NEW p \in Procs,
           \/ Send(p) \/ Receive(p) \/ ReadLock(p) \/ ReadLockTimeout(p) \/ CopyOut(p)
    PROVE  Shared'
<1>1. /\ pc \in [Procs -> {"idle", "lock", "copy", "release", "send",
                          "dying", "dying_release"}]
      /\ pos \in [Procs -> 0..Room] /\ item \in [Procs -> Items] /\ mq \in Seq(Items)
      /\ img \in [Procs -> Seq(0..(Len(frames) + 1))]
      /\ Room \in Nat /\ Writers \cap Readers = {} /\ holders \subseteq Procs
  BY IpcAssumption DEF TypeInv, TypeOK
<1>2. /\ UNCHANGED <<shm, frames, results>>
      /\ \A q \in Procs \ {p} : /\ pc'[q] = pc[q] /\ pos'[q] = pos[q]
                               /\ item'[q] = item[q] /\ img'[q] = img[q]
  BY <1>1 DEF Send, Receive, ReadLock, ReadLockTimeout, CopyOut, Goto
<1>3. ImageIsSnapshot'
  BY <1>2, ResultsKept DEF Shared
<1>4. pc[p] = "lock" => p \in Readers
  BY DEF TypeInv, CallInv
<1>5. /\ pc'[p] = "copy" => p \in Readers
      /\ pc[p] = "copy" => p \in Readers
      /\ p \in Readers => p \notin Writers
  BY <1>1, <1>4 DEF Send, Receive, ReadLock, ReadLockTimeout, CopyOut, Goto
<1>6. ~Half(p) /\ ~Half(p)' /\ (\A q \in Procs \ {p} : Half(q)' = Half(q))
  BY <1>2, <1>5 DEF Half
<1>7. Clean' = Clean /\ (\A m : Announced(m)' = Announced(m))
  BY <1>2 DEF Clean, Announced
<1>8. WritersInside'
  <2> SUFFICES ASSUME NEW w \in Writers, pc'[w] = "copy"
               PROVE  w \in holders'
    BY DEF WritersInside
  <2>1. w \in Procs /\ w # p
    BY <1>5 DEF Procs
  <2>2. w \in holders
    BY <1>2, <2>1 DEF Shared, WritersInside
  <2> QED
    BY <2>2 DEF Send, Receive, ReadLock, ReadLockTimeout, CopyOut, Acquire
<1>9. SegmentInv'
  <2>1. CASE ReadLock(p)
    <3>1. sem > 0 /\ sem' = sem - 1 /\ holders = {} /\ holders' = {p} /\ sem \in Nat
      BY <2>1, OneInside DEF ReadLock, Acquire, PermitInv, OnePermit
    <3>2. Clean
      BY <3>1 DEF Shared, SegmentInv
    <3> QED
      BY <1>6, <1>7, <3>1, <3>2 DEF SegmentInv
  <2>2. CASE ~ReadLock(p)
    <3>1. sem' = sem /\ holders' = holders
      BY <2>2 DEF Send, Receive, ReadLockTimeout, CopyOut
    <3>2. ASSUME NEW q \in holders
          PROVE  IF Half(q)' THEN HalfClean(q)' ELSE Clean'
      <4>1. CASE q = p
        BY <1>6, <1>7, <4>1 DEF Shared, SegmentInv
      <4>2. CASE q # p
        <5>1. q \in Procs \ {p}
          BY <1>1, <4>2
        <5>2. HalfClean(q)' = HalfClean(q)
          BY <1>2, <5>1 DEF HalfClean
        <5> QED
          BY <1>6, <1>7, <5>1, <5>2 DEF Shared, SegmentInv
      <4> QED
        BY <4>1, <4>2
    <3> QED
      BY <1>7, <3>1, <3>2 DEF Shared, SegmentInv
  <2> QED
    BY <2>1, <2>2
<1>10. MessageInv'
  <2>1. ASSUME NEW i \in 1..Len(mq')
        PROVE  Announced(mq'[i])
    <3>1. CASE Send(p)
      <4>1. Announced(item[p])
        BY <1>6, <3>1 DEF Send, Shared, MessageInv
      <4>2. mq' = Append(mq, item[p]) /\ item[p] \in Items
        BY <1>1, <3>1 DEF Send
      <4>3. (i \in 1..Len(mq) /\ mq'[i] = mq[i]) \/ mq'[i] = item[p]
        BY <1>1, <2>1, <4>2, AppendProperties
      <4> QED
        BY <4>1, <4>3 DEF Shared, MessageInv
    <3>2. CASE Receive(p)
      <4>1. mq' = Tail(mq) /\ mq # <<>>
        BY <3>2 DEF Receive
      <4>2. i + 1 \in 1..Len(mq) /\ mq'[i] = mq[i + 1]
        BY <1>1, <2>1, <4>1
      <4> QED
        BY <4>2 DEF Shared, MessageInv
    <3>3. CASE ~Send(p) /\ ~Receive(p)
      <4>1. mq' = mq
        BY <3>3 DEF ReadLock, ReadLockTimeout, CopyOut
      <4> QED
        BY <2>1, <4>1 DEF Shared, MessageInv
    <3> QED
      BY <3>1, <3>2, <3>3
  <2>2. pc'[p] \in {"lock", "copy", "release", "send"} => Announced(item'[p])
    <3>1. CASE Receive(p)
      <4>1. item'[p] = Head(mq) /\ mq # <<>>
        BY <1>1, <3>1 DEF Receive
      <4>2. 1 \in 1..Len(mq) /\ item'[p] = mq[1]
        BY <1>1, <4>1
      <4> QED
        BY <4>2 DEF Shared, MessageInv
    <3>2. CASE ~Receive(p)
      <4>1. item' = item /\ (pc'[p] # "idle" => pc[p] \in {"lock", "copy"})
        BY <1>1, <3>2 DEF Send, ReadLock, ReadLockTimeout, CopyOut, Goto
      <4> QED
        BY <1>6, <4>1 DEF Shared, MessageInv
    <3> QED
      BY <3>1, <3>2
  <2>3. ASSUME NEW q \in Procs \ {p}, pc'[q] \in {"lock", "copy", "release", "send"}, ~Half(q)'
        PROVE  Announced(item'[q])
    BY <1>2, <1>6, <2>3 DEF Shared, MessageInv
  <2>4. frames' = frames
    BY <1>2
  <2> QED
    BY <2>1, <2>2, <2>3, <2>4 DEF MessageInv, Announced
<1>11. ReadingInv'
  <2> SUFFICES ASSUME NEW r \in Readers
               PROVE  /\ pc'[r] \in {"copy", "release"} => Len(img'[r]) = pos'[r]
                      /\ pc'[r] = "release" => pos'[r] = item'[r].size
                      /\ r \in holders' /\ pc'[r] \in {"copy", "release"} =>
                            \A a \in 1..pos'[r] : img'[r][a] = shm[a]
    BY <1>2 DEF ReadingInv
  <2>1. r \in Procs
    BY DEF Procs
  <2>2. CASE r # p
    <3>1. r \in holders' => r \in holders
      BY <2>2 DEF Send, Receive, ReadLock, ReadLockTimeout, CopyOut, Acquire
    <3> QED
      BY <1>2, <2>1, <2>2, <3>1 DEF Shared, ReadingInv
  <2>3. CASE r = p /\ (Send(p) \/ Receive(p))
    BY <1>1, <2>3 DEF Send, Receive, Goto
  <2>4. CASE r = p /\ (ReadLock(p) \/ ReadLockTimeout(p))
    <3>1. pos'[p] = 0 /\ img'[p] = <<>> /\ pc'[p] = "copy"
      BY <1>1, <2>4 DEF ReadLock, ReadLockTimeout, Goto, TypeInv, CallInv
    <3> QED
      BY <2>4, <3>1
  <2>5. CASE r = p /\ CopyOut(p)
    <3>1. /\ pc'[p] = "copy" /\ pc[p] = "copy" /\ holders' = holders
          /\ img'[p] = Append(img[p], shm[pos[p] + 1]) /\ pos'[p] = pos[p] + 1
      BY <1>1, <2>5 DEF CopyOut
    <3>2. /\ Len(img[p]) = pos[p] /\ pos[p] \in Nat
          /\ p \in holders => \A a \in 1..pos[p] : img[p][a] = shm[a]
      BY <1>1, <2>5, <3>1 DEF Shared, ReadingInv
    <3>3. /\ Len(img'[p]) = pos[p] + 1 /\ img'[p][pos[p] + 1] = shm[pos[p] + 1]
          /\ \A a \in 1..pos[p] : img'[p][a] = img[p][a]
      BY <1>1, <3>1, <3>2
    <3>4. \A a \in 1..(pos[p] + 1) : a \in 1..pos[p] \/ a = pos[p] + 1
      BY <3>2
    <3> QED
      BY <2>5, <3>1, <3>2, <3>3, <3>4
  <2> QED
    BY <2>2, <2>3, <2>4, <2>5
<1> QED
  BY <1>3, <1>8, <1>9, <1>10, <1>11 DEF Shared

(* A writer that gets the lock finds the segment clean.                    *)
LEMMA WriteLockKeepsShared ==
    ASSUME TypeInv, PermitInv, Shared, ~usurped, NEW p \in Procs, NEW n \in Sizes,
           WriteLock(p, n)
    PROVE  Shared'
<1>1. /\ pc \in [Procs -> {"idle", "lock", "copy", "release", "send",
                          "dying", "dying_release"}]
      /\ pos \in [Procs -> 0..Room] /\ item \in [Procs -> Items]
      /\ n \in Nat /\ n > 0 /\ sem \in Nat
      /\ Writers \cap Readers = {} /\ Writers \subseteq Procs /\ Readers \subseteq Procs
  BY IpcAssumption DEF TypeInv, TypeOK, Procs
<1>2. /\ p \in Writers /\ p \notin Readers
      /\ UNCHANGED <<shm, mq, img, usurped, frames, results>>
      /\ pc' = [pc EXCEPT ![p] = "copy"] /\ pos' = [pos EXCEPT ![p] = 0]
      /\ item' = [item EXCEPT ![p] = [frame |-> Len(frames) + 1, size |-> n,
                                      nul |-> p \notin Python]]
      /\ sem > 0 /\ sem' = sem - 1 /\ holders' = holders \cup {p}
  BY <1>1 DEF WriteLock, Acquire, Goto
<1>3. holders = {} /\ holders' = {p} /\ sem' = 0 /\ Clean
  <2>1. holders = {} /\ holders' = {p}
    BY <1>2, OneInside
  <2>2. sem = 1
    <3>1. sem + Cardinality(holders) <= 1
      BY DEF PermitInv, OnePermit
    <3> QED
      BY <1>1, <1>2, <2>1, <3>1, FS_EmptySet
  <2> QED
    BY <1>2, <2>1, <2>2 DEF Shared, SegmentInv
<1>4. /\ Half(p)' /\ HalfClean(p)'
      /\ \A q \in Procs \ {p} : Half(q)' = Half(q)
      /\ \A m : Announced(m)' = Announced(m)
  <2>1. pos'[p] = 0 /\ item'[p].size = n /\ item'[p].frame = Len(frames) + 1 /\ pc'[p] = "copy"
    BY <1>1, <1>2
  <2>2. HalfClean(p)'
    BY <1>2, <1>3, <2>1 DEF HalfClean, Clean
  <2>3. Half(p)'
    BY <1>1, <1>2, <2>1 DEF Half
  <2>4. \A q \in Procs \ {p} : Half(q)' = Half(q)
    BY <1>1, <1>2 DEF Half
  <2> QED
    BY <1>2, <2>2, <2>3, <2>4 DEF Announced
<1>5. WritersInside'
  BY <1>1, <1>2, <1>3 DEF Shared, WritersInside
<1>6. SegmentInv'
  BY <1>3, <1>4 DEF SegmentInv
<1>7. MessageInv'
  <2>1. ASSUME NEW q \in Procs, pc'[q] \in {"lock", "copy", "release", "send"}, ~Half(q)'
        PROVE  Announced(item'[q])
    <3>1. q # p
      BY <1>4, <2>1
    <3>2. ~Half(q) /\ pc'[q] = pc[q] /\ item'[q] = item[q]
      BY <1>1, <1>2, <1>4, <2>1, <3>1
    <3> QED
      BY <2>1, <3>2 DEF Shared, MessageInv
  <2>2. \A i \in 1..Len(mq) : Announced(mq[i])
    BY DEF Shared, MessageInv
  <2> QED
    BY <1>2, <2>1, <2>2 DEF MessageInv, Announced
<1>8. ReadingInv'
  <2>1. ASSUME NEW r \in Readers
        PROVE  /\ r # p /\ r \notin holders' /\ pc'[r] = pc[r] /\ pos'[r] = pos[r]
               /\ item'[r] = item[r]
    BY <1>1, <1>2, <1>3
  <2> QED
    BY <1>2, <2>1 DEF Shared, ReadingInv
<1>9. ImageIsSnapshot'
  BY <1>2, ResultsKept DEF Shared
<1> QED
  BY <1>5, <1>6, <1>7, <1>8, <1>9 DEF Shared

(* Writing a chunk: only the writer is inside; with its last chunk the     *)
(* segment shows one frame more.                                           *)
LEMMA CopyInKeepsShared ==
    ASSUME TypeInv, PermitInv, Shared, ~usurped, NEW p \in Procs, CopyIn(p)
    PROVE  Shared'
<1> DEFINE size == item[p].size
<1>0. /\ \A n \in Sizes : n \in Nat /\ n <= Room
      /\ pos[p] \in Nat /\ Sizes \subseteq Nat
  BY IpcAssumption DEF TypeInv, TypeOK
<1>1. /\ pc \in [Procs -> {"idle", "lock", "copy", "release", "send",
                          "dying", "dying_release"}]
      /\ pos \in [Procs -> 0..Room] /\ item \in [Procs -> Items] /\ mq \in Seq(Items)
      /\ shm \in [1..Room -> 0..(Len(frames) + 1)]
      /\ frames \in Seq(Sizes) /\ Sizes \subseteq 1..Room /\ Room \in Nat
      /\ Writers \cap Readers = {} /\ Writers \subseteq Procs /\ Readers \subseteq Procs
      /\ sem \in Nat /\ holders \subseteq Procs
  BY IpcAssumption DEF TypeInv, TypeOK, Procs
<1>2. /\ p \in Writers /\ p \notin Readers /\ pc[p] = "copy" /\ size \in Sizes
      /\ pos[p] < size /\ Half(p)
      /\ shm' = [shm EXCEPT ![pos[p] + 1] = item[p].frame]
      /\ pos' = [pos EXCEPT ![p] = pos[p] + 1]
      /\ frames' = IF pos[p] + 1 = size THEN Append(frames, size) ELSE frames
      /\ UNCHANGED <<sem, mq, pc, item, img, holders, usurped, results>>
  <2>1. p \in Writers /\ pc[p] = "copy" /\ pos[p] # size
    BY DEF CopyIn, Copied
  <2>2. size \in Sizes /\ pos[p] <= size
    BY <2>1 DEF TypeInv, CallInv
  <2>3. pos[p] < size
    <3>1. pos[p] \in Nat /\ size \in Nat
      BY <1>0, <2>2
    <3> QED
      BY <2>1, <2>2, <3>1
  <2> QED
    BY <1>1, <2>1, <2>2, <2>3 DEF CopyIn, Half
<1>3. p \in holders /\ HalfClean(p) /\ (\A q \in holders : q = p) /\ ~(sem > 0)
  <2>1. p \in holders
    BY <1>2 DEF Shared, WritersInside
  <2> QED
    BY <1>2, <2>1, OneInside DEF Shared, SegmentInv
<1>4. /\ frames \in Seq(Nat) /\ Len(frames) \in Nat /\ size \in Nat
      /\ frames' = frames \/ \E n \in Sizes : frames' = Append(frames, n)
  <2>1. Sizes \subseteq Nat /\ size \in Nat
    BY <1>0, <1>2
  <2>2. frames \in Seq(Nat)
    BY <1>1, <2>1, SeqMonotonic
  <2>3. Len(frames) \in Nat
    BY <2>2
  <2>4. frames' = frames \/ \E n \in Sizes : frames' = Append(frames, n)
    BY <1>2
  <2> QED
    BY <2>1, <2>2, <2>3, <2>4
<1>5. /\ pos[p] + 1 \in 1..Room /\ item[p].frame = Len(frames) + 1
      /\ shm'[pos[p] + 1] = Len(frames) + 1
      /\ \A a \in 1..Room : a # pos[p] + 1 => shm'[a] = shm[a]
  <2>1. pos[p] \in Nat /\ size \in Nat /\ size <= Room
    BY <1>0, <1>2
  <2>2. pos[p] + 1 \in 1..Room
    BY <1>1, <1>2, <2>1
  <2>3. item[p].frame = Len(frames) + 1
    BY <1>3 DEF HalfClean
  <2> QED
    BY <1>1, <1>2, <2>2, <2>3
<1>6. ASSUME NEW m, Announced(m)
      PROVE  Announced(m)'
  <2>1. CASE frames' = frames
    BY <1>6, <2>1 DEF Announced
  <2>2. CASE frames' = Append(frames, size)
    BY <1>4, <1>6, <2>2 DEF Announced
  <2> QED
    BY <1>2, <2>1, <2>2
<1>7. SegmentInv'
  <2>1. CASE pos[p] + 1 # size
    <3>1. frames' = frames /\ Half(p)' /\ pos'[p] = pos[p] + 1
      BY <1>1, <1>2, <1>4, <2>1 DEF Half
    <3>2. ASSUME NEW a \in 1..Room
          PROVE  IF a <= pos[p] + 1 THEN shm'[a] = Len(frames) + 1
                 ELSE Shows(frames, Len(frames), a, shm'[a])
      <4>1. CASE a = pos[p] + 1
        BY <1>1, <1>5, <4>1
      <4>2. CASE a # pos[p] + 1
        <5>1. shm'[a] = shm[a] /\ (a <= pos[p] + 1 <=> a <= pos[p])
          BY <1>1, <1>5, <4>2
        <5> QED
          BY <1>3, <5>1 DEF HalfClean
      <4> QED
        BY <4>1, <4>2
    <3>3. HalfClean(p)'
      BY <1>2, <1>5, <3>1, <3>2 DEF HalfClean
    <3> QED
      BY <1>2, <1>3, <3>1, <3>3 DEF SegmentInv
  <2>2. CASE pos[p] + 1 = size
    <3>1. frames' = Append(frames, size) /\ ~Half(p)' /\ Len(frames') = Len(frames) + 1
      BY <1>1, <1>2, <1>4, <2>2 DEF Half
    <3>2. ASSUME NEW a \in 1..Room
          PROVE  Shows(frames', Len(frames) + 1, a, shm'[a])
      <4>1. CASE a <= size
        <5>1. shm'[a] = Len(frames) + 1
          <6>1. CASE a = pos[p] + 1
            BY <1>5, <6>1
          <6>2. CASE a # pos[p] + 1
            <7>1. shm'[a] = shm[a] /\ a <= pos[p]
              BY <1>1, <1>5, <2>2, <4>1, <6>2
            <7> QED
              BY <1>3, <7>1 DEF HalfClean
          <6> QED
            BY <6>1, <6>2
        <5>2. Shows(Append(frames, size), Len(frames) + 1, a, Len(frames) + 1)
          BY <1>4, <4>1, ShowsNew
        <5> QED
          BY <3>1, <5>1, <5>2
      <4>2. CASE ~(a <= size)
        <5>1. shm'[a] = shm[a] /\ ~(a <= pos[p]) /\ size < a /\ a \in Nat \ {0}
          BY <1>1, <1>2, <1>4, <1>5, <2>2, <4>2
        <5>2. Shows(frames, Len(frames), a, shm[a])
          BY <1>3, <5>1 DEF HalfClean
        <5>3. Shows(Append(frames, size), Len(frames) + 1, a, shm[a])
          BY <1>4, <5>1, <5>2, ShowsAppend
        <5> QED
          BY <3>1, <5>1, <5>3
      <4> QED
        BY <4>1, <4>2
    <3>3. Clean'
      BY <3>1, <3>2 DEF Clean
    <3> QED
      BY <1>2, <1>3, <3>1, <3>3 DEF SegmentInv
  <2> QED
    BY <2>1, <2>2
<1>8. WritersInside'
  BY <1>2 DEF Shared, WritersInside
<1>9. MessageInv'
  <2>1. ASSUME NEW i \in 1..Len(mq)
        PROVE  Announced(mq[i])'
    BY <1>2, <1>6 DEF Shared, MessageInv, Announced
  <2>2. ASSUME NEW q \in Procs, pc[q] \in {"lock", "copy", "release", "send"}, ~Half(q)'
        PROVE  Announced(item[q])'
    <3>1. CASE q # p
      <4>1. ~Half(q)
        BY <1>1, <1>2, <2>2, <3>1 DEF Half
      <4>2. Announced(item[q])
        BY <2>2, <4>1 DEF Shared, MessageInv
      <4> QED
        BY <1>2, <1>6, <4>2 DEF Announced
    <3>2. CASE q = p
      <4>1. ~(pos[p] + 1 < size)
        BY <1>1, <1>2, <2>2, <3>2 DEF Half
      <4>2. pos[p] + 1 = size
        BY <1>1, <1>2, <1>4, <4>1
      <4>3. frames' = Append(frames, size)
        BY <1>2, <4>2
      <4>4. frames'[Len(frames) + 1] = size /\ Len(frames) + 1 \in 1..Len(frames')
        BY <1>4, <4>3
      <4> QED
        BY <1>2, <1>5, <3>2, <4>4 DEF Announced
    <3> QED
      BY <3>1, <3>2
  <2> QED
    BY <1>2, <2>1, <2>2 DEF MessageInv
<1>10. ReadingInv'
  <2>1. ASSUME NEW r \in Readers
        PROVE  r # p /\ r \notin holders /\ pos'[r] = pos[r]
    BY <1>1, <1>2, <1>3
  <2> QED
    BY <1>2, <2>1 DEF Shared, ReadingInv
<1>11. ImageIsSnapshot'
  BY <1>2, <1>4, ResultsKept DEF Shared
<1> QED
  BY <1>7, <1>8, <1>9, <1>10, <1>11 DEF Shared

(* A post out of turn is never forgotten.                                  *)
LEMMA OnceUsurped ==
    ASSUME Next, ~usurped'
    PROVE  ~usurped
<1>1. PICK p \in Procs :
        (\E n \in Sizes : WriteLock(p, n)) \/ Step(p) \/ Exit(p) \/ Interrupt(p) \/ Kill(p)
  BY DEF Next
<1>2. CASE UnlockRelease(p) \/ DyingRelease(p)
  BY <1>2, Zenon DEF UnlockRelease, DyingRelease, PythonPost
<1>3. CASE ~(UnlockRelease(p) \/ DyingRelease(p))
  <2>1. usurped' = usurped
    BY <1>1, <1>3 DEF Step, Unlock, WriteLock, Exit, Interrupt, Kill, UnlockCheck, CopyIn, Send,
       SendTimeout, Receive, ReadLock, ReadLockTimeout, CopyOut, DyingCheck
  <2> QED
    BY <2>1
<1> QED
  BY <1>2, <1>3

(* Every step keeps what the processes share in order.                     *)
LEMMA SharedInvariant == Spec => []ShareInv
<1>1. Init => ShareInv
  <2> SUFFICES ASSUME Init
               PROVE  Shared
    BY DEF ShareInv
  <2>1. /\ frames = <<>> /\ mq = <<>> /\ results = <<>> /\ holders = {}
        /\ \A p \in Procs : pc[p] = "idle"
        /\ \A a \in 1..Room : shm[a] = 0
    BY DEF Init, EmptySegment
  <2>2. Clean
    <3>1. ASSUME NEW a \in 1..Room
          PROVE  Shows(<<>>, 0, a, 0)
      BY DEF Shows
    <3> QED
      BY <2>1, <3>1 DEF Clean
  <2>3. WritersInside /\ ReadingInv
    BY <2>1 DEF WritersInside, ReadingInv, Procs
  <2>4. SegmentInv
    BY <2>1, <2>2 DEF SegmentInv
  <2>5. MessageInv
    BY <2>1 DEF MessageInv
  <2>6. ImageIsSnapshot
    BY <2>1 DEF ImageIsSnapshot
  <2> QED
    BY <2>3, <2>4, <2>5, <2>6 DEF Shared
<1>2. TypeInv /\ TypeInv' /\ PermitInv /\ ShareInv /\ [Next]_vars => ShareInv'
  <2> SUFFICES ASSUME TypeInv, TypeInv', PermitInv, ShareInv, [Next]_vars, ~usurped'
               PROVE  Shared'
    BY DEF ShareInv
  <2>1. CASE UNCHANGED vars
    BY <2>1 DEF vars, ShareInv, Shared, WritersInside, SegmentInv, MessageInv, ReadingInv,
                ImageIsSnapshot, Half, HalfClean, Clean, Announced
  <2>2. CASE Next
    <3>1. PICK p \in Procs :
            (\E n \in Sizes : WriteLock(p, n)) \/ Step(p) \/ Exit(p) \/ Interrupt(p) \/ Kill(p)
      BY <2>2 DEF Next
    <3>2. ~usurped
      BY <2>2, OnceUsurped
    <3>3. Shared
      BY <3>2 DEF ShareInv
    <3>4. CASE \E n \in Sizes : WriteLock(p, n)
      BY <3>2, <3>3, <3>4, WriteLockKeepsShared
    <3>5. CASE CopyIn(p)
      BY <3>2, <3>3, <3>5, CopyInKeepsShared
    <3>6. CASE Send(p) \/ Receive(p) \/ ReadLock(p) \/ ReadLockTimeout(p) \/ CopyOut(p)
      BY <3>2, <3>3, <3>6, ReaderStep
    <3>7. CASE \/ Unlock(p) \/ UnlockCheck(p) \/ UnlockRelease(p) \/ SendTimeout(p)
               \/ Exit(p) \/ Interrupt(p) \/ Kill(p) \/ DyingCheck(p) \/ DyingRelease(p)
      BY <3>2, <3>3, <3>7, EndsKeepShared
    <3> QED
      BY <3>1, <3>4, <3>5, <3>6, <3>7 DEF Step
  <2> QED
    BY <2>1, <2>2
<1> QED
  BY <1>1, <1>2, TypeInvariant, PermitInvariant, PTL DEF Spec

(* Until a Python process releases a semaphore it had not acquired, what   *)
(* was read under the semaphore is what the segment held at one moment,    *)
(* between two calls of write_frame and not before the frame its message   *)
(* announced, for any number of processes in either language, frames of    *)
(* any sizes and kills anywhere (IpcManager, PosixSemaphore).  What a      *)
(* Python reader copies after a timed-out lock is not read under it.       *)
THEOREM ImagesAreSnapshots == Spec => []ImageIsSnapshot
<1>1. ShareInv => ImageIsSnapshot
  BY DEF ShareInv, Shared, ImageIsSnapshot
<1> QED
  BY <1>1, SharedInvariant, PTL
---------------------------------------------------------------------------
(* The abstract mailbox.                                                   *)

(* Appending makes a sequence longer by one.                               *)
LEMMA AppendIsLonger ==
    ASSUME NEW S, NEW s \in Seq(S), NEW e \in S
    PROVE  Mailbox!Longer(Append(s, e), s)
<1>1. /\ Append(s, e) \in Seq(S) /\ Len(Append(s, e)) = Len(s) + 1 /\ Len(s) \in Nat
      /\ \A i \in 1..Len(s) : Append(s, e)[i] = s[i]
  BY AppendProperties
<1>2. /\ SubSeq(Append(s, e), 1, Len(s)) \in Seq(S)
      /\ Len(SubSeq(Append(s, e), 1, Len(s))) = Len(s)
      /\ \A i \in 1..Len(s) : SubSeq(Append(s, e), 1, Len(s))[i] = Append(s, e)[i]
  BY <1>1
<1>3. SubSeq(Append(s, e), 1, Len(s)) = s
  BY <1>1, <1>2, SeqEqual
<1> QED
  BY <1>1, <1>3 DEF Mailbox!Longer

(* The return of read_frame to a reader that is inside is the Read of the  *)
(* mailbox.                                                                *)
LEMMA LeaveReads ==
    ASSUME TypeInv, usurped' = usurped, NEW p \in Procs, Leave(p), UNCHANGED frames,
           p \in Readers /\ p \in holders =>
               /\ Announced(item[p]) /\ Clean
               /\ Len(img[p]) = item[p].size
               /\ \A a \in 1..item[p].size : img[p][a] = shm[a]
    PROVE  Mailbox!Next \/ UNCHANGED Mailbox!box
<1> DEFINE result == [frame |-> item[p].frame, img |-> img[p]]
<1>1. CASE p \notin Readers \cap holders
  BY <1>1 DEF Leave, Mailbox!box
<1>2. CASE p \in Readers \cap holders
  <2>1. /\ results' = Append(results, result) /\ results \in Seq(Results)
        /\ result \in Results
    BY <1>2 DEF Leave, TypeInv, TypeOK, Results, Items
  <2>2. Mailbox!Longer(results', results)
    BY <2>1, AppendIsLonger
  <2>3. results'[Len(results) + 1] = result
    BY <2>1, AppendProperties
  <2>4. /\ item[p].frame \in 1..Len(frames) /\ item[p].size = frames[item[p].frame]
        /\ Len(img[p]) = item[p].size
        /\ \A a \in 1..item[p].size : Shows(frames, Len(frames), a, img[p][a])
    BY <1>2, InsideIsSnapshot DEF Announced
  <2>5. Mailbox!Image(item[p].frame, img[p])
    BY <2>4 DEF Mailbox!Image, Mailbox!Shows, Shows
  <2> QED
    BY <2>2, <2>3, <2>4, <2>5 DEF Mailbox!Next, Mailbox!Read
<1> QED
  BY <1>1, <1>2

(* IpcManager is a mailbox until a Python process releases a semaphore it  *)
(* had not acquired: every way processes interleave, wait, time out and    *)
(* are killed looks from outside as if write_frame and read_frame took     *)
(* place in one step each, reads after a timed-out lock left out           *)
(* (write_frame, read_frame).                                              *)
THEOREM ImplementsMailbox == Spec => MailboxSpec
<1>1. Init => Mailbox!Init
  BY DEF Init, Mailbox!Init
<1>2. TypeInv /\ TypeInv' /\ ShareInv /\ [Next]_vars
        => [usurped' \/ Mailbox!Next]_(Mailbox!box)
  <2> SUFFICES ASSUME TypeInv, TypeInv', ShareInv, Next, ~usurped'
               PROVE  Mailbox!Next \/ UNCHANGED Mailbox!box
    BY DEF vars, Mailbox!box
  <2>1. ~usurped /\ Shared
    BY OnceUsurped DEF ShareInv
  <2>2. usurped' = usurped
    BY <2>1 DEF TypeInv, TypeOK
  <2>3. PICK p \in Procs :
          (\E n \in Sizes : WriteLock(p, n)) \/ Step(p) \/ Exit(p) \/ Interrupt(p) \/ Kill(p)
    BY DEF Next
  <2>4. CASE CopyIn(p)
    <3>1. CASE frames' = frames
      BY <2>2, <2>4, <3>1 DEF CopyIn, Mailbox!box
    <3>2. CASE frames' = Append(frames, item[p].size)
      <4>1. frames \in Seq(Sizes) /\ item[p].size \in Sizes
        BY <2>4 DEF CopyIn, TypeInv, TypeOK, CallInv
      <4> QED
        BY <2>2, <2>4, <3>2, <4>1, AppendIsLonger DEF CopyIn, Mailbox!Next, Mailbox!Write
    <3> QED
      BY <2>4, <3>1, <3>2 DEF CopyIn
  <2>5. CASE Unlock(p) \/ UnlockRelease(p) \/ UnlockCheck(p)
    <3>1. UNCHANGED frames /\ (Copied(p) \/ pc[p] = "release")
      BY <2>5 DEF Unlock, UnlockRelease, UnlockCheck
    <3>2. CASE Leave(p)
      BY <2>1, <2>2, <3>1, <3>2, InsideAtEnd, LeaveReads
    <3>3. CASE ~Leave(p)
      BY <2>2, <2>5, <3>1, <3>3 DEF Unlock, UnlockRelease, UnlockCheck, Mailbox!box
    <3> QED
      BY <3>2, <3>3
  <2>6. CASE ~(CopyIn(p) \/ Unlock(p) \/ UnlockRelease(p) \/ UnlockCheck(p))
    BY <2>2, <2>3, <2>6 DEF Step, WriteLock, Exit, Interrupt, Kill, Send, SendTimeout, Receive, ReadLock,
       ReadLockTimeout, CopyOut, DyingCheck, DyingRelease, Mailbox!box
  <2> QED
    BY <2>4, <2>5, <2>6
<1> QED
  BY <1>1, <1>2, TypeInvariant, SharedInvariant, PTL
     DEF Spec, MailboxSpec, Mailbox!Spec
===========================================================================
