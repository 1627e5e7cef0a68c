---------------------------- MODULE ServerProofs ----------------------------
(* The server's life, for every command line, clock and sequence of        *)
(* frames, in this order: where it holds the semaphore; the                *)
(* frame rate it prints; sums of events and the window a TrafficStat keeps *)
(* of its log; options and what the Configurator makes of them; the types; *)
(* the traffic it prints; the settings and the address in effect.          *)
EXTENDS ServerLife, PageLemmas, SequenceTheorems

(* The semaphore is held from LockSemaphore to the end of the copy, and    *)
(* kept only where an exception or a bad pointer ends the server: every    *)
(* way round the loop comes back to sending, pausing and waiting without   *)
(* it (read_frame, run_server).                                            *)
THEOREM NeverHeldInTheLoop == Spec => []HeldOnlyToCopy
<1>1. Init => HeldOnlyToCopy
  BY DEF Init, HeldOnlyToCopy
<1>2. HeldOnlyToCopy /\ [Next]_vars => HeldOnlyToCopy'
  <2> SUFFICES ASSUME HeldOnlyToCopy, [Next]_vars
               PROVE  HeldOnlyToCopy'
    OBVIOUS
  <2> USE DEF HeldOnlyToCopy
  <2>1. CASE UNCHANGED vars
    BY <2>1 DEF vars, Ended
  <2>2. CASE Start
    BY <2>2 DEF Start, Ended
  <2>3. CASE OpenIpcSource
    BY <2>3 DEF OpenIpcSource, Ended
  <2>4. CASE \E ok \in BOOLEAN : OpenCapture(ok)
    BY <2>4 DEF OpenCapture, Throw, Ended
  <2>5. CASE ConfigStreamer
    BY <2>5 DEF ConfigStreamer, Ended
  <2>6. CASE \E bound \in BOOLEAN : InitStreamer(bound)
    BY <2>6 DEF InitStreamer, Ended
  <2>7. CASE \E size \in FrameSizes \cup {0} : ReadCapture(size)
    BY <2>7 DEF ReadCapture, CanRead, Yield, Ended
  <2>8. CASE ReceiveMessage
    BY <2>8 DEF ReceiveMessage, CanRead, Yield, Throw, Ended
  <2>9. CASE LockSemaphore
    BY <2>9 DEF LockSemaphore, Throw, Ended
  <2>10. CASE \E size \in FrameSizes : CopyFrame(size)
    BY <2>10 DEF CopyFrame, Yield, Throw, Ended
  <2>11. CASE SendPacket
    BY <2>11 DEF SendPacket, Ended
  <2>12. CASE Debug
    BY <2>12 DEF Debug, Ended
  <2>13. CASE \E d \in Steps : Tick(d)
    BY <2>13 DEF Tick, Ended
  <2> QED
    BY <2>1, <2>2, <2>3, <2>4, <2>5, <2>6, <2>7, <2>8, <2>9, <2>10, <2>11, <2>12, <2>13
       DEF Next, ServerStep
<1> QED
  BY <1>1, <1>2, PTL DEF Spec
---------------------------------------------------------------------------
(* The window of a TimingStat and the reads it stands for.                 *)

Log == Seq([amount : Int, stamp : Int])

(* The timestamps of the last Window reads, the newest first.              *)
WindowOf(log, stamps) ==
    /\ stamps \in Seq(Int)
    /\ Len(stamps) = Least(Len(log), Window)
    /\ \A i \in 1..Len(stamps) : stamps[i] = log[Len(log) + 1 - i].stamp

(* push_timestamp keeps the window of the log that is longer by one.       *)
LEMMA PushKeepsWindow ==
    ASSUME NEW log \in Log, NEW stamps, WindowOf(log, stamps),
           NEW amount \in Int, NEW now \in Int
    PROVE  WindowOf(Append(log, [amount |-> amount, stamp |-> now]), PushEvent(stamps, now))
<1> DEFINE new == Append(log, [amount |-> amount, stamp |-> now])
           all == <<now>> \o stamps
           m == Least(Len(stamps) + 1, Window)
<1>1. Window \in Nat /\ Window > 1
  BY StatisticsAssumption
<1>2. /\ stamps \in Seq(Int) /\ Len(stamps) \in Nat /\ Len(log) \in Nat
      /\ Len(stamps) = Least(Len(log), Window)
  BY DEF WindowOf, Log
<1>3. /\ all \in Seq(Int) /\ Len(all) = Len(stamps) + 1
      /\ all[1] = now
      /\ \A i \in 2..Len(all) : all[i] = stamps[i - 1]
  BY <1>2
<1>4. m \in Nat /\ m <= Len(all) /\ m = Least(Len(log) + 1, Window)
  BY <1>1, <1>2, <1>3 DEF Least
<1>5. /\ PushEvent(stamps, now) \in Seq(Int)
      /\ Len(PushEvent(stamps, now)) = m
      /\ \A i \in 1..m : PushEvent(stamps, now)[i] = all[i]
  BY <1>3, <1>4 DEF PushEvent
<1>6. /\ Len(new) = Len(log) + 1
      /\ new[Len(log) + 1].stamp = now
      /\ \A i \in 1..Len(log) : new[i] = log[i]
  BY DEF Log
<1>7. ASSUME NEW i \in 1..m
      PROVE  all[i] = new[Len(new) + 1 - i].stamp
  <2>1. CASE i = 1
    BY <2>1, <1>2, <1>3, <1>6
  <2>2. CASE i # 1
    <3>1. i - 1 \in 1..Len(stamps) /\ i \in 2..Len(all)
      BY <2>2, <1>2, <1>3, <1>4
    <3>2. all[i] = log[Len(log) + 1 - (i - 1)].stamp
      BY <3>1, <1>3 DEF WindowOf
    <3>3. Len(log) + 1 - (i - 1) \in 1..Len(log)
      BY <3>1, <1>2, <1>1 DEF Least
    <3>4. Len(new) + 1 - i = Len(log) + 1 - (i - 1)
      BY <1>2, <1>6
    <3> QED
      BY <3>2, <3>3, <3>4, <1>6
  <2> QED
    BY <2>1, <2>2
<1> QED
  BY <1>4, <1>5, <1>6, <1>7 DEF WindowOf

(* What should be printed for a source after the reads of a log.           *)
RecentRate(kind, log) ==
    LET n == Len(log)
        m == IF kind = "ipc" THEN Least(n, 2) ELSE Least(n, Window)
    IN Rate(m - 1, log[n].stamp - log[n - m + 1].stamp)

(* GetFps and GetAverageFps compute it from the window.                    *)
LEMMA WindowGivesRate ==
    ASSUME NEW log \in Log, NEW stamps, WindowOf(log, stamps), Len(log) > 1, NEW kind
    PROVE  RecentRate(kind, log)
               = IF kind = "ipc" THEN GetFps(stamps) ELSE GetAverageFps(stamps)
<1>1. Window \in Nat /\ Window > 1
  BY StatisticsAssumption
<1>2. /\ Len(stamps) = Least(Len(log), Window) /\ Len(log) \in Nat
      /\ Len(stamps) \in Nat /\ Len(stamps) > 1
      /\ Least(Len(log), 2) = 2
  <2>1. Len(stamps) = Least(Len(log), Window)
    BY DEF WindowOf
  <2>2. Len(log) \in Nat
    BY DEF Log
  <2>3. \A n, w \in Nat : n > 1 /\ w > 1 =>
          Least(n, w) \in Nat /\ Least(n, w) > 1 /\ Least(n, 2) = 2
    BY DEF Least
  <2> QED
    BY <1>1, <2>1, <2>2, <2>3
<1>3. /\ stamps[1] = log[Len(log)].stamp
      /\ stamps[2] = log[Len(log) - 1].stamp
      /\ stamps[Len(stamps)] = log[Len(log) - Len(stamps) + 1].stamp
  <2>1. \A i \in 1..Len(stamps) : stamps[i] = log[Len(log) + 1 - i].stamp
    BY DEF WindowOf
  <2>2. 1 \in 1..Len(stamps) /\ 2 \in 1..Len(stamps) /\ Len(stamps) \in 1..Len(stamps)
    BY <1>2
  <2>3. /\ Len(log) + 1 - 1 = Len(log) /\ Len(log) + 1 - 2 = Len(log) - 1
        /\ Len(log) + 1 - Len(stamps) = Len(log) - Len(stamps) + 1
    BY <1>2
  <2> QED
    BY <2>1, <2>2, <2>3
<1>4. CASE kind = "ipc"
  <2>1. Len(log) - 2 + 1 = Len(log) - 1 /\ 2 - 1 = 1
    BY <1>2
  <2> QED
    BY <1>2, <1>3, <1>4, <2>1 DEF RecentRate, GetFps
<1>5. CASE kind # "ipc"
  BY <1>2, <1>3, <1>5 DEF RecentRate, GetAverageFps
<1> QED
  BY <1>4, <1>5

(* Inductive: the window is that of the log, and a report that is still    *)
(* current shows its rate.                                                 *)
RateInv ==
    /\ clock \in Int
    /\ read_log \in Log
    /\ WindowOf(read_log, timing)
    /\ pc = "start" => Len(read_log) = 0
    /\ report.reads \in Int /\ report.reads <= Len(read_log)
    /\ report.reads = Len(read_log) /\ Len(read_log) > 1 =>
          report.fps = RecentRate(conf.source, read_log)

LEMMA YieldKeepsRate ==
    ASSUME RateInv, NEW size \in Int, Yield(size)
    PROVE  RateInv'
<1>1. /\ read_log' = Append(read_log, [amount |-> size, stamp |-> clock])
      /\ timing' = PushEvent(timing, clock)
      /\ UNCHANGED <<clock, report>> /\ pc' # "start"
  BY DEF Yield
<1>2. read_log' \in Log /\ Len(read_log') = Len(read_log) + 1 /\ Len(read_log) \in Nat
  BY <1>1 DEF RateInv, Log
<1>3. WindowOf(read_log', timing')
  BY <1>1, PushKeepsWindow DEF RateInv
<1> QED
  BY <1>1, <1>2, <1>3 DEF RateInv

LEMMA DebugKeepsRate ==
    ASSUME RateInv, Debug
    PROVE  RateInv'
<1>1. /\ UNCHANGED <<clock, read_log, timing, conf>> /\ pc' # "start"
      /\ report'.reads = Len(read_log)
      /\ report'.fps = IF conf.source = "ipc" THEN GetFps(timing) ELSE GetAverageFps(timing)
  BY DEF Debug
<1>2. Len(read_log) \in Int
  BY DEF RateInv, Log
<1>3. Len(read_log) > 1 => report'.fps = RecentRate(conf.source, read_log)
  BY <1>1, WindowGivesRate DEF RateInv
<1> QED
  BY <1>1, <1>2, <1>3 DEF RateInv

(* Steps that neither read, nor print, nor configure.                      *)
LEMMA OthersKeepRate ==
    ASSUME RateInv, UNCHANGED <<read_log, timing, report>>, clock' \in Int,
           conf' = conf \/ Len(read_log) = 0, pc' # "start" \/ pc' = pc
    PROVE  RateInv'
BY DEF RateInv

(* The frame rate that is printed is that of the last reads: of the last   *)
(* two with an IPC source, of the last Window with a camera or a file      *)
(* (TimingStat, GetFps of the sources, run_server).                        *)
THEOREM RateIsRecent == Spec => []FrameRateIsRecent
<1>1. Init => RateInv
  <2> SUFFICES ASSUME Init
               PROVE  RateInv
    OBVIOUS
  <2>1. /\ clock = 0 /\ read_log = <<>> /\ timing = <<>> /\ report.reads = 0
    BY DEF Init, NoReport
  <2>2. <<>> \in Log /\ <<>> \in Seq(Int) /\ Len(<<>>) = 0
    BY DEF Log
  <2>3. Least(0, Window) = 0
    BY StatisticsAssumption DEF Least
  <2> QED
    BY <2>1, <2>2, <2>3 DEF RateInv, WindowOf
<1>2. RateInv /\ [Next]_vars => RateInv'
  <2> SUFFICES ASSUME RateInv, [Next]_vars
               PROVE  RateInv'
    OBVIOUS
  <2>1. FrameSizes \subseteq Int /\ 0 \in Int /\ Steps \subseteq Int /\ clock \in Int
    BY ServerAssumption DEF RateInv
  <2>2. CASE UNCHANGED vars
    BY <2>1, <2>2, OthersKeepRate DEF vars, stats
  <2>3. CASE Start
    BY <2>1, <2>3, OthersKeepRate DEF Start, stats, RateInv
  <2>4. CASE OpenIpcSource \/ ConfigStreamer
    BY <2>1, <2>4, OthersKeepRate DEF OpenIpcSource, ConfigStreamer, stats
  <2>5. CASE \E ok \in BOOLEAN : OpenCapture(ok)
    BY <2>1, <2>5, OthersKeepRate DEF OpenCapture, Throw, stats
  <2>6. CASE \E bound \in BOOLEAN : InitStreamer(bound)
    BY <2>1, <2>6, OthersKeepRate DEF InitStreamer, stats
  <2>7. CASE \E size \in FrameSizes \cup {0} : ReadCapture(size)
    BY <2>1, <2>7, YieldKeepsRate DEF ReadCapture
  <2>8. CASE ReceiveMessage
    <3>1. CASE Yield(0)
      BY <2>1, <3>1, YieldKeepsRate
    <3>2. CASE ~Yield(0)
      BY <2>1, <2>8, <3>2, OthersKeepRate DEF ReceiveMessage, Throw, stats
    <3> QED
      BY <3>1, <3>2
  <2>9. CASE LockSemaphore
    BY <2>1, <2>9, OthersKeepRate DEF LockSemaphore, Throw, stats
  <2>10. CASE \E size \in FrameSizes : CopyFrame(size)
    <3>1. PICK size \in FrameSizes : CopyFrame(size)
      BY <2>10
    <3>2. CASE Yield(size)
      BY <2>1, <3>2, YieldKeepsRate
    <3>3. CASE ~Yield(size)
      BY <2>1, <3>1, <3>3, OthersKeepRate DEF CopyFrame, Throw, stats
    <3> QED
      BY <3>2, <3>3
  <2>11. CASE SendPacket
    BY <2>1, <2>11, OthersKeepRate DEF SendPacket
  <2>12. CASE Debug
    BY <2>12, DebugKeepsRate
  <2>13. CASE \E d \in Steps : Tick(d)
    <3>1. clock' \in Int
      BY <2>1, <2>13 DEF Tick
    <3> QED
      BY <2>13, <3>1, OthersKeepRate DEF Tick, stats
  <2> QED
    BY <2>2, <2>3, <2>4, <2>5, <2>6, <2>7, <2>8, <2>9, <2>10, <2>11, <2>12, <2>13
       DEF Next, ServerStep
<1>3. RateInv => FrameRateIsRecent
  BY DEF RateInv, FrameRateIsRecent, JustPrinted, RecentRate
<1> QED
  BY <1>1, <1>2, <1>3, PTL DEF Spec
---------------------------------------------------------------------------
(* The sums of the events up to the i-th. *)
Sums(events) ==
    CHOOSE f : f = [i \in 0..Len(events) |->
                       IF i = 0 THEN 0 ELSE f[i - 1] + events[i].amount]

(* The recursive function of SumOf, and that it exists. *)
LEMMA SumOfSums == \A events : SumOf(events) = Sums(events)[Len(events)]
BY DEF SumOf, Sums

LEMMA SumsExist ==
    ASSUME NEW events \in Seq(Events)
    PROVE  /\ Sums(events) \in [0..Len(events) -> Nat]
           /\ Sums(events)[0] = 0
           /\ \A i \in 1..Len(events) :
                 Sums(events)[i] = Sums(events)[i - 1] + events[i].amount
<1> DEFINE n == Len(events)
           F == [i \in 1..n |-> [x \in Nat |-> x + events[i].amount]]
           body(f) == [i \in 0..n |-> IF i = 0 THEN 0 ELSE f[i - 1] + events[i].amount]
<1>1. n \in Nat /\ \A i \in 1..n : events[i].amount \in Nat
  <2>1. n \in Nat /\ \A i \in 1..n : events[i] \in Events
    BY LenProperties, ElementOfSeq
  <2> QED
    BY <2>1 DEF Events
<1>3. ASSUME NEW i \in 1..n, NEW x \in Nat
      PROVE  F[i][x] = x + events[i].amount /\ F[i][x] \in Nat
  <2>1. F[i] = [y \in Nat |-> y + events[i].amount]
    OBVIOUS
  <2>2. events[i].amount \in Nat
    BY <1>1
  <2> HIDE DEF F, n
  <2>3. F[i][x] = x + events[i].amount
    BY <2>1, Zenon
  <2> QED
    BY <2>2, <2>3
<1> HIDE DEF F, n
<1>4. PICK f : Unfolds(f, n, Nat, 0, F)
  BY <1>1, <1>3, Recursion
<1>5. f = body(f)
  <2>2. f = [i \in 0..n |-> f[i]]
    BY <1>4 DEF Unfolds
  <2>1. ASSUME NEW i \in 0..n
        PROVE  f[i] = IF i = 0 THEN 0 ELSE f[i - 1] + events[i].amount
    <3>1. CASE i = 0
      BY <3>1, <1>4 DEF Unfolds
    <3>2. CASE i # 0
      <4>1. i \in 1..n /\ i - 1 \in 0..n
        BY <3>2, <1>1
      <4>2. f[i] = F[i][f[i - 1]] /\ f[i - 1] \in Nat
        BY <4>1, <1>4 DEF Unfolds
      <4> QED
        BY <4>1, <4>2, <1>3, <3>2
    <3> QED
      BY <3>1, <3>2
  <2> QED
    BY <2>1, <2>2
<1>6. Sums(events) = body(Sums(events))
  BY <1>5 DEF Sums, n
<1> DEFINE g == Sums(events)
<1>7. /\ g[0] = 0
      /\ \A i \in 1..n : g[i] = g[i - 1] + events[i].amount
      /\ g = [i \in 0..n |-> g[i]]
  <2> HIDE DEF g
  <2>1. g = body(g)
    BY <1>6 DEF g
  <2>2. \A i \in 0..n : g[i] = IF i = 0 THEN 0 ELSE g[i - 1] + events[i].amount
    BY <2>1
  <2>3. g = [i \in 0..n |-> g[i]]
    BY <2>1, <2>2
  <2>4. 0 \in 0..n /\ \A i \in 1..n : i \in 0..n /\ i # 0
    BY <1>1
  <2> QED
    BY <2>2, <2>3, <2>4
<1> HIDE DEF g
<1>8. 0..n \subseteq {i \in 0..n : g[i] \in Nat}
  <2> DEFINE T == {i \in 0..n : g[i] \in Nat}
  <2>1. 0 \in T /\ \A i \in 1..n : i - 1 \in T => i \in T
    <3>1. 0 \in 0..n /\ g[0] \in Nat
      BY <1>1, <1>7
    <3>2. ASSUME NEW i \in 1..n, g[i - 1] \in Nat
          PROVE  i \in 0..n /\ g[i] \in Nat
      <4>1. i \in 0..n /\ events[i].amount \in Nat /\ g[i] = g[i - 1] + events[i].amount
        <5>1. n \in Nat /\ i \in 0..n
          BY <1>1
        <5> QED
          BY <1>1, <1>7, <5>1, Zenon
      <4> QED
        BY <4>1, <3>2
    <3> QED
      BY <3>1, <3>2
  <2> HIDE DEF T
  <2>2. 0..n \subseteq T
    BY <1>1, <2>1, UpTo
  <2> QED
    BY <2>2 DEF T
<1>9. g \in [0..n -> Nat]
  BY <1>7, <1>8
<1> QED
  BY <1>7, <1>9 DEF g, n

(* The recursion of SumOf determines its function, so any other function   *)
(* that obeys it gives the same sum.                                       *)
LEMMA SumsUnique ==
    ASSUME NEW events \in Seq(Events), NEW g, g[0] = 0,
           \A i \in 1..Len(events) : g[i] = g[i - 1] + events[i].amount
    PROVE  SumOf(events) = g[Len(events)]
<1> DEFINE n == Len(events)
           f == Sums(events)
           T == {i \in 0..n : g[i] = f[i]}
<1>1. /\ n \in Nat
      /\ f[0] = 0 /\ \A i \in 1..n : f[i] = f[i - 1] + events[i].amount
  BY SumsExist, LenProperties
<1>2. \A i \in 1..n : g[i] = g[i - 1] + events[i].amount
  OBVIOUS
<1> HIDE DEF n, f
<1>3. 0 \in T
  BY <1>1
<1>4. ASSUME NEW i \in 1..n, i - 1 \in T
      PROVE  i \in T
  <2>1. i \in 0..n
    BY <1>1
  <2>2. g[i - 1] = f[i - 1]
    BY <1>4
  <2>3. g[i] = f[i]
    BY <2>2, <1>1, <1>2, Zenon
  <2> QED
    BY <2>1, <2>3
<1> HIDE DEF T
<1>5. 0..n \subseteq T
  BY <1>1, <1>3, <1>4, UpTo
<1>6. n \in T
  BY <1>1, <1>5
<1> QED
  BY <1>6, SumOfSums DEF T, f, n

LEMMA SumType ==
    ASSUME NEW events \in Seq(Events)
    PROVE  SumOf(events) \in Nat
<1>1. Len(events) \in 0..Len(events)
  BY LenProperties
<1> QED
  BY <1>1, SumsExist, SumOfSums

(* What is left of a sequence of events after the first k. *)
Rest(events, k) == SubSeq(events, k + 1, Len(events))

(* The rest and the first of a sequence are sequences of events. *)
LEMMA RestProperties ==
    ASSUME NEW events \in Seq(Events), NEW k \in 0..Len(events)
    PROVE  /\ Rest(events, k) \in Seq(Events)
           /\ Len(Rest(events, k)) = Len(events) - k
           /\ \A i \in 1..(Len(events) - k) : Rest(events, k)[i] = events[k + i]
<1>1. Len(events) \in Nat /\ \A i \in 1..Len(events) : events[i] \in Events
  BY LenProperties, ElementOfSeq
<1> QED
  BY <1>1, SubSeqProperties DEF Rest

LEMMA FirstProperties ==
    ASSUME NEW events \in Seq(Events), NEW k \in 0..Len(events)
    PROVE  /\ SubSeq(events, 1, k) \in Seq(Events)
           /\ Len(SubSeq(events, 1, k)) = k
           /\ \A i \in 1..k : SubSeq(events, 1, k)[i] = events[i]
<1>1. Len(events) \in Nat /\ \A i \in 1..Len(events) : events[i] \in Events
  BY LenProperties, ElementOfSeq
<1> QED
  BY <1>1, SubSeqProperties

(* The sum of the first k and the sum of the rest. *)
LEMMA SumSplit ==
    ASSUME NEW events \in Seq(Events), NEW k \in 0..Len(events)
    PROVE  /\ SumOf(SubSeq(events, 1, k)) = Sums(events)[k]
           /\ SumOf(Rest(events, k)) = SumOf(events) - SumOf(SubSeq(events, 1, k))
<1> DEFINE n == Len(events)
           f == Sums(events)
           first == SubSeq(events, 1, k)
           rest == Rest(events, k)
           g == [i \in 0..(n - k) |-> f[k + i] - f[k]]
<1>1. /\ n \in Nat /\ k \in Nat /\ k <= n /\ f \in [0..n -> Nat]
      /\ f[0] = 0 /\ \A i \in 1..n : f[i] = f[i - 1] + events[i].amount
  BY SumsExist, LenProperties
<1>2. \A i \in 1..n : events[i].amount \in Nat
  <2>1. \A i \in 1..n : events[i] \in Events
    BY ElementOfSeq
  <2> QED
    BY <2>1 DEF Events
<1>3. /\ first \in Seq(Events) /\ Len(first) = k
      /\ \A i \in 1..k : first[i] = events[i]
  BY FirstProperties
<1>4. /\ rest \in Seq(Events) /\ Len(rest) = n - k
      /\ \A i \in 1..(n - k) : rest[i] = events[k + i]
  BY RestProperties
<1> HIDE DEF n, f, first, rest
<1>5. SumOf(first) = f[k]
  <2>1. \A i \in 1..Len(first) : f[i] = f[i - 1] + first[i].amount
    <3> SUFFICES ASSUME NEW i \in 1..k
                 PROVE  f[i] = f[i - 1] + first[i].amount
      BY <1>3
    <3>1. i \in 1..n
      BY <1>1
    <3> QED
      BY <3>1, <1>1, <1>3, Zenon
  <2> QED
    BY <2>1, <1>1, <1>3, SumsUnique
<1>6. SumOf(rest) = g[n - k]
  <2>1. g[0] = 0
    BY <1>1
  <2>2. \A i \in 1..Len(rest) : g[i] = g[i - 1] + rest[i].amount
    <3> SUFFICES ASSUME NEW i \in 1..(n - k)
                 PROVE  g[i] = g[i - 1] + rest[i].amount
      BY <1>4
    <3>1. k + i \in 1..n /\ k + i - 1 = k + (i - 1)
      BY <1>1
    <3>2. f[k + i] = f[k + (i - 1)] + events[k + i].amount
      BY <3>1, <1>1
    <3>3. i \in 0..(n - k) /\ i - 1 \in 0..(n - k)
      BY <1>1
    <3>4. g[i] = f[k + i] - f[k] /\ g[i - 1] = f[k + (i - 1)] - f[k]
      BY <3>3
    <3>5. f[k + (i - 1)] \in Nat /\ f[k] \in Nat /\ events[k + i].amount \in Nat
      BY <3>1, <1>1, <1>2
    <3>6. rest[i] = events[k + i]
      BY <1>4
    <3> HIDE DEF g
    <3> QED
      BY <3>2, <3>4, <3>5, <3>6
  <2> HIDE DEF g
  <2> QED
    BY <2>1, <2>2, <1>4, SumsUnique
<1>7. g[n - k] = f[n] - f[k]
  <2>1. n - k \in 0..(n - k) /\ k + (n - k) = n
    BY <1>1
  <2> QED
    BY <2>1
<1>8. SumOf(events) = f[n]
  BY SumOfSums DEF f, n
<1> QED
  BY <1>5, <1>6, <1>7, <1>8 DEF f, first, rest

(* One more event adds its amount. *)
LEMMA SumAppend ==
    ASSUME NEW events \in Seq(Events), NEW e \in Events
    PROVE  SumOf(Append(events, e)) = SumOf(events) + e.amount
<1> DEFINE n == Len(events)
           f == Sums(events)
           all == Append(events, e)
           g == [i \in 0..(n + 1) |-> IF i = n + 1 THEN f[n] + e.amount ELSE f[i]]
<1>1. /\ n \in Nat
      /\ f[0] = 0 /\ \A i \in 1..n : f[i] = f[i - 1] + events[i].amount
  BY SumsExist, LenProperties
<1>2. /\ all \in Seq(Events) /\ Len(all) = n + 1
      /\ \A i \in 1..n : all[i] = events[i]
      /\ all[n + 1] = e
  BY AppendProperties
<1>3. SumOf(events) = f[n]
  BY SumOfSums
<1> HIDE DEF n, f, all
<1>4. /\ \A i \in 0..n : g[i] = f[i]
      /\ g[n + 1] = f[n] + e.amount
  BY <1>1
<1> HIDE DEF g
<1>5. g[0] = 0
  BY <1>1, <1>4
<1>6. \A i \in 1..Len(all) : g[i] = g[i - 1] + all[i].amount
  <2> SUFFICES ASSUME NEW i \in 1..(n + 1)
               PROVE  g[i] = g[i - 1] + all[i].amount
    BY <1>2
  <2>1. CASE i = n + 1
    <3>1. n \in 0..n /\ i - 1 = n
      BY <2>1, <1>1
    <3> QED
      BY <2>1, <3>1, <1>2, <1>4, Zenon
  <2>2. CASE i # n + 1
    <3>1. i \in 1..n /\ i \in 0..n /\ i - 1 \in 0..n
      BY <2>2, <1>1
    <3> QED
      BY <3>1, <1>1, <1>2, <1>4, Zenon
  <2> QED
    BY <2>1, <2>2
<1>7. SumOf(all) = g[n + 1]
  BY <1>2, <1>5, <1>6, SumsUnique
<1> QED
  BY <1>3, <1>4, <1>7 DEF all

(* Rests of rests, and of a log that grows. *)
LEMMA RestOfRest ==
    ASSUME NEW events \in Seq(Events), NEW k \in 0..Len(events),
           NEW j \in 0..(Len(events) - k)
    PROVE  Rest(Rest(events, k), j) = Rest(events, k + j)
<1> DEFINE n == Len(events)
           rest == Rest(events, k)
<1>1. n \in Nat /\ k + j \in 0..n
  BY LenProperties
<1>2. /\ rest \in Seq(Events) /\ Len(rest) = n - k
      /\ \A i \in 1..(n - k) : rest[i] = events[k + i]
  BY RestProperties
<1>3. /\ Rest(events, k + j) \in Seq(Events) /\ Len(Rest(events, k + j)) = n - (k + j)
      /\ \A i \in 1..(n - (k + j)) : Rest(events, k + j)[i] = events[k + j + i]
  BY <1>1, RestProperties
<1> HIDE DEF n, rest
<1>4. /\ Rest(rest, j) \in Seq(Events) /\ Len(Rest(rest, j)) = (n - k) - j
      /\ \A i \in 1..((n - k) - j) : Rest(rest, j)[i] = rest[j + i]
  <2>1. j \in 0..Len(rest)
    BY <1>2 DEF n
  <2> QED
    BY <1>2, <2>1, RestProperties
<1>5. ASSUME NEW i \in 1..(n - (k + j))
      PROVE  Rest(rest, j)[i] = Rest(events, k + j)[i]
  <2>1. i \in 1..((n - k) - j) /\ j + i \in 1..(n - k) /\ k + (j + i) = k + j + i
    BY <1>1
  <2>2. Rest(rest, j)[i] = rest[j + i] /\ rest[j + i] = events[k + (j + i)]
    BY <2>1, <1>2, <1>4
  <2>3. Rest(events, k + j)[i] = events[k + j + i]
    BY <1>3
  <2> QED
    BY <2>1, <2>2, <2>3
<1>6. (n - k) - j = n - (k + j)
  BY <1>1
<1>7. Rest(rest, j) = Rest(events, k + j)
  BY <1>3, <1>4, <1>5, <1>6, SeqEqual
<1> QED
  BY <1>7 DEF rest

LEMMA RestOfAppend ==
    ASSUME NEW events \in Seq(Events), NEW k \in 0..Len(events), NEW e \in Events
    PROVE  Append(Rest(events, k), e) = Rest(Append(events, e), k)
<1> DEFINE n == Len(events)
           rest == Rest(events, k)
           all == Append(events, e)
<1>1. n \in Nat /\ k \in 0..(n + 1)
  BY LenProperties
<1>2. /\ rest \in Seq(Events) /\ Len(rest) = n - k
      /\ \A i \in 1..(n - k) : rest[i] = events[k + i]
  BY RestProperties
<1>3. /\ all \in Seq(Events) /\ Len(all) = n + 1
      /\ \A i \in 1..n : all[i] = events[i]
      /\ all[n + 1] = e
  BY AppendProperties
<1> HIDE DEF n, rest, all
<1>4. /\ Rest(all, k) \in Seq(Events) /\ Len(Rest(all, k)) = (n + 1) - k
      /\ \A i \in 1..((n + 1) - k) : Rest(all, k)[i] = all[k + i]
  <2>1. k \in 0..Len(all)
    BY <1>1, <1>3
  <2> QED
    BY <2>1, <1>3, RestProperties
<1>5. /\ Append(rest, e) \in Seq(Events) /\ Len(Append(rest, e)) = (n - k) + 1
      /\ \A i \in 1..(n - k) : Append(rest, e)[i] = rest[i]
      /\ Append(rest, e)[(n - k) + 1] = e
  BY <1>2, AppendProperties
<1>6. k \in Nat /\ k <= n /\ (n - k) + 1 = (n + 1) - k
  BY <1>1 DEF n
<1>7. ASSUME NEW i \in 1..((n + 1) - k)
      PROVE  Append(rest, e)[i] = Rest(all, k)[i]
  <2>1. Rest(all, k)[i] = all[k + i]
    BY <1>4
  <2>2. CASE i = (n + 1) - k
    <3>1. k + i = n + 1
      BY <2>2, <1>1, <1>6
    <3> QED
      BY <2>1, <2>2, <3>1, <1>3, <1>5, <1>6
  <2>3. CASE i # (n + 1) - k
    <3>1. i \in 1..(n - k) /\ k + i \in 1..n
      BY <2>3, <1>1, <1>6
    <3> QED
      BY <2>1, <3>1, <1>2, <1>3, <1>5
  <2> QED
    BY <2>2, <2>3
<1>8. Append(rest, e) = Rest(all, k)
  BY <1>4, <1>5, <1>6, <1>7, SeqEqual
<1> QED
  BY <1>8 DEF rest, all

(* A sequence without its old events, in the sums: what is old counts      *)
(* nothing, and the rest is all there is.                                  *)
LEMMA MaskedSum ==
    ASSUME NEW log \in Seq(Events), NEW k \in 0..Len(log),
           \A i \in 1..Len(log) : clock - log[i].stamp <= Interval <=> i > k
    PROVE  LastInterval(log) = SumOf(Rest(log, k))
<1> DEFINE n == Len(log)
           f == Sums(log)
           masked == [i \in 1..n |->
                         [log[i] EXCEPT !.amount = IF clock - log[i].stamp <= Interval
                                                   THEN @ ELSE 0]]
           g == [i \in 0..n |-> IF i <= k THEN 0 ELSE f[i] - f[k]]
<1>1. /\ n \in Nat /\ k \in Nat /\ k <= n /\ f \in [0..n -> Nat]
      /\ f[0] = 0 /\ \A i \in 1..n : f[i] = f[i - 1] + log[i].amount
  BY SumsExist, LenProperties
<1>2. \A i \in 1..n : log[i] \in Events /\ log[i].amount \in Nat
  <2>1. \A i \in 1..n : log[i] \in Events
    BY ElementOfSeq
  <2> QED
    BY <2>1 DEF Events
<1>3. SumOf(Rest(log, k)) = f[n] - f[k]
  BY SumSplit, SumOfSums
<1>4. \A i \in 1..n : clock - log[i].stamp <= Interval <=> i > k
  OBVIOUS
<1>5. LastInterval(log) = SumOf(masked)
  BY DEF LastInterval
<1> HIDE DEF n, f
<1>6. ASSUME NEW i \in 1..n
      PROVE  masked[i] \in Events /\ masked[i].amount = IF i > k THEN log[i].amount ELSE 0
  <2>1. masked[i] = [log[i] EXCEPT !.amount = IF clock - log[i].stamp <= Interval
                                              THEN log[i].amount ELSE 0]
    OBVIOUS
  <2>2. log[i] \in [amount : Nat, stamp : Nat]
    BY <1>2 DEF Events
  <2> HIDE DEF masked
  <2> DEFINE kept == IF clock - log[i].stamp <= Interval THEN log[i].amount ELSE 0
  <2>3. kept = IF i > k THEN log[i].amount ELSE 0
    BY <1>4
  <2>4. kept \in Nat
    BY <2>2
  <2> HIDE DEF kept
  <2>5. masked[i] = [log[i] EXCEPT !.amount = kept]
    BY <2>1 DEF kept
  <2>6. masked[i] \in Events /\ masked[i].amount = kept
    BY <2>2, <2>4, <2>5 DEF Events
  <2> QED
    BY <2>3, <2>6
<1>7. masked \in Seq(Events) /\ Len(masked) = n
  <2>1. masked = [i \in 1..n |-> masked[i]]
    OBVIOUS
  <2> HIDE DEF masked
  <2> QED
    BY <2>1, <1>1, <1>6
<1> HIDE DEF masked
<1>8. g[0] = 0 /\ g[n] = f[n] - f[k]
  BY <1>1
<1>9. ASSUME NEW i \in 1..n
      PROVE  g[i] = g[i - 1] + masked[i].amount
  <2>1. i \in 0..n /\ i - 1 \in 0..n
    BY <1>1
  <2>2. /\ g[i] = IF i <= k THEN 0 ELSE f[i] - f[k]
        /\ g[i - 1] = IF i - 1 <= k THEN 0 ELSE f[i - 1] - f[k]
    BY <2>1
  <2>3. /\ f[i] = f[i - 1] + log[i].amount
        /\ f[i] \in Nat /\ f[i - 1] \in Nat /\ f[k] \in Nat /\ log[i].amount \in Nat
    <3> HIDE DEF g
    <3>1. k \in 0..n
      BY <1>1
    <3>2. f[i] \in Nat /\ f[i - 1] \in Nat /\ f[k] \in Nat
      BY <2>1, <3>1, <1>1
    <3>3. f[i] = f[i - 1] + log[i].amount
      BY <1>1
    <3> QED
      BY <3>2, <3>3, <1>2
  <2>4. masked[i].amount = IF i > k THEN log[i].amount ELSE 0
    BY <1>6
  <2> HIDE DEF g
  <2>5. CASE i <= k
    BY <2>2, <2>4, <2>5, <1>1
  <2>6. CASE i = k + 1
    <3>1. g[i - 1] = 0 /\ i - 1 = k /\ i > k /\ ~(i <= k)
      BY <2>2, <2>6, <1>1
    <3>2. g[i] = f[i] - f[k] /\ f[i] = f[k] + log[i].amount
      BY <2>2, <2>3, <3>1
    <3> QED
      BY <2>3, <2>4, <3>1, <3>2
  <2>7. CASE i > k + 1
    <3>1. ~(i <= k) /\ ~(i - 1 <= k) /\ i > k
      BY <2>7, <1>1
    <3> QED
      BY <2>2, <2>3, <2>4, <3>1
  <2> QED
    BY <2>5, <2>6, <2>7, <1>1
<1> HIDE DEF g
<1>10. SumOf(masked) = g[n]
  BY <1>7, <1>8, <1>9, SumsUnique
<1> QED
  BY <1>3, <1>5, <1>8, <1>10

(* usecs_to_tail is right for whatever is younger than half the range of   *)
(* an int.                                                                 *)
LEMMA AgeExact ==
    ASSUME NEW event \in Events, NEW now \in Nat,
           event.stamp <= now, now - event.stamp < IntRange \div 2
    PROVE  Age(event, now) = now - event.stamp
<1> DEFINE d == now - event.stamp
<1>1. d \in Nat /\ IntRange \in Nat \ {0} /\ IntRange \div 2 \in Nat
      /\ IntRange \div 2 < IntRange
  BY StatisticsAssumption DEF Events
<1>2. d < IntRange \div 2
  OBVIOUS
<1>3. Age(event, now) = IF d % IntRange < IntRange \div 2
                        THEN d % IntRange ELSE (d % IntRange) - IntRange
  BY DEF Age
<1> HIDE DEF d
<1>4. d % IntRange = d
  BY <1>1, <1>2, SmallResidue
<1>5. Age(event, now) = d
  BY <1>2, <1>3, <1>4
<1> QED
  BY <1>5 DEF d

(* The loop of check_fifo stops at the first event that is young enough,   *)
(* or at the end.                                                          *)
LEMMA OutdatedExact ==
    ASSUME NEW events \in Seq(Events), NEW now \in Nat
    PROVE  LET m == Outdated(events, now)
           IN /\ m \in 0..Len(events)
              /\ \A i \in 1..m : ~(Age(events[i], now) <= Interval)
              /\ m = Len(events) \/ Age(events[m + 1], now) <= Interval
<1> DEFINE n == Len(events)
           T == {i \in 0..n : i = n \/ Age(events[i + 1], now) <= Interval}
           m == Outdated(events, now)
<1>1. n \in Nat
  BY LenProperties
<1>2. m = CHOOSE x \in T : \A y \in T : x <= y
  BY DEF Outdated, Min
<1> HIDE DEF m, n
<1>3. T \in SUBSET Nat /\ n \in T
  BY <1>1
<1>4. \E x \in T : \A y \in T : x <= y
  BY <1>3, Smallest
<1> HIDE DEF T
<1>5. m \in T /\ \A y \in T : m <= y
  BY <1>2, <1>4
<1>6. m \in 0..n /\ (m = n \/ Age(events[m + 1], now) <= Interval)
  BY <1>5 DEF T
<1>7. ASSUME NEW i \in 1..m
      PROVE  ~(Age(events[i], now) <= Interval)
  <2>1. i - 1 \in 0..n /\ ~(m <= i - 1) /\ (i - 1) + 1 = i
    BY <1>1, <1>6
  <2>2. i - 1 \notin T
    BY <1>5, <2>1
  <2> QED
    BY <2>1, <2>2 DEF T
<1> QED
  BY <1>6, <1>7 DEF m, n

(* What a TrafficStat holds of a log: all but the first k, and their sum.  *)
Holds(stat, log, k) ==
    stat.events = Rest(log, k) /\ stat.accumulator = SumOf(Rest(log, k))

(* check_fifo drops the old ones at the front, and the accumulator keeps   *)
(* step.                                                                   *)
LEMMA CheckFifoDrops ==
    ASSUME NEW log \in Seq(Events), NEW k \in 0..Len(log), NEW now \in Nat,
           NEW stat, Holds(stat, log, k)
    PROVE  \E j \in k..Len(log) :
              /\ Holds(CheckFifo(stat, now), log, j)
              /\ \A i \in (k + 1)..j : ~(Age(log[i], now) <= Interval)
              /\ j = Len(log) \/ Age(log[j + 1], now) <= Interval
<1> DEFINE n == Len(log)
           rest == Rest(log, k)
           m == Outdated(rest, now)
           j == k + m
           new == CheckFifo(stat, now)
<1>1. n \in Nat /\ k \in Nat /\ k <= n
  BY LenProperties
<1>2. /\ rest \in Seq(Events) /\ Len(rest) = n - k
      /\ \A i \in 1..(n - k) : rest[i] = log[k + i]
  BY RestProperties
<1>3. stat.events = rest /\ stat.accumulator = SumOf(rest)
  BY DEF Holds
<1>4. /\ m \in 0..(n - k)
      /\ \A i \in 1..m : ~(Age(rest[i], now) <= Interval)
      /\ m = n - k \/ Age(rest[m + 1], now) <= Interval
  BY <1>2, OutdatedExact
<1>5. /\ new.events = Rest(rest, m)
      /\ new.accumulator = SumOf(rest) - SumOf(SubSeq(rest, 1, m))
  BY <1>3 DEF CheckFifo, Rest
<1>6. SumOf(Rest(rest, m)) = SumOf(rest) - SumOf(SubSeq(rest, 1, m))
  <2>1. m \in 0..Len(rest)
    BY <1>2, <1>4
  <2> QED
    BY <2>1, <1>2, SumSplit
<1>7. Rest(rest, m) = Rest(log, j)
  BY <1>4, RestOfRest
<1>8. Holds(new, log, j)
  BY <1>5, <1>6, <1>7 DEF Holds
<1> HIDE DEF n, rest, m, new
<1>9. j \in k..n
  BY <1>1, <1>4
<1>10. ASSUME NEW i \in (k + 1)..j
       PROVE  ~(Age(log[i], now) <= Interval)
  <2>1. i - k \in 1..m /\ i - k \in 1..(n - k) /\ k + (i - k) = i
    BY <1>1, <1>4
  <2> QED
    BY <2>1, <1>2, <1>4
<1>11. j = n \/ Age(log[j + 1], now) <= Interval
  <2>1. CASE m = n - k
    BY <2>1, <1>1, <1>4
  <2>2. CASE m # n - k
    <3>1. m + 1 \in 1..(n - k) /\ k + (m + 1) = j + 1
      BY <2>2, <1>1, <1>4
    <3> QED
      BY <2>2, <3>1, <1>2, <1>4
  <2> QED
    BY <2>1, <2>2
<1> HIDE DEF j
<1> QED
  BY <1>8, <1>9, <1>10, <1>11 DEF n, new
---------------------------------------------------------------------------
(* The clock never goes back. *)
Sorted(log, now) ==
    /\ log \in Seq(Events)
    /\ \A i, j \in 1..Len(log) : i <= j => log[i].stamp <= log[j].stamp
    /\ \A i \in 1..Len(log) : log[i].stamp <= now

(* NoLongPause at a given time. *)
Busy(log, now) ==
    \A i \in 1..Len(log) :
        (IF i < Len(log) THEN log[i + 1].stamp ELSE now) - log[i].stamp
            < IntRange \div 2 - Interval

(* The first k are old, and the age of the others can be read. *)
Readable(log, k, now) ==
    Busy(log, now) =>
        /\ \A i \in 1..k : now - log[i].stamp > Interval
        /\ \A i \in (k + 1)..Len(log) : now - log[i].stamp < IntRange \div 2

(* The first k are old, and the others were young when the last came. *)
Tended(log, k, now) ==
    Busy(log, now) =>
        /\ \A i \in 1..k : now - log[i].stamp > Interval
        /\ \A i \in (k + 1)..Len(log) : log[Len(log)].stamp - log[i].stamp <= Interval

(* Exactly the last second. *)
Exact(log, k, now) ==
    Busy(log, now) => \A i \in 1..Len(log) : now - log[i].stamp <= Interval <=> i > k

LEMMA Stamps ==
    ASSUME NEW log \in Seq(Events)
    PROVE  Len(log) \in Nat /\ \A i \in 1..Len(log) : log[i] \in Events /\ log[i].stamp \in Nat
<1>1. \A i \in 1..Len(log) : log[i] \in Events
  BY ElementOfSeq
<1> QED
  BY <1>1, LenProperties DEF Events

LEMMA HalfRange ==
    /\ Interval \in Nat /\ IntRange \div 2 \in Nat /\ Interval < IntRange \div 2
BY StatisticsAssumption

(* Whatever was young at the last event can be read until the next. *)
LEMMA TendedIsReadable ==
    ASSUME NEW now \in Nat, NEW log, Sorted(log, now), NEW k \in 0..Len(log),
           Tended(log, k, now)
    PROVE  Readable(log, k, now)
<1> SUFFICES ASSUME Busy(log, now), NEW i \in (k + 1)..Len(log)
             PROVE  now - log[i].stamp < IntRange \div 2
  BY DEF Readable, Tended
<1>1. /\ Len(log) \in Nat /\ Len(log) \in 1..Len(log) /\ i \in 1..Len(log)
      /\ log[i].stamp \in Nat /\ log[Len(log)].stamp \in Nat
  BY Stamps DEF Sorted
<1>2. log[Len(log)].stamp - log[i].stamp <= Interval
  BY DEF Tended
<1>3. now - log[Len(log)].stamp < IntRange \div 2 - Interval
  <2>1. ~(Len(log) < Len(log))
    BY <1>1
  <2> QED
    BY <1>1, <2>1, Zenon DEF Busy
<1> QED
  BY <1>1, <1>2, <1>3, HalfRange

(* Time passes. *)
LEMMA TickTends ==
    ASSUME NEW now \in Nat, NEW later \in Nat, now <= later,
           NEW log, Sorted(log, now), NEW k \in 0..Len(log), Tended(log, k, now)
    PROVE  Sorted(log, later) /\ Tended(log, k, later)
<1>1. Len(log) \in Nat /\ \A i \in 1..Len(log) : log[i].stamp \in Nat
  BY Stamps DEF Sorted
<1>2. Sorted(log, later)
  <2>1. \A i \in 1..Len(log) : log[i].stamp <= later
    BY <1>1 DEF Sorted
  <2> QED
    BY <2>1 DEF Sorted
<1>3. Busy(log, later) => Busy(log, now)
  <2> SUFFICES ASSUME Busy(log, later), NEW i \in 1..Len(log)
               PROVE  (IF i < Len(log) THEN log[i + 1].stamp ELSE now) - log[i].stamp
                          < IntRange \div 2 - Interval
    BY DEF Busy
  <2>1. (IF i < Len(log) THEN log[i + 1].stamp ELSE later) - log[i].stamp
            < IntRange \div 2 - Interval
    BY DEF Busy
  <2>2. log[i].stamp \in Nat
    BY <1>1
  <2> QED
    BY <2>1, <2>2, HalfRange
<1>4. ASSUME Busy(log, later), NEW i \in 1..k
      PROVE  later - log[i].stamp > Interval
  <2>1. i \in 1..Len(log)
    BY <1>1
  <2>2. log[i].stamp \in Nat /\ now - log[i].stamp > Interval
    BY <1>1, <1>3, <1>4, <2>1 DEF Tended
  <2> QED
    BY <2>2, HalfRange
<1> QED
  BY <1>2, <1>3, <1>4 DEF Tended

(* Something is added to the log. *)
LEMMA AppendIsReadable ==
    ASSUME NEW now \in Nat, NEW log, Sorted(log, now), NEW k \in 0..Len(log),
           Tended(log, k, now), NEW e \in Events, e.stamp = now
    PROVE  Sorted(Append(log, e), now) /\ Readable(Append(log, e), k, now)
<1> DEFINE n == Len(log)
           new == Append(log, e)
<1>1. /\ log \in Seq(Events) /\ n \in Nat
      /\ \A i \in 1..n : log[i].stamp \in Nat /\ log[i].stamp <= now
      /\ \A i, j \in 1..n : i <= j => log[i].stamp <= log[j].stamp
  BY Stamps DEF Sorted
<1>2. /\ new \in Seq(Events) /\ Len(new) = n + 1
      /\ \A i \in 1..n : new[i] = log[i]
      /\ new[n + 1] = e
  BY <1>1, AppendProperties
<1>3. Readable(log, k, now)
  BY TendedIsReadable
<1> HIDE DEF n, new
<1>4. Sorted(new, now)
  <2>1. \A i \in 1..(n + 1) : i # n + 1 => i \in 1..n
    BY <1>1
  <2>2. ASSUME NEW i \in 1..(n + 1)
        PROVE  new[i].stamp <= now
    <3>1. CASE i = n + 1
      BY <3>1, <1>2
    <3>2. CASE i # n + 1
      BY <3>2, <2>1, <1>1, <1>2
    <3> QED
      BY <3>1, <3>2
  <2>3. ASSUME NEW i \in 1..(n + 1), NEW j \in 1..(n + 1), i <= j
        PROVE  new[i].stamp <= new[j].stamp
    <3>1. CASE j = n + 1
      BY <3>1, <2>2, <1>2
    <3>2. CASE j # n + 1
      <4>1. j \in 1..n /\ i \in 1..n
        BY <3>2, <2>3, <1>1
      <4> QED
        BY <4>1, <2>3, <1>1, <1>2
    <3> QED
      BY <3>1, <3>2
  <2> QED
    BY <2>2, <2>3, <1>2 DEF Sorted
<1>5. Busy(new, now) => Busy(log, now)
  <2> SUFFICES ASSUME Busy(new, now), NEW i \in 1..n
               PROVE  (IF i < n THEN log[i + 1].stamp ELSE now) - log[i].stamp
                          < IntRange \div 2 - Interval
    BY DEF Busy, n
  <2>1. i \in 1..(n + 1) /\ i < n + 1
    BY <1>1
  <2>2. new[i + 1].stamp - log[i].stamp < IntRange \div 2 - Interval
    BY <2>1, <1>2 DEF Busy
  <2>3. CASE i < n
    <3>1. i + 1 \in 1..n
      BY <2>3, <1>1
    <3> QED
      BY <2>2, <2>3, <3>1, <1>2
  <2>4. CASE ~(i < n)
    <3>1. i + 1 = n + 1
      BY <2>4, <1>1
    <3> QED
      BY <2>2, <2>4, <3>1, <1>2
  <2> QED
    BY <2>3, <2>4
<1>6. ASSUME Busy(new, now), NEW i \in 1..k
      PROVE  now - new[i].stamp > Interval
  <2>1. i \in 1..n
    BY <1>1 DEF n
  <2> QED
    BY <1>2, <1>3, <1>5, <1>6, <2>1 DEF Readable
<1>7. ASSUME Busy(new, now), NEW i \in (k + 1)..(n + 1)
      PROVE  now - new[i].stamp < IntRange \div 2
  <2>1. CASE i = n + 1
    BY <2>1, <1>2, HalfRange
  <2>2. CASE i # n + 1
    <3>1. i \in (k + 1)..n /\ i \in 1..n
      BY <2>2, <1>1 DEF n
    <3>2. now - log[i].stamp < IntRange \div 2
      BY <3>1, <1>3, <1>5, <1>7 DEF Readable, n
    <3> QED
      BY <3>1, <3>2, <1>2
  <2> QED
    BY <2>1, <2>2
<1>8. Readable(new, k, now)
  BY <1>2, <1>6, <1>7 DEF Readable
<1> QED
  BY <1>4, <1>8 DEF new

(* check_fifo makes a readable window exact. *)
LEMMA CheckFifoTends ==
    ASSUME NEW now \in Nat, NEW log, Sorted(log, now), NEW k \in 0..Len(log),
           Readable(log, k, now), NEW stat, Holds(stat, log, k)
    PROVE  \E j \in 0..Len(log) :
              /\ Holds(CheckFifo(stat, now), log, j)
              /\ Tended(log, j, now)
              /\ Exact(log, j, now)
<1> DEFINE n == Len(log)
<1>1. /\ log \in Seq(Events) /\ n \in Nat
      /\ \A i \in 1..n : log[i] \in Events /\ log[i].stamp \in Nat /\ log[i].stamp <= now
      /\ \A i, j \in 1..n : i <= j => log[i].stamp <= log[j].stamp
  BY Stamps DEF Sorted
<1>2. PICK j \in k..n :
              /\ Holds(CheckFifo(stat, now), log, j)
              /\ \A i \in (k + 1)..j : ~(Age(log[i], now) <= Interval)
              /\ j = n \/ Age(log[j + 1], now) <= Interval
  BY <1>1, CheckFifoDrops
<1>3. j \in 0..n /\ k \in Nat /\ k <= n
  BY <1>1
<1> HIDE DEF n
<1>4. Busy(log, now) => \A i \in (k + 1)..n : Age(log[i], now) = now - log[i].stamp
  <2> SUFFICES ASSUME Busy(log, now), NEW i \in (k + 1)..n
               PROVE  Age(log[i], now) = now - log[i].stamp
    OBVIOUS
  <2>1. i \in 1..n
    BY <1>3
  <2>2. now - log[i].stamp < IntRange \div 2
    BY DEF Readable, n
  <2> QED
    BY <2>1, <2>2, <1>1, AgeExact
<1>5. ASSUME Busy(log, now), NEW i \in 1..j
      PROVE  now - log[i].stamp > Interval
  <2>1. i \in 1..n
    BY <1>3, <1>1
  <2>2. CASE i <= k
    <3>1. i \in 1..k
      BY <2>2, <1>3
    <3> QED
      BY <3>1, <1>5 DEF Readable
  <2>3. CASE ~(i <= k)
    <3>1. i \in (k + 1)..j /\ i \in (k + 1)..n
      BY <2>3, <1>3, <1>1
    <3>2. ~(now - log[i].stamp <= Interval)
      BY <3>1, <1>2, <1>4, <1>5, Zenon
    <3> QED
      BY <3>2, <2>1, <1>1, HalfRange
  <2> QED
    BY <2>2, <2>3
<1>6. ASSUME Busy(log, now), NEW i \in (j + 1)..n
      PROVE  now - log[i].stamp <= Interval
  <2>1. /\ i \in 1..n /\ j + 1 \in 1..n /\ j + 1 <= i /\ j # n
        /\ j + 1 \in (k + 1)..n
    BY <1>1, <1>3
  <2>2. now - log[j + 1].stamp <= Interval
    BY <2>1, <1>2, <1>4, <1>6
  <2>3. log[j + 1].stamp <= log[i].stamp
    BY <2>1, <1>1
  <2> QED
    BY <2>1, <2>2, <2>3, <1>1, HalfRange
<1>7. Tended(log, j, now)
  <2>1. ASSUME Busy(log, now), NEW i \in (j + 1)..n
        PROVE  log[n].stamp - log[i].stamp <= Interval
    <3>1. i \in 1..n /\ n \in 1..n
      BY <1>1, <1>3
    <3>2. now - log[i].stamp <= Interval
      BY <1>6, <2>1
    <3> QED
      BY <3>1, <3>2, <1>1, HalfRange
  <2> QED
    BY <2>1, <1>5 DEF Tended, n
<1>8. Exact(log, j, now)
  <2> SUFFICES ASSUME Busy(log, now), NEW i \in 1..n
               PROVE  now - log[i].stamp <= Interval <=> i > j
    BY DEF Exact, n
  <2>1. CASE i > j
    <3>1. i \in (j + 1)..n
      BY <2>1, <1>1, <1>3
    <3> QED
      BY <3>1, <2>1, <1>6
  <2>2. CASE ~(i > j)
    <3>1. i \in 1..j
      BY <2>2, <1>1, <1>3
    <3>2. now - log[i].stamp > Interval
      BY <3>1, <1>5
    <3> QED
      BY <3>2, <2>2, <1>1, HalfRange
  <2> QED
    BY <2>1, <2>2
<1> QED
  BY <1>2, <1>3, <1>7, <1>8 DEF n

(* What the invariant says of a TrafficStat and of its log. *)
Counts(stat, log, now) ==
    /\ stat \in Traffics
    /\ Sorted(log, now)
    /\ \E k \in 0..Len(log) : Holds(stat, log, k) /\ Tended(log, k, now)

LEMMA CheckFifoType ==
    ASSUME NEW log \in Seq(Events), NEW k \in 0..Len(log), NEW stat, NEW now,
           Holds(CheckFifo(stat, now), log, k)
    PROVE  CheckFifo(stat, now) \in Traffics
<1> DEFINE new == CheckFifo(stat, now)
<1>1. new = [events |-> new.events, accumulator |-> new.accumulator]
  BY DEF CheckFifo
<1>2. new.events \in Seq(Events) /\ new.accumulator \in Nat
  BY RestProperties, SumType DEF Holds
<1> HIDE DEF new
<1>3. new \in Traffics
  BY <1>1, <1>2 DEF Traffics
<1> QED
  BY <1>3 DEF new

(* AddTransaction keeps step with the log that is longer by one. *)
LEMMA AddTransactionCounts ==
    ASSUME NEW now \in Nat, NEW log, NEW stat, Counts(stat, log, now), NEW bytes \in Nat
    PROVE  Counts(AddTransaction(stat, bytes, now),
                  Append(log, [amount |-> bytes, stamp |-> now]), now)
<1> DEFINE e == [amount |-> bytes, stamp |-> now]
           new == Append(log, e)
           more == [events      |-> Append(stat.events, e),
                    accumulator |-> stat.accumulator + bytes]
<1>1. PICK k \in 0..Len(log) : Holds(stat, log, k) /\ Tended(log, k, now)
  BY DEF Counts
<1>2. e \in Events /\ e.stamp = now /\ e.amount = bytes
  BY DEF Events
<1>3. log \in Seq(Events) /\ Sorted(log, now)
  BY DEF Counts, Sorted
<1>4. more.events = Append(stat.events, e) /\ more.accumulator = stat.accumulator + bytes
  OBVIOUS
<1>5. AddTransaction(stat, bytes, now) = CheckFifo(more, now)
  BY DEF AddTransaction
<1> HIDE DEF e, more
<1>6. Sorted(new, now) /\ Readable(new, k, now)
  BY <1>1, <1>2, <1>3, AppendIsReadable
<1>7. k \in 0..Len(new)
  <2>1. Len(log) \in Nat /\ Len(new) = Len(log) + 1
    BY <1>2, <1>3, AppendProperties, LenProperties
  <2> QED
    BY <2>1
<1>8. Holds(more, new, k)
  <2>1. Append(Rest(log, k), e) = Rest(new, k)
    BY <1>2, <1>3, RestOfAppend
  <2>2. SumOf(Append(Rest(log, k), e)) = SumOf(Rest(log, k)) + bytes
    <3>1. Rest(log, k) \in Seq(Events)
      BY <1>3, RestProperties
    <3> QED
      BY <3>1, <1>2, SumAppend
  <2> QED
    BY <1>1, <1>4, <2>1, <2>2 DEF Holds
<1> HIDE DEF new
<1>9. PICK j \in 0..Len(new) : Holds(CheckFifo(more, now), new, j) /\ Tended(new, j, now)
  BY <1>6, <1>7, <1>8, CheckFifoTends
<1>10. CheckFifo(more, now) \in Traffics
  BY <1>6, <1>9, CheckFifoType DEF Sorted
<1> QED
  BY <1>5, <1>6, <1>9, <1>10 DEF Counts, new, e

(* What GetTrafficSpeed shows is the last second. *)
LEMMA CheckFifoCounts ==
    ASSUME clock \in Nat, NEW log, NEW stat, Counts(stat, log, clock)
    PROVE  /\ Counts(CheckFifo(stat, clock), log, clock)
           /\ NoLongPause(log) => CheckFifo(stat, clock).accumulator = LastInterval(log)
<1>1. PICK k \in 0..Len(log) : Holds(stat, log, k) /\ Tended(log, k, clock)
  BY DEF Counts
<1>2. Sorted(log, clock) /\ Readable(log, k, clock) /\ log \in Seq(Events)
  BY <1>1, TendedIsReadable DEF Counts, Sorted
<1>3. PICK j \in 0..Len(log) :
              /\ Holds(CheckFifo(stat, clock), log, j)
              /\ Tended(log, j, clock)
              /\ Exact(log, j, clock)
  BY <1>1, <1>2, CheckFifoTends
<1>4. ASSUME NoLongPause(log)
      PROVE  CheckFifo(stat, clock).accumulator = LastInterval(log)
  <2>1. \A i \in 1..Len(log) : clock - log[i].stamp <= Interval <=> i > j
    BY <1>3, <1>4 DEF Exact, Busy, NoLongPause
  <2>2. LastInterval(log) = SumOf(Rest(log, j))
    BY <1>2, <2>1, MaskedSum
  <2> QED
    BY <1>3, <2>2 DEF Holds
<1>5. CheckFifo(stat, clock) \in Traffics
  BY <1>2, <1>3, CheckFifoType
<1> QED
  BY <1>2, <1>3, <1>4, <1>5 DEF Counts

LEMMA TickCounts ==
    ASSUME NEW now \in Nat, NEW later \in Nat, now <= later,
           NEW log, NEW stat, Counts(stat, log, now)
    PROVE  Counts(stat, log, later)
<1>1. PICK k \in 0..Len(log) : Holds(stat, log, k) /\ Tended(log, k, now)
  BY DEF Counts
<1> QED
  BY <1>1, TickTends DEF Counts
---------------------------------------------------------------------------
(* Options by key, as the map _data holds them. *)
Maps == UNION {[D -> Values] : D \in SUBSET STRING}

(* _data[key] = val changes the value at one key. *)
LEMMA StoreExact ==
    ASSUME NEW data \in Maps, NEW word \in Words
    PROVE  /\ Store(data, word) \in Maps
           /\ ~IsOption(word) => Store(data, word) = data
           /\ IsOption(word) =>
                 /\ DOMAIN Store(data, word) = DOMAIN data \cup {word.key}
                 /\ Store(data, word)[word.key] = word.val
                 /\ \A key \in DOMAIN data \ {word.key} :
                       Store(data, word)[key] = data[key]
<1>1. word.key \in STRING /\ word.val \in Values
  BY DEF Words
<1>2. PICK D \in SUBSET STRING : data \in [D -> Values]
  BY DEF Maps
<1> DEFINE new == Stored(data, word)
<1>3. new = [x \in D \cup {word.key} |-> IF x = word.key THEN word.val ELSE data[x]]
  BY <1>2 DEF Stored
<1>4. new \in [D \cup {word.key} -> Values]
  BY <1>1, <1>2, <1>3
<1>5. new \in Maps
  BY <1>1, <1>4 DEF Maps
<1> QED
  BY <1>2, <1>3, <1>5 DEF Store

(* The recursive function of FlattenSeq, and that it exists. *)
Flattens(seqs) ==
    CHOOSE f : f = [i \in 1..Len(seqs) |-> IF i = 1 THEN seqs[i] ELSE f[i - 1] \o seqs[i]]

LEMMA FlattenSeqFlattens ==
    \A seqs : FlattenSeq(seqs) = IF Len(seqs) = 0 THEN seqs ELSE Flattens(seqs)[Len(seqs)]
BY DEF FlattenSeq, Flattens

LEMMA FlattensExist ==
    ASSUME NEW S, NEW seqs \in Seq(Seq(S)), Len(seqs) # 0
    PROVE  /\ Flattens(seqs)[1] = seqs[1]
           /\ \A i \in 2..Len(seqs) : Flattens(seqs)[i] = Flattens(seqs)[i - 1] \o seqs[i]
<1> DEFINE n == Len(seqs)
           F == [i \in 1..n |-> [x \in Seq(S) |-> x \o seqs[i]]]
           body(f) == [i \in 1..n |-> IF i = 1 THEN seqs[i] ELSE f[i - 1] \o seqs[i]]
<1>1. n \in Nat \ {0} /\ \A i \in 1..n : seqs[i] \in Seq(S)
  BY LenProperties, ElementOfSeq
<1>2. ASSUME NEW i \in 1..n, NEW x \in Seq(S)
      PROVE  F[i][x] = x \o seqs[i] /\ F[i][x] \in Seq(S)
  <2>1. x \o seqs[i] \in Seq(S)
    BY <1>1, ConcatProperties
  <2>2. F[i] = [y \in Seq(S) |-> y \o seqs[i]]
    OBVIOUS
  <2> HIDE DEF F, n
  <2>3. F[i][x] = x \o seqs[i]
    BY <2>2, Zenon
  <2> QED
    BY <2>1, <2>3
<1> HIDE DEF F, n
<1>3. <<>> \in Seq(S)
  OBVIOUS
<1>4. PICK f : Unfolds(f, n, Seq(S), <<>>, F)
  BY <1>1, <1>2, <1>3, Recursion
<1> DEFINE h == [i \in 1..n |-> f[i]]
<1>5. h = body(h)
  <2>1. ASSUME NEW i \in 1..n
        PROVE  f[i] = IF i = 1 THEN seqs[i] ELSE h[i - 1] \o seqs[i]
    <3>1. i - 1 \in 0..n /\ f[i] = F[i][f[i - 1]] /\ f[i - 1] \in Seq(S)
      BY <1>1, <1>4 DEF Unfolds
    <3>2. f[i] = f[i - 1] \o seqs[i]
      BY <3>1, <1>2
    <3>3. CASE i = 1
      <4>1. f[i - 1] = <<>>
        BY <3>3, <1>4 DEF Unfolds
      <4>2. <<>> \o seqs[i] = seqs[i]
        BY <1>1, ConcatEmptySeq
      <4> QED
        BY <3>2, <3>3, <4>1, <4>2
    <3>4. CASE i # 1
      <4>1. i - 1 \in 1..n
        BY <3>4, <1>1
      <4>2. h[i - 1] = f[i - 1]
        BY <4>1
      <4> HIDE DEF h
      <4> QED
        BY <3>2, <3>4, <4>2
    <3> QED
      BY <3>3, <3>4
  <2> QED
    BY <2>1
<1> HIDE DEF h
<1>6. Flattens(seqs) = body(Flattens(seqs))
  BY <1>5 DEF Flattens, n
<1> DEFINE g == Flattens(seqs)
<1> HIDE DEF g
<1>7. \A i \in 1..n : g[i] = IF i = 1 THEN seqs[i] ELSE g[i - 1] \o seqs[i]
  <2>1. g = body(g)
    BY <1>6 DEF g
  <2> QED
    BY <2>1
<1>8. 1 \in 1..n /\ \A i \in 2..n : i \in 1..n /\ i # 1
  BY <1>1
<1> QED
  BY <1>7, <1>8 DEF g, n

(* The words of a command line; one for each argument if there are no      *)
(* blanks.                                                                 *)
LEMMA FlattenSeqExact ==
    ASSUME NEW S, NEW seqs \in Seq(Seq(S))
    PROVE  /\ FlattenSeq(seqs) \in Seq(S)
           /\ (\A i \in 1..Len(seqs) : Len(seqs[i]) = 1) =>
                 /\ Len(FlattenSeq(seqs)) = Len(seqs)
                 /\ \A i \in 1..Len(seqs) : FlattenSeq(seqs)[i] = seqs[i][1]
<1> DEFINE n == Len(seqs)
           g == Flattens(seqs)
           single == \A i \in 1..n : Len(seqs[i]) = 1
<1>1. n \in Nat /\ \A i \in 1..n : seqs[i] \in Seq(S)
  BY LenProperties, ElementOfSeq
<1>2. CASE n = 0
  <2>1. FlattenSeq(seqs) = seqs /\ seqs = <<>>
    BY <1>2, FlattenSeqFlattens, EmptySeq
  <2> QED
    BY <1>2, <2>1
<1>3. CASE n # 0
  <2>1. g[1] = seqs[1] /\ \A i \in 2..n : g[i] = g[i - 1] \o seqs[i]
    BY <1>3, FlattensExist
  <2>2. FlattenSeq(seqs) = g[n]
    BY <1>3, FlattenSeqFlattens
  <2> HIDE DEF n, g
  <2> DEFINE Good(i) == /\ g[i] \in Seq(S)
                        /\ single => /\ Len(g[i]) = i
                                     /\ \A j \in 1..i : g[i][j] = seqs[j][1]
             T == {i \in 0..n : i # 0 => Good(i)}
  <2>3. 0 \in T
    BY <1>1
  <2>4. ASSUME NEW i \in 1..n, i - 1 \in T
        PROVE  i \in T
    <3>1. i \in 0..n /\ seqs[i] \in Seq(S)
      BY <1>1
    <3>2. CASE i = 1
      <4>1. g[i] \in Seq(S) /\ g[i] = seqs[i]
        BY <3>1, <3>2, <2>1
      <4>2. ASSUME single
            PROVE  Len(g[i]) = i /\ \A j \in 1..i : g[i][j] = seqs[j][1]
        BY <3>2, <4>1, <4>2
      <4> QED
        BY <3>1, <4>1, <4>2
    <3>3. CASE i # 1
      <4>1. i \in 2..n /\ i - 1 # 0
        BY <3>3, <1>1
      <4>2. g[i] = g[i - 1] \o seqs[i] /\ Good(i - 1)
        BY <4>1, <2>1, <2>4
      <4>3. /\ g[i] \in Seq(S) /\ Len(g[i]) = Len(g[i - 1]) + Len(seqs[i])
            /\ \A j \in 1..(Len(g[i - 1]) + Len(seqs[i])) :
                  g[i][j] = IF j <= Len(g[i - 1]) THEN g[i - 1][j]
                            ELSE seqs[i][j - Len(g[i - 1])]
        <5> DEFINE before == g[i - 1]
                   added == seqs[i]
        <5>1. before \in Seq(S) /\ added \in Seq(S) /\ g[i] = before \o added
          BY <4>2, <3>1
        <5> HIDE DEF before, added
        <5>2. /\ g[i] \in Seq(S) /\ Len(g[i]) = Len(before) + Len(added)
              /\ \A j \in 1..(Len(before) + Len(added)) :
                    g[i][j] = IF j <= Len(before) THEN before[j] ELSE added[j - Len(before)]
          BY <5>1, ConcatProperties
        <5> QED
          BY <5>2 DEF before, added
      <4>4. ASSUME single
            PROVE  Len(g[i]) = i /\ \A j \in 1..i : g[i][j] = seqs[j][1]
        <5>1. Len(g[i - 1]) = i - 1 /\ Len(seqs[i]) = 1
          BY <4>2, <4>4
        <5>2. ASSUME NEW j \in 1..i
              PROVE  g[i][j] = seqs[j][1]
          <6>1. g[i][j] = IF j <= i - 1 THEN g[i - 1][j] ELSE seqs[i][j - (i - 1)]
            BY <4>3, <5>1
          <6>2. CASE j = i
            <7>1. ~(j <= i - 1) /\ j - (i - 1) = 1
              BY <6>2
            <7> QED
              BY <6>1, <6>2, <7>1
          <6>3. CASE j # i
            <7>1. j \in 1..(i - 1) /\ j <= i - 1
              BY <6>3
            <7> QED
              BY <6>1, <7>1, <4>2, <4>4
          <6> QED
            BY <6>2, <6>3
        <5> QED
          BY <4>3, <5>1, <5>2
      <4> QED
        BY <3>1, <4>3, <4>4
    <3> QED
      BY <3>2, <3>3
  <2> HIDE DEF T
  <2>5. n \in T
    <3>1. 0..n \subseteq T
      BY <1>1, <2>3, <2>4, UpTo
    <3> QED
      BY <3>1, <1>1
  <2>6. Good(n)
    BY <2>5, <1>3 DEF T
  <2> QED
    BY <2>2, <2>6 DEF n
<1> QED
  BY <1>2, <1>3

(* The recursive function of Parse, and that it exists. *)
Parsed(words) ==
    CHOOSE f : f = [i \in 0..Len(words) |-> IF i = 0 THEN <<>> ELSE Store(f[i - 1], words[i])]

LEMMA ParseParsed ==
    \A options : LET words == FlattenSeq(options)
                 IN Parse(options) = Parsed(words)[Len(words)]
BY DEF Parse, Parsed

LEMMA ParsedExist ==
    ASSUME NEW words \in Seq(Words)
    PROVE  /\ Parsed(words)[0] = <<>>
           /\ \A i \in 1..Len(words) : Parsed(words)[i] = Store(Parsed(words)[i - 1], words[i])
<1> DEFINE n == Len(words)
           F == [i \in 1..n |-> [x \in Maps |-> Store(x, words[i])]]
           body(f) == [i \in 0..n |-> IF i = 0 THEN <<>> ELSE Store(f[i - 1], words[i])]
<1>1. n \in Nat /\ \A i \in 1..n : words[i] \in Words
  BY LenProperties, ElementOfSeq
<1>2. ASSUME NEW i \in 1..n, NEW x \in Maps
      PROVE  F[i][x] = Store(x, words[i]) /\ F[i][x] \in Maps
  <2>1. Store(x, words[i]) \in Maps
    BY <1>1, StoreExact
  <2>2. F[i] = [y \in Maps |-> Store(y, words[i])]
    OBVIOUS
  <2> HIDE DEF F, n
  <2>3. F[i][x] = Store(x, words[i])
    BY <2>2, Zenon
  <2> QED
    BY <2>1, <2>3
<1> HIDE DEF F, n
<1>3. <<>> \in Maps
  <2>1. <<>> \in [{} -> Values]
    OBVIOUS
  <2> QED
    BY <2>1 DEF Maps
<1>4. PICK f : Unfolds(f, n, Maps, <<>>, F)
  BY <1>1, <1>2, <1>3, Recursion
<1>5. f = body(f)
  <2>1. f = [i \in 0..n |-> f[i]]
    BY <1>4 DEF Unfolds
  <2>2. ASSUME NEW i \in 0..n
        PROVE  f[i] = IF i = 0 THEN <<>> ELSE Store(f[i - 1], words[i])
    <3>1. CASE i = 0
      BY <3>1, <1>4 DEF Unfolds
    <3>2. CASE i # 0
      <4>1. i \in 1..n /\ i - 1 \in 0..n
        BY <3>2, <1>1
      <4>2. f[i] = F[i][f[i - 1]] /\ f[i - 1] \in Maps
        BY <4>1, <1>4 DEF Unfolds
      <4> QED
        BY <4>1, <4>2, <1>2, <3>2
    <3> QED
      BY <3>1, <3>2
  <2> QED
    BY <2>1, <2>2
<1>6. Parsed(words) = body(Parsed(words))
  BY <1>5 DEF Parsed, n
<1> DEFINE g == Parsed(words)
<1> HIDE DEF g
<1>7. \A i \in 0..n : g[i] = IF i = 0 THEN <<>> ELSE Store(g[i - 1], words[i])
  <2>1. g = body(g)
    BY <1>6 DEF g
  <2> QED
    BY <2>1
<1>8. 0 \in 0..n /\ \A i \in 1..n : i \in 0..n /\ i # 0
  BY <1>1
<1> QED
  BY <1>7, <1>8 DEF g, n

(* The i-th of the first n words is the last option with its key. *)
LastOption(words, n, i) ==
    /\ i \in 1..n
    /\ IsOption(words[i])
    /\ \A j \in (i + 1)..n : IsOption(words[j]) => words[j].key # words[i].key

(* What a map must hold after the first n words: the keys of the options   *)
(* among them, each with the value it was given last.                      *)
HoldsLast(data, words, n) ==
    /\ data \in Maps
    /\ \A i \in 1..n : IsOption(words[i]) => words[i].key \in DOMAIN data
    /\ \A key \in DOMAIN data : \E i \in 1..n : IsOption(words[i]) /\ words[i].key = key
    /\ \A i \in 1..n : LastOption(words, n, i) => data[words[i].key] = words[i].val

(* One word more. *)
LEMMA StoreHoldsLast ==
    ASSUME NEW words \in Seq(Words), NEW n \in 1..Len(words),
           NEW data, HoldsLast(data, words, n - 1)
    PROVE  HoldsLast(Store(data, words[n]), words, n)
<1> DEFINE new == Store(data, words[n])
<1>1. /\ n \in Nat \ {0} /\ Len(words) \in Nat /\ n \in 1..n /\ words[n] \in Words
      /\ \A i \in 1..n : i # n => i \in 1..(n - 1)
      /\ \A i \in 1..(n - 1) : i \in 1..n /\ i # n /\ n \in (i + 1)..n
  BY LenProperties, ElementOfSeq
<1>2. data \in Maps
  BY DEF HoldsLast
<1>3. CASE ~IsOption(words[n])
  <2>1. new = data
    BY <1>1, <1>2, <1>3, StoreExact
  <2>2. ASSUME NEW i \in 1..n, LastOption(words, n, i)
        PROVE  data[words[i].key] = words[i].val
    <3>1. i \in 1..(n - 1)
      BY <1>1, <1>3, <2>2 DEF LastOption
    <3>2. \A j \in (i + 1)..(n - 1) : j \in (i + 1)..n
      BY <1>1
    <3>3. LastOption(words, n - 1, i)
      BY <2>2, <3>1, <3>2 DEF LastOption
    <3> QED
      BY <3>1, <3>3 DEF HoldsLast
  <2>3. \A i \in 1..n : IsOption(words[i]) => words[i].key \in DOMAIN data
    BY <1>1, <1>3 DEF HoldsLast
  <2>4. \A key \in DOMAIN data : \E i \in 1..n : IsOption(words[i]) /\ words[i].key = key
    BY <1>1 DEF HoldsLast
  <2> QED
    BY <1>2, <2>1, <2>2, <2>3, <2>4 DEF HoldsLast
<1>4. CASE IsOption(words[n])
  <2>1. /\ new \in Maps
        /\ DOMAIN new = DOMAIN data \cup {words[n].key}
        /\ new[words[n].key] = words[n].val
        /\ \A key \in DOMAIN data \ {words[n].key} : new[key] = data[key]
    BY <1>1, <1>2, <1>4, StoreExact
  <2> HIDE DEF new
  <2>2. \A i \in 1..n : IsOption(words[i]) => words[i].key \in DOMAIN new
    BY <1>1, <2>1 DEF HoldsLast
  <2>3. \A key \in DOMAIN new : \E i \in 1..n : IsOption(words[i]) /\ words[i].key = key
    BY <1>1, <1>4, <2>1 DEF HoldsLast
  <2>4. ASSUME NEW i \in 1..n, LastOption(words, n, i)
        PROVE  new[words[i].key] = words[i].val
    <3>1. CASE i = n
      BY <2>1, <3>1
    <3>2. CASE i # n
      <4>1. i \in 1..(n - 1) /\ n \in (i + 1)..n
        BY <1>1, <3>2
      <4>2. words[i].key # words[n].key /\ IsOption(words[i])
        BY <1>4, <2>4, <4>1 DEF LastOption
      <4>3. \A j \in (i + 1)..(n - 1) : j \in (i + 1)..n
        BY <1>1
      <4>4. LastOption(words, n - 1, i)
        BY <2>4, <4>1, <4>3 DEF LastOption
      <4>5. words[i].key \in DOMAIN data /\ data[words[i].key] = words[i].val
        BY <4>1, <4>2, <4>4 DEF HoldsLast
      <4> QED
        BY <2>1, <4>2, <4>5
    <3> QED
      BY <3>1, <3>2
  <2>5. HoldsLast(new, words, n)
    BY <2>1, <2>2, <2>3, <2>4 DEF HoldsLast
  <2> QED
    BY <2>5 DEF new
<1> QED
  BY <1>3, <1>4

(* ArgParser keeps the last value of every option. *)
LEMMA ParseHoldsLast ==
    ASSUME NEW options \in Seq(Seq(Words))
    PROVE  /\ FlattenSeq(options) \in Seq(Words)
           /\ HoldsLast(Parse(options), FlattenSeq(options), Len(FlattenSeq(options)))
<1> DEFINE words == FlattenSeq(options)
           n == Len(words)
           g == Parsed(words)
<1>1. words \in Seq(Words)
  BY FlattenSeqExact
<1>2. Parse(options) = g[n]
  BY ParseParsed
<1> HIDE DEF words
<1>3. n \in Nat /\ g[0] = <<>> /\ \A i \in 1..n : g[i] = Store(g[i - 1], words[i])
  BY <1>1, LenProperties, ParsedExist
<1> HIDE DEF g
<1> DEFINE T == {i \in 0..n : HoldsLast(g[i], words, i)}
<1>4. 0 \in T
  <2>1. <<>> \in [{} -> Values] /\ 1..0 = {}
    OBVIOUS
  <2>2. <<>> \in Maps /\ DOMAIN <<>> = {}
    BY <2>1 DEF Maps
  <2>3. HoldsLast(<<>>, words, 0)
    BY <2>1, <2>2 DEF HoldsLast
  <2> QED
    BY <2>3, <1>3
<1>5. ASSUME NEW i \in 1..n, i - 1 \in T
      PROVE  i \in T
  <2>1. i \in 0..n
    BY <1>3
  <2>2. HoldsLast(g[i], words, i)
    BY <1>1, <1>3, <1>5, StoreHoldsLast
  <2> QED
    BY <2>1, <2>2
<1> HIDE DEF T
<1>6. n \in T
  <2>1. 0..n \subseteq T
    BY <1>3, <1>4, <1>5, UpTo
  <2> QED
    BY <2>1, <1>3
<1> QED
  BY <1>1, <1>2, <1>6 DEF T, words

(* What the user asked for is what the map holds. *)
LEMMA AskedHeld ==
    ASSUME args \in Seq(Seq(Words)), NoBlanks, NEW key, NEW default
    PROVE  Asked(key, default) = IF key \in DOMAIN Parse(args) THEN Parse(args)[key] ELSE default
<1> DEFINE n == Len(args)
           words == FlattenSeq(args)
           data == Parse(args)
           given == {i \in 1..n : args[i][1].key = key /\ IsOption(args[i][1])}
<1>1. n \in Nat
  BY LenProperties
<1>2. Len(words) = n /\ \A i \in 1..n : words[i] = args[i][1]
  BY FlattenSeqExact DEF NoBlanks
<1>3. HoldsLast(data, words, n)
  BY <1>2, ParseHoldsLast
<1>4. Asked(key, default) = IF given = {} THEN default ELSE args[Max(given)][1].val
  BY DEF Asked
<1>5. \A i \in 1..n : i \in given <=> words[i].key = key /\ IsOption(words[i])
  BY <1>2
<1>6. given \in SUBSET (1..n)
  OBVIOUS
<1> HIDE DEF n, words, data, given
<1>7. CASE given = {}
  <2>1. key \notin DOMAIN data
    BY <1>3, <1>5, <1>7 DEF HoldsLast
  <2> QED
    BY <1>4, <1>7, <2>1 DEF data
<1>8. CASE given # {}
  <2> DEFINE m == Max(given)
  <2>1. m = CHOOSE x \in given : \A y \in given : x >= y
    BY DEF Max
  <2>2. \E x \in given : \A y \in given : x >= y
    BY <1>1, <1>6, <1>8, Greatest
  <2> HIDE DEF m
  <2>3. m \in given /\ \A y \in given : m >= y
    BY <2>1, <2>2
  <2>4. m \in 1..n /\ words[m].key = key /\ IsOption(words[m])
    BY <1>5, <1>6, <2>3
  <2>5. ASSUME NEW j \in (m + 1)..n, IsOption(words[j])
        PROVE  words[j].key # words[m].key
    <3>1. j \in 1..n /\ ~(m >= j)
      BY <1>1, <2>4
    <3>2. j \notin given
      BY <2>3, <3>1
    <3> QED
      BY <1>5, <2>4, <2>5, <3>1, <3>2
  <2>6. LastOption(words, n, m)
    BY <2>4, <2>5 DEF LastOption
  <2>7. key \in DOMAIN data /\ data[key] = words[m].val
    BY <1>3, <2>4, <2>6 DEF HoldsLast
  <2> QED
    BY <1>2, <1>4, <1>8, <2>4, <2>7 DEF m, data
<1> QED
  BY <1>7, <1>8

(* The constructor of Configurator converts what it finds. *)
LEMMA ConfigureTyped ==
    ASSUME NEW options \in Seq(Seq(Words))
    PROVE  /\ Configure(options).port \in Int
           /\ Configure(options).compression \in Int
           /\ Configure(options).pause \in Int
<1> DEFINE data == Parse(options)
<1>1. data \in Maps
  BY ParseHoldsLast DEF HoldsLast
<1> HIDE DEF data
<1>2. \A key \in DOMAIN data : data[key] \in Values
  <2>1. PICK D \in SUBSET STRING : data \in [D -> Values]
    BY <1>1 DEF Maps
  <2> QED
    BY <2>1
<1>3. \A val \in Values : NumberOf(val) \in Int
  <2> SUFFICES ASSUME NEW val \in Values, val.number # <<>>
               PROVE  val.number[1] \in Int
    BY DEF NumberOf
  <2>1. val.number \in Seq(Int)
    BY DEF Values
  <2>2. 1 \in 1..Len(val.number)
    BY <2>1, EmptySeq
  <2> QED
    BY <2>1, <2>2, ElementOfSeq
<1>4. /\ Configure(options).port
             = IF "port" \in DOMAIN data THEN NumberOf(data["port"]) ELSE 53500
      /\ Configure(options).compression
             = IF "compression" \in DOMAIN data THEN NumberOf(data["compression"]) ELSE 100
      /\ Configure(options).pause
             = IF "package_pause" \in DOMAIN data THEN NumberOf(data["package_pause"]) ELSE 100
  BY DEF Configure, data
<1> QED
  BY <1>2, <1>3, <1>4

(* What the constructor of Configurator finds is what the user asked for. *)
LEMMA ConfigureAsked ==
    ASSUME args \in Seq(Seq(Words)), NoBlanks
    PROVE  /\ Configure(args).port = AskedNumber("port", 53500)
           /\ Configure(args).compression = AskedNumber("compression", 100)
           /\ Configure(args).pause = AskedNumber("package_pause", 100)
           /\ Configure(args).cam_id = AskedNumber("cam_id", 0)
           /\ Configure(args).ip = Asked("ip", DefaultIp)
           /\ Configure(args).video_path
                  = Asked("video_path", [NoValue EXCEPT !.text = "default.avi"]).text
<1> DEFINE data == Parse(args)
<1>1. \A key, default :
         Asked(key, default) = IF key \in DOMAIN data THEN data[key] ELSE default
  BY AskedHeld
<1>2. \A n \in Int : NumberOf([NoValue EXCEPT !.number = <<n>>]) = n
  BY DEF NumberOf, NoValue
<1>3. [NoValue EXCEPT !.text = "default.avi"].text = "default.avi"
  BY DEF NoValue
<1>4. \A key : \A n \in Int :
         AskedNumber(key, n) = IF key \in DOMAIN data THEN NumberOf(data[key]) ELSE n
  BY <1>1, <1>2 DEF AskedNumber
<1>5. /\ Configure(args).port
             = IF "port" \in DOMAIN data THEN NumberOf(data["port"]) ELSE 53500
      /\ Configure(args).compression
             = IF "compression" \in DOMAIN data THEN NumberOf(data["compression"]) ELSE 100
      /\ Configure(args).pause
             = IF "package_pause" \in DOMAIN data THEN NumberOf(data["package_pause"]) ELSE 100
      /\ Configure(args).cam_id
             = IF "cam_id" \in DOMAIN data THEN NumberOf(data["cam_id"]) ELSE 0
      /\ Configure(args).video_path
             = IF "video_path" \in DOMAIN data THEN data["video_path"].text ELSE "default.avi"
      /\ Configure(args).ip = IF "ip" \in DOMAIN data THEN data["ip"] ELSE DefaultIp
  BY DEF Configure
<1> HIDE DEF data
<1>6. \A key : \A n \in Int : key \in DOMAIN data => AskedNumber(key, n) = NumberOf(data[key])
  BY <1>4
<1>7. \A key : \A n \in Int : key \notin DOMAIN data => AskedNumber(key, n) = n
  BY <1>4
<1>8. Configure(args).port = AskedNumber("port", 53500)
  BY <1>5, <1>6, <1>7
<1>9. Configure(args).compression = AskedNumber("compression", 100)
  BY <1>5, <1>6, <1>7
<1>10. Configure(args).pause = AskedNumber("package_pause", 100)
  BY <1>5, <1>6, <1>7
<1>11. Configure(args).cam_id = AskedNumber("cam_id", 0)
  BY <1>5, <1>6, <1>7
<1>12. Configure(args).video_path
           = Asked("video_path", [NoValue EXCEPT !.text = "default.avi"]).text
  <2> DEFINE default == [NoValue EXCEPT !.text = "default.avi"]
  <2>1. Asked("video_path", default)
            = IF "video_path" \in DOMAIN data THEN data["video_path"] ELSE default
    BY <1>1
  <2>2. default.text = "default.avi"
    BY <1>3
  <2> HIDE DEF default
  <2>3. Configure(args).video_path = Asked("video_path", default).text
    BY <2>1, <2>2, <1>5
  <2> QED
    BY <2>3 DEF default
<1>13. Configure(args).ip = Asked("ip", DefaultIp)
  BY <1>1, <1>5
<1> QED
  BY <1>8, <1>9, <1>10, <1>11, <1>12, <1>13

(* And the source it names. *)
LEMMA SourceAsked ==
    ASSUME args \in Seq(Seq(Words)), NoBlanks, NEW kind,
           kind = Asked("source", [NoValue EXCEPT !.text = "webcamera"]).text
    PROVE  Configure(args).source
               = IF kind \in {"videofile", "ipc"} THEN kind ELSE "webcamera"
<1> DEFINE data == Parse(args)
           default == [NoValue EXCEPT !.text = "webcamera"]
<1>1. Asked("source", default) = IF "source" \in DOMAIN data THEN data["source"] ELSE default
  BY AskedHeld
<1>2. default.text = "webcamera"
  BY DEF NoValue
<1>3. \A given : given = (IF "source" \in DOMAIN data THEN data["source"].text ELSE "webcamera")
          => Configure(args).source
                 = IF given \in {"videofile", "ipc"} THEN given ELSE "webcamera"
  BY DEF Configure
<1> HIDE DEF data, default
<1>4. kind = IF "source" \in DOMAIN data THEN data["source"].text ELSE "webcamera"
  BY <1>1, <1>2 DEF default
<1> QED
  BY <1>3, <1>4
---------------------------------------------------------------------------
(* Inductive: the values the variables take, and a packet is left wherever *)
(* one is sent.                                                            *)
Places == Ended \cup {"start", "source", "config", "init", "loop", "lock", "copy",
                      "send", "debug"}

StreamerType ==
    /\ streamer = [ip |-> streamer.ip, port |-> streamer.port,
                   compression |-> streamer.compression, pause |-> streamer.pause,
                   address |-> streamer.address, wire_port |-> streamer.wire_port]
    /\ streamer.port \in Int
    /\ streamer.address \subseteq 0..31
    /\ streamer.wire_port \in (0..(Base - 1)) \X (0..(Base - 1))

ProcessType ==
    /\ pc \in Places
    /\ args \in CommandLines
    /\ conf.port \in Int
    /\ ipc \in IpcObjects
    /\ held \in BOOLEAN
    /\ socket \in {"none", "open", "closed"}

LoopType ==
    /\ left \in Seq(Nat \ {0})
    /\ pc = "send" => left # <<>>
    /\ clock \in 0..MaxClock
    /\ timing \in Seq(Nat) /\ Len(timing) <= Window

LifeInv == ProcessType /\ StreamerType /\ LoopType

(* A frame that is not empty is sent in at least one packet. *)
LEMMA PacketsType ==
    ASSUME NEW n \in Nat \ {0}
    PROVE  Packets(n) \in Seq(Nat \ {0}) /\ Packets(n) # <<>>
<1> DEFINE p == PacketPayload
           m == PageCount(n, p)
<1>1. p \in Nat \ {0} /\ HeaderSize \in Nat
  BY ServerAssumption
<1>2. m \in Nat \ {0}
  BY <1>1, PageCountZero
<1>3. ASSUME NEW i \in 1..m
      PROVE  HeaderSize + Least(p, n - (i - 1) * p) \in Nat \ {0}
  <2>1. (i - 1) * p \in Nat /\ (i - 1) * p < n
    BY <1>1, PageStartsInside
  <2>2. n - (i - 1) * p \in Nat \ {0}
    BY <2>1
  <2> QED
    BY <1>1, <2>2 DEF Least
<1> HIDE DEF m, p
<1>4. Packets(n) = [i \in 1..m |-> HeaderSize + Least(p, n - (i - 1) * p)]
  BY DEF Packets, m, p
<1>5. Packets(n) \in Seq(Nat \ {0}) /\ Len(Packets(n)) = m
  BY <1>2, <1>3, <1>4
<1> QED
  BY <1>2, <1>5, EmptySeq

LEMMA PushEventType ==
    ASSUME NEW stamps \in Seq(Nat), NEW now \in Nat
    PROVE  PushEvent(stamps, now) \in Seq(Nat) /\ Len(PushEvent(stamps, now)) <= Window
<1> DEFINE all == <<now>> \o stamps
           m == Least(Len(stamps) + 1, Window)
<1>1. all \in Seq(Nat) /\ Len(all) = Len(stamps) + 1 /\ Len(stamps) \in Nat
  BY ConcatProperties
<1>2. m \in Nat /\ m <= Len(all) /\ m <= Window
  BY <1>1, StatisticsAssumption DEF Least
<1> HIDE DEF all
<1>3. \A i \in 1..m : all[i] \in Nat
  BY <1>1, <1>2, ElementOfSeq
<1> HIDE DEF m
<1>4. SubSeq(all, 1, m) \in Seq(Nat) /\ Len(SubSeq(all, 1, m)) = m
  BY <1>2, <1>3, SubSeqProperties
<1> QED
  BY <1>2, <1>4 DEF PushEvent, all, m

LEMMA YieldType ==
    ASSUME LoopType, NEW size \in Nat, Yield(size)
    PROVE  LoopType' /\ pc' \in Places
<1>1. clock \in Nat
  BY ServerAssumption DEF LoopType
<1>2. timing' \in Seq(Nat) /\ Len(timing') <= Window
  BY <1>1, PushEventType DEF LoopType, Yield
<1>3. CASE size = 0
  BY <1>2, <1>3 DEF Yield, LoopType, Places
<1>4. CASE size # 0
  <2>1. PICK n \in IF streamer.compression < 100 THEN EncodedSizes ELSE {size} :
                left' = Packets(n)
    BY <1>4 DEF Yield
  <2>2. n \in Nat \ {0}
    BY <1>4, ServerAssumption
  <2>3. left' \in Seq(Nat \ {0}) /\ left' # <<>>
    BY <2>1, <2>2, PacketsType
  <2> QED
    BY <1>2, <1>4, <2>3 DEF Yield, LoopType, Places
<1> QED
  BY <1>3, <1>4

LEMMA InitLife == Init => LifeInv
<1> SUFFICES ASSUME Init
             PROVE  LifeInv
  OBVIOUS
<1>1. <<>> \in Seq(Seq(Words))
  OBVIOUS
<1>2. conf.port \in Int
  BY <1>1, ConfigureTyped DEF Init
<1>3. ProcessType
  <2>1. ipc \in IpcObjects
    BY DEF Init, IpcObjects, Descriptors
  <2> QED
    BY <1>2, <2>1 DEF Init, ProcessType, Places
<1>4. StreamerType
  <2>1. <<0, 0>> \in (0..(Base - 1)) \X (0..(Base - 1))
    BY OptionsAssumption
  <2>2. streamer = [ip |-> NoValue, port |-> 0, compression |-> 100, pause |-> 100,
                    address |-> {}, wire_port |-> <<0, 0>>]
    BY DEF Init, Unset
  <2> QED
    BY <2>1, <2>2 DEF StreamerType
<1>5. LoopType
  <2>1. 0 \in 0..MaxClock /\ 0 <= Window
    BY ServerAssumption, StatisticsAssumption
  <2>2. <<>> \in Seq(Nat \ {0}) /\ <<>> \in Seq(Nat) /\ Len(<<>>) = 0
    OBVIOUS
  <2> QED
    BY <2>1, <2>2 DEF Init, LoopType
<1> QED
  BY <1>3, <1>4, <1>5 DEF LifeInv

LEMMA AddressType == \A ip : Address(ip) \subseteq 0..31
BY DEF Address

(* A port is two bytes, in whatever order. *)
LEMMA InMemoryType ==
    ASSUME NEW n \in Int
    PROVE  InMemory(n) \in (0..(Base - 1)) \X (0..(Base - 1))
<1> DEFINE low == n % Base
           high == (n \div Base) % Base
<1>1. low \in 0..(Base - 1) /\ high \in 0..(Base - 1)
  BY OptionsAssumption
<1> HIDE DEF low, high
<1>2. <<low, high>> \in (0..(Base - 1)) \X (0..(Base - 1))
      /\ <<high, low>> \in (0..(Base - 1)) \X (0..(Base - 1))
  BY <1>1
<1> QED
  BY <1>2 DEF InMemory, low, high

LEMMA LifeStep == LifeInv /\ [Next]_vars => LifeInv'
<1> SUFFICES ASSUME LifeInv, [Next]_vars
             PROVE  LifeInv'
  OBVIOUS
<1> USE DEF LifeInv
<1>1. CASE UNCHANGED vars
  BY <1>1 DEF vars, stats, ProcessType, StreamerType, LoopType
<1>2. CASE Start
  <2>1. conf'.port \in Int
    BY <1>2, ConfigureTyped, ServerAssumption DEF Start, ProcessType
  <2> QED
    BY <1>2, <2>1 DEF Start, stats, ProcessType, StreamerType, LoopType, Places, Ended
<1>3. CASE OpenIpcSource
  BY <1>3 DEF OpenIpcSource, stats, ProcessType, StreamerType, LoopType, Places
<1>4. CASE \E ok \in BOOLEAN : OpenCapture(ok)
  BY <1>4 DEF OpenCapture, Throw, stats, ProcessType, StreamerType, LoopType, Places, Ended
<1>5. CASE ConfigStreamer
  <2>1. StreamerType'
    BY <1>5 DEF ConfigStreamer, StreamerType, ProcessType
  <2> QED
    BY <1>5, <2>1 DEF ConfigStreamer, stats, ProcessType, LoopType, Places
<1>6. CASE \E bound \in BOOLEAN : InitStreamer(bound)
  <2>1. PICK bound \in BOOLEAN : InitStreamer(bound)
    BY <1>6
  <2>2. PICK address \in Conversions(streamer.ip) :
                IF bound /\ address # BadAddress
                THEN /\ socket' = "open"
                     /\ streamer' = Destined(streamer, address)
                     /\ pc' = "loop"
                ELSE /\ socket' = "closed"
                     /\ pc' = "reported"
                     /\ UNCHANGED streamer
    BY <2>1 DEF InitStreamer
  <2>3. address # BadAddress => address \subseteq 0..31
    BY <2>2, AddressType DEF Conversions
  <2>4. InMemory(streamer.port) \in (0..(Base - 1)) \X (0..(Base - 1))
    BY InMemoryType DEF StreamerType
  <2>5. StreamerType'
    BY <2>2, <2>3, <2>4 DEF StreamerType, Destined
  <2> QED
    BY <2>1, <2>2, <2>5 DEF InitStreamer, stats, ProcessType, LoopType, Places, Ended
<1>7. CASE \E size \in FrameSizes \cup {0} : ReadCapture(size)
  <2>1. PICK size \in FrameSizes \cup {0} : ReadCapture(size)
    BY <1>7
  <2>2. size \in Nat /\ Yield(size)
    BY <2>1, ServerAssumption DEF ReadCapture
  <2>3. LoopType' /\ pc' \in Places
    BY <2>2, YieldType
  <2> QED
    BY <2>1, <2>2, <2>3 DEF ReadCapture, Yield, ProcessType, StreamerType
<1>8. CASE ReceiveMessage
  <2>1. CASE Yield(0)
    <3>1. LoopType' /\ pc' \in Places
      BY <2>1, YieldType
    <3> QED
      BY <1>8, <2>1, <3>1 DEF ReceiveMessage, Throw, Yield, ProcessType, StreamerType
  <2>2. CASE ~Yield(0)
    BY <1>8, <2>2 DEF ReceiveMessage, Throw, stats, ProcessType, StreamerType, LoopType,
                      Places, Ended
  <2> QED
    BY <2>1, <2>2
<1>9. CASE LockSemaphore
  BY <1>9 DEF LockSemaphore, Throw, stats, ProcessType, StreamerType, LoopType, Places, Ended
<1>10. CASE \E size \in FrameSizes : CopyFrame(size)
  <2>1. PICK size \in FrameSizes : CopyFrame(size)
    BY <1>10
  <2>2. CASE Yield(size)
    <3>1. size \in Nat
      BY ServerAssumption
    <3>2. LoopType' /\ pc' \in Places
      BY <2>2, <3>1, YieldType
    <3> QED
      BY <2>1, <2>2, <3>2 DEF CopyFrame, Throw, Yield, ProcessType, StreamerType
  <2>3. CASE ~Yield(size)
    BY <2>1, <2>3 DEF CopyFrame, Throw, stats, ProcessType, StreamerType, LoopType, Places,
                      Ended
  <2> QED
    BY <2>2, <2>3
<1>11. CASE SendPacket
  <2>1. left' \in Seq(Nat \ {0})
    BY <1>11, HeadTailProperties DEF SendPacket, LoopType
  <2> QED
    BY <1>11, <2>1 DEF SendPacket, ProcessType, StreamerType, LoopType, Places
<1>12. CASE Debug
  BY <1>12 DEF Debug, ProcessType, StreamerType, LoopType, Places
<1>13. CASE \E d \in Steps : Tick(d)
  <2>1. clock' \in 0..MaxClock
    BY <1>13, ServerAssumption DEF Tick, LoopType
  <2> QED
    BY <1>13, <2>1 DEF Tick, stats, ProcessType, StreamerType, LoopType
<1> QED
  BY <1>1, <1>2, <1>3, <1>4, <1>5, <1>6, <1>7, <1>8, <1>9, <1>10, <1>11, <1>12, <1>13
     DEF Next, ServerStep
---------------------------------------------------------------------------
(* Inductive: both TrafficStats keep step with their logs, and what was    *)
(* printed stays true until the clock advances or something is read.       *)
ReportTrue ==
    report.at = clock /\ report.reads = Len(read_log) =>
        /\ NoLongPause(read_log) => report.source = LastInterval(read_log)
        /\ NoLongPause(sent_log) => report.sent = LastInterval(sent_log)

TrafficInv ==
    /\ Counts(source, read_log, clock)
    /\ Counts(traffic, sent_log, clock)
    /\ report.at \in Int /\ report.at <= clock
    /\ report.reads \in Int /\ report.reads <= Len(read_log)
    /\ pc \in {"send", "debug"} => report.reads < Len(read_log)
    /\ ReportTrue

LEMMA InitTraffic == Init => TrafficInv
<1> SUFFICES ASSUME Init
             PROVE  TrafficInv
  OBVIOUS
<1>1. <<>> \in Seq(Events) /\ Len(<<>>) = 0 /\ 1..0 = {} /\ 0 \in 0..0
  OBVIOUS
<1>2. Rest(<<>>, 0) = <<>>
  BY <1>1, SubSeqEmpty DEF Rest
<1>3. SumOf(<<>>) = 0
  BY <1>1, SumOfSums, SumsExist
<1>4. NewTraffic \in Traffics
  BY <1>1 DEF NewTraffic, Traffics
<1>5. Holds(NewTraffic, <<>>, 0)
  BY <1>2, <1>3 DEF Holds, NewTraffic
<1>6. Sorted(<<>>, 0) /\ Tended(<<>>, 0, 0)
  BY <1>1 DEF Sorted, Tended
<1>7. Counts(NewTraffic, <<>>, 0)
  BY <1>1, <1>4, <1>5, <1>6 DEF Counts
<1>8. /\ source = NewTraffic /\ traffic = NewTraffic /\ read_log = <<>> /\ sent_log = <<>>
      /\ clock = 0 /\ pc = "start" /\ report.at = -1 /\ report.reads = 0
  BY DEF Init, NoReport
<1> QED
  BY <1>1, <1>7, <1>8 DEF TrafficInv, ReportTrue

LEMMA LogLengths ==
    ASSUME TrafficInv
    PROVE  Len(read_log) \in Nat /\ Len(sent_log) \in Nat
BY LenProperties DEF TrafficInv, Counts, Sorted

LEMMA YieldTraffic ==
    ASSUME clock \in Nat, TrafficInv, NEW size \in Nat, Yield(size)
    PROVE  TrafficInv'
<1>1. /\ source' = AddTransaction(source, size, clock)
      /\ read_log' = Append(read_log, [amount |-> size, stamp |-> clock])
      /\ UNCHANGED <<clock, traffic, sent_log, report>>
  BY DEF Yield
<1>2. Counts(source', read_log', clock)
  BY <1>1, AddTransactionCounts DEF TrafficInv
<1>3. Len(read_log') = Len(read_log) + 1 /\ Len(read_log) \in Nat
  <2>1. read_log \in Seq(Events) /\ [amount |-> size, stamp |-> clock] \in Events
    BY DEF TrafficInv, Counts, Sorted, Events
  <2> QED
    BY <1>1, <2>1, AppendProperties, LenProperties
<1>4. report.reads < Len(read_log')
  BY <1>3 DEF TrafficInv
<1>5. ReportTrue'
  BY <1>1, <1>3, <1>4 DEF ReportTrue, TrafficInv
<1> QED
  BY <1>1, <1>2, <1>3, <1>4, <1>5 DEF TrafficInv

LEMMA SendTraffic ==
    ASSUME LifeInv, clock \in Nat, TrafficInv, SendPacket
    PROVE  TrafficInv'
<1>1. /\ traffic' = AddTransaction(traffic, Head(left), clock)
      /\ sent_log' = Append(sent_log, [amount |-> Head(left), stamp |-> clock])
      /\ pc = "send"
      /\ UNCHANGED <<clock, source, read_log, report>>
  BY DEF SendPacket
<1>2. Head(left) \in Nat
  BY <1>1, HeadTailProperties DEF LifeInv, LoopType
<1>3. Counts(traffic', sent_log', clock)
  BY <1>1, <1>2, AddTransactionCounts DEF TrafficInv
<1>4. report.reads < Len(read_log)
  BY <1>1 DEF TrafficInv
<1>5. report.reads # Len(read_log)
  BY <1>4, LogLengths DEF TrafficInv
<1>6. ReportTrue'
  BY <1>1, <1>5 DEF ReportTrue
<1> QED
  BY <1>1, <1>3, <1>4, <1>6 DEF TrafficInv

LEMMA DebugTraffic ==
    ASSUME clock \in Nat, TrafficInv, Debug
    PROVE  TrafficInv'
<1>1. /\ source' = CheckFifo(source, clock)
      /\ traffic' = CheckFifo(traffic, clock)
      /\ report'.source = source'.accumulator
      /\ report'.sent = traffic'.accumulator
      /\ report'.reads = Len(read_log) /\ report'.at = clock
      /\ pc' = "loop"
      /\ UNCHANGED <<clock, read_log, sent_log>>
  BY DEF Debug
<1>2. /\ Counts(source', read_log, clock)
      /\ NoLongPause(read_log) => report'.source = LastInterval(read_log)
  BY <1>1, CheckFifoCounts DEF TrafficInv
<1>3. /\ Counts(traffic', sent_log, clock)
      /\ NoLongPause(sent_log) => report'.sent = LastInterval(sent_log)
  BY <1>1, CheckFifoCounts DEF TrafficInv
<1>4. /\ NoLongPause(read_log)' = NoLongPause(read_log)
      /\ NoLongPause(sent_log)' = NoLongPause(sent_log)
      /\ LastInterval(read_log)' = LastInterval(read_log)
      /\ LastInterval(sent_log)' = LastInterval(sent_log)
  BY <1>1 DEF NoLongPause, LastInterval
<1>5. ReportTrue'
  BY <1>2, <1>3, <1>4 DEF ReportTrue
<1> QED
  BY <1>1, <1>2, <1>3, <1>5, LogLengths DEF TrafficInv

LEMMA TickTraffic ==
    ASSUME clock \in Nat, TrafficInv, NEW d \in Nat \ {0}, Tick(d)
    PROVE  TrafficInv'
<1>1. /\ clock' = clock + d
      /\ UNCHANGED <<pc, source, traffic, read_log, sent_log, report>>
  BY DEF Tick, stats
<1>2. clock' \in Nat /\ clock < clock'
  BY <1>1
<1>3. Counts(source, read_log, clock') /\ Counts(traffic, sent_log, clock')
  BY <1>2, TickCounts DEF TrafficInv
<1>4. report.at # clock' /\ report.at <= clock'
  BY <1>2 DEF TrafficInv
<1> QED
  BY <1>1, <1>3, <1>4 DEF TrafficInv, ReportTrue

LEMMA OthersKeepTraffic ==
    ASSUME TrafficInv, UNCHANGED <<source, traffic, read_log, sent_log, report, clock>>,
           pc' \in {"send", "debug"} => pc' = pc
    PROVE  TrafficInv'
BY DEF TrafficInv, ReportTrue, NoLongPause, LastInterval

(* Only reading, sending and printing touch the TrafficStats. *)
LEMMA TrafficStep == LifeInv /\ TrafficInv /\ [Next]_vars => TrafficInv'
<1> SUFFICES ASSUME LifeInv, TrafficInv, [Next]_vars
             PROVE  TrafficInv'
  OBVIOUS
<1>1. clock \in Nat
  BY ServerAssumption DEF LifeInv, LoopType
<1>2. CASE UNCHANGED vars
  BY <1>2, OthersKeepTraffic DEF vars, stats
<1>3. CASE Start \/ OpenIpcSource \/ ConfigStreamer \/ LockSemaphore
  BY <1>3, OthersKeepTraffic
     DEF Start, OpenIpcSource, ConfigStreamer, LockSemaphore, Throw, stats
<1>4. CASE \E ok \in BOOLEAN : OpenCapture(ok)
  BY <1>4, OthersKeepTraffic DEF OpenCapture, Throw, stats
<1>5. CASE \E bound \in BOOLEAN : InitStreamer(bound)
  BY <1>5, OthersKeepTraffic DEF InitStreamer, stats
<1>6. CASE \E size \in FrameSizes \cup {0} : ReadCapture(size)
  <2>1. PICK size \in FrameSizes \cup {0} : Yield(size)
    BY <1>6 DEF ReadCapture
  <2>2. size \in Nat
    BY ServerAssumption
  <2> QED
    BY <1>1, <2>1, <2>2, YieldTraffic
<1>7. CASE ReceiveMessage
  <2>1. CASE Yield(0)
    BY <1>1, <2>1, YieldTraffic
  <2>2. CASE ~Yield(0)
    BY <1>7, <2>2, OthersKeepTraffic DEF ReceiveMessage, Throw, stats
  <2> QED
    BY <2>1, <2>2
<1>8. CASE \E size \in FrameSizes : CopyFrame(size)
  <2>1. PICK size \in FrameSizes : CopyFrame(size)
    BY <1>8
  <2>2. size \in Nat
    BY ServerAssumption
  <2>3. CASE Yield(size)
    BY <1>1, <2>2, <2>3, YieldTraffic
  <2>4. CASE ~Yield(size)
    BY <2>1, <2>4, OthersKeepTraffic DEF CopyFrame, Throw, stats
  <2> QED
    BY <2>3, <2>4
<1>9. CASE SendPacket
  BY <1>1, <1>9, SendTraffic
<1>10. CASE Debug
  BY <1>1, <1>10, DebugTraffic
<1>11. CASE \E d \in Steps : Tick(d)
  <2>1. PICK d \in Steps : Tick(d)
    BY <1>11
  <2>2. d \in Nat \ {0}
    BY ServerAssumption
  <2> QED
    BY <1>1, <2>1, <2>2, TickTraffic
<1> QED
  BY <1>2, <1>3, <1>4, <1>5, <1>6, <1>7, <1>8, <1>9, <1>10, <1>11 DEF Next, ServerStep

(* The variables of a server keep their types: in particular a traffic     *)
(* never falls below zero and a window of timestamps never grows beyond    *)
(* its limit (stream_traffic_stat.cpp, stream_timing_stat.cpp).            *)
THEOREM TypeCorrect == Spec => []TypeOK
<1>1. Init => LifeInv /\ TrafficInv
  BY InitLife, InitTraffic
<1>2. (LifeInv /\ TrafficInv) /\ [Next]_vars => (LifeInv /\ TrafficInv)'
  BY LifeStep, TrafficStep
<1>3. LifeInv /\ TrafficInv => TypeOK
  BY DEF LifeInv, ProcessType, StreamerType, LoopType, TrafficInv, Counts, Sorted, Places,
         TypeOK
<1> QED
  BY <1>1, <1>2, <1>3, PTL DEF Spec

(* The traffic printed is that of the last second, for the source and for  *)
(* the network (TrafficStat, run_server), unless 35 minutes pass without   *)
(* any.                                                                    *)
THEOREM TrafficIsRecent == Spec => []TrafficIsLastSecond
<1>1. Init => LifeInv /\ TrafficInv
  BY InitLife, InitTraffic
<1>2. (LifeInv /\ TrafficInv) /\ [Next]_vars => (LifeInv /\ TrafficInv)'
  BY LifeStep, TrafficStep
<1>3. TrafficInv => TrafficIsLastSecond
  BY DEF TrafficInv, ReportTrue, TrafficIsLastSecond, JustPrinted
<1> QED
  BY <1>1, <1>2, <1>3, PTL DEF Spec
---------------------------------------------------------------------------
(* Inductive: what the command line said goes from the Configurator to the *)
(* source that is opened, to the streamer's settings and to its address.   *)
InLoop == {"loop", "lock", "copy", "send", "debug"}

SettingsInv ==
    /\ pc # "start" => conf = Configure(args)
    /\ conf.source \in {"videofile", "ipc", "webcamera"}
    /\ pc \in {"config", "init"} \cup InLoop =>
          opened = SourceFor(conf.source, conf.video_path, conf.cam_id)
    /\ pc \in {"init"} \cup InLoop =>
          /\ streamer.ip = conf.ip
          /\ streamer.port = conf.port
          /\ streamer.compression = conf.compression
          /\ streamer.pause = conf.pause
    /\ pc \in InLoop =>
          /\ streamer.wire_port = InMemory(streamer.port)
          /\ streamer.address \in Conversions(streamer.ip) \ {BadAddress}

(* Steps that come after the settings, or end.                             *)
LEMMA OthersKeepSettings ==
    ASSUME SettingsInv, UNCHANGED <<args, conf, opened, streamer>>, pc # "start",
           pc' = pc \/ pc' \in Ended \/ (pc \in InLoop /\ pc' \in InLoop)
    PROVE  SettingsInv'
BY DEF SettingsInv, InLoop, Ended

LEMMA SourceNames ==
    \A options : Configure(options).source \in {"videofile", "ipc", "webcamera"}
BY DEF Configure

LEMMA InitSettings == Init => SettingsInv
BY SourceNames DEF Init, SettingsInv, InLoop

(* Settings are taken over before the loop, and only there. *)
LEMMA SettingsStep == LifeInv /\ SettingsInv /\ [Next]_vars => SettingsInv'
<1> SUFFICES ASSUME LifeInv, SettingsInv, [Next]_vars
             PROVE  SettingsInv'
  OBVIOUS
<1>1. CASE UNCHANGED vars
  BY <1>1 DEF vars, stats, SettingsInv
<1>2. CASE Start
  BY <1>2, SourceNames DEF Start, SettingsInv, InLoop
<1>3. CASE OpenIpcSource
  BY <1>3 DEF OpenIpcSource, SettingsInv, InLoop, SourceFor
<1>4. CASE \E ok \in BOOLEAN : OpenCapture(ok)
  BY <1>4 DEF OpenCapture, Throw, SettingsInv, InLoop, SourceFor
<1>5. CASE ConfigStreamer
  <2>1. /\ streamer'.ip = conf.ip
        /\ streamer'.port = conf.port /\ streamer'.compression = conf.compression
        /\ streamer'.pause = conf.pause
    BY <1>5 DEF ConfigStreamer, LifeInv, StreamerType
  <2> QED
    BY <1>5, <2>1 DEF ConfigStreamer, SettingsInv, InLoop
<1>6. CASE \E bound \in BOOLEAN : InitStreamer(bound)
  <2>1. PICK bound \in BOOLEAN : InitStreamer(bound)
    BY <1>6
  <2>2. PICK address \in Conversions(streamer.ip) :
                IF bound /\ address # BadAddress
                THEN /\ socket' = "open"
                     /\ streamer' = Destined(streamer, address)
                     /\ pc' = "loop"
                ELSE /\ socket' = "closed"
                     /\ pc' = "reported"
                     /\ UNCHANGED streamer
    BY <2>1 DEF InitStreamer
  <2>3. pc = "init" /\ UNCHANGED <<args, conf, opened>>
    BY <2>1 DEF InitStreamer
  <2>4. CASE pc' = "loop"
    <3>1. streamer' = Destined(streamer, address) /\ address # BadAddress
      BY <2>2, <2>4
    <3>2. /\ streamer'.ip = streamer.ip /\ streamer'.address = address
          /\ streamer'.port = streamer.port /\ streamer'.compression = streamer.compression
          /\ streamer'.pause = streamer.pause
          /\ streamer'.wire_port = InMemory(streamer.port)
      BY <3>1 DEF Destined, LifeInv, StreamerType
    <3> QED
      BY <2>2, <2>3, <2>4, <3>1, <3>2 DEF SettingsInv, InLoop
  <2>5. CASE pc' # "loop"
    <3>1. pc' = "reported" /\ UNCHANGED streamer
      BY <2>2, <2>5
    <3> QED
      BY <2>3, <3>1, OthersKeepSettings DEF Ended
  <2> QED
    BY <2>4, <2>5
<1>7. CASE \E size \in FrameSizes \cup {0} : ReadCapture(size)
  BY <1>7, OthersKeepSettings DEF ReadCapture, CanRead, Yield, InLoop
<1>8. CASE ReceiveMessage
  BY <1>8, OthersKeepSettings DEF ReceiveMessage, CanRead, Yield, Throw, InLoop, Ended
<1>9. CASE LockSemaphore
  BY <1>9, OthersKeepSettings DEF LockSemaphore, Throw, InLoop, Ended
<1>10. CASE \E size \in FrameSizes : CopyFrame(size)
  BY <1>10, OthersKeepSettings DEF CopyFrame, Yield, Throw, InLoop, Ended
<1>11. CASE SendPacket
  BY <1>11, OthersKeepSettings DEF SendPacket, InLoop
<1>12. CASE Debug
  BY <1>12, OthersKeepSettings DEF Debug, InLoop
<1>13. CASE \E d \in Steps : Tick(d)
  BY <1>13, OthersKeepSettings DEF Tick
<1> QED
  BY <1>1, <1>2, <1>3, <1>4, <1>5, <1>6, <1>7, <1>8, <1>9, <1>10, <1>11, <1>12, <1>13
     DEF Next, ServerStep

(* Quality, pause and source are those of the command line when a packet   *)
(* leaves, the last value of each option, whatever the order; and packets  *)
(* leave for the port that a client binds which is given the same, on a    *)
(* machine of either byte order (ArgParser, Configurator,                  *)
(* make_video_source, config_videostreamer, update_destination,            *)
(* VideoReceiver::open_socket).                                            *)
THEOREM SettingsReachTheStream == Spec => []SettingsInEffect
<1>1. Init => LifeInv /\ SettingsInv
  BY InitLife, InitSettings
<1>2. (LifeInv /\ SettingsInv) /\ [Next]_vars => (LifeInv /\ SettingsInv)'
  BY LifeStep, SettingsStep
<1>3. LifeInv /\ SettingsInv => SettingsInEffect
  <2>0. ~(pc = "send" /\ NoBlanks) => SettingsInEffect
    BY DEF SettingsInEffect
  <2> SUFFICES ASSUME LifeInv, SettingsInv, pc = "send", NoBlanks
               PROVE  SettingsInEffect
    BY <2>0
  <2>1. args \in Seq(Seq(Words))
    BY ServerAssumption DEF LifeInv, ProcessType
  <2>2. conf = Configure(args)
    BY DEF SettingsInv
  <2> DEFINE kind == Asked("source", [NoValue EXCEPT !.text = "webcamera"]).text
             file == Asked("video_path", [NoValue EXCEPT !.text = "default.avi"]).text
  <2>3. /\ streamer.wire_port = ListeningPort(AskedNumber("port", 53500))
        /\ streamer.compression = AskedNumber("compression", 100)
        /\ streamer.pause = AskedNumber("package_pause", 100)
    <3>1. /\ conf.port = AskedNumber("port", 53500)
          /\ conf.compression = AskedNumber("compression", 100)
          /\ conf.pause = AskedNumber("package_pause", 100)
      BY <2>1, <2>2, ConfigureAsked
    <3>2. /\ streamer.wire_port = InMemory(conf.port)
          /\ streamer.compression = conf.compression
          /\ streamer.pause = conf.pause
      BY DEF SettingsInv, InLoop
    <3> QED
      BY <3>1, <3>2 DEF ListeningPort
  <2>4. /\ conf.source = IF kind \in {"videofile", "ipc"} THEN kind ELSE "webcamera"
        /\ conf.video_path = file /\ conf.cam_id = AskedNumber("cam_id", 0)
    <3>1. conf.video_path = file /\ conf.cam_id = AskedNumber("cam_id", 0)
      BY <2>1, <2>2, ConfigureAsked
    <3>2. conf.source = IF kind \in {"videofile", "ipc"} THEN kind ELSE "webcamera"
      BY <2>1, <2>2, SourceAsked
    <3> QED
      BY <3>1, <3>2
  <2>5. opened = SourceFor(conf.source, conf.video_path, conf.cam_id)
    BY DEF SettingsInv, InLoop
  <2> HIDE DEF kind, file
  <2>6. opened = SourceFor(kind, file, AskedNumber("cam_id", 0))
    <3>1. CASE kind \in {"videofile", "ipc"}
      <4>1. conf.source = kind
        BY <2>4, <3>1
      <4> QED
        BY <2>4, <2>5, <4>1
    <3>2. CASE kind \notin {"videofile", "ipc"}
      <4>1. conf.source = "webcamera"
        BY <2>4, <3>2
      <4>2. opened = <<"webcamera", AskedNumber("cam_id", 0)>>
        BY <2>4, <2>5, <4>1 DEF SourceFor
      <4>3. SourceFor(kind, file, AskedNumber("cam_id", 0)) = <<"webcamera", AskedNumber("cam_id", 0)>>
        BY <3>2 DEF SourceFor
      <4> QED
        BY <4>2, <4>3
    <3> QED
      BY <3>1, <3>2
  <2> QED
    BY <2>3, <2>6 DEF SettingsInEffect, kind, file
<1> QED
  BY <1>1, <1>2, <1>3, PTL DEF Spec

(* Powers of two. *)
LEMMA PowerExact ==
    /\ Power[0] = 1
    /\ \A k \in 1..30 : Power[k] = 2 * Power[k - 1]
    /\ \A k \in 0..30 : Power[k] \in Nat
<1> DEFINE F == [i \in 1..30 |-> [x \in Nat |-> 2 * x]]
           body(f) == [k \in 0..30 |-> IF k = 0 THEN 1 ELSE 2 * f[k - 1]]
<1>1. ASSUME NEW i \in 1..30, NEW x \in Nat
      PROVE  F[i][x] = 2 * x /\ F[i][x] \in Nat
  <2>1. F[i] = [y \in Nat |-> 2 * y]
    OBVIOUS
  <2> HIDE DEF F
  <2>2. F[i][x] = 2 * x
    BY <2>1, Zenon
  <2> QED
    BY <2>2
<1> HIDE DEF F
<1> DEFINE n == 30
           a == 1
<1>2. n \in Nat /\ a \in Nat /\ n = 30 /\ a = 1
  OBVIOUS
<1> HIDE DEF n, a
<1>3. PICK f : Unfolds(f, n, Nat, a, F)
  BY <1>1, <1>2, Recursion
<1>4. f = body(f)
  <2>1. f = [k \in 0..30 |-> f[k]]
    BY <1>2, <1>3 DEF Unfolds
  <2>2. ASSUME NEW k \in 0..30
        PROVE  f[k] = IF k = 0 THEN 1 ELSE 2 * f[k - 1]
    <3>1. CASE k = 0
      BY <3>1, <1>2, <1>3 DEF Unfolds
    <3>2. CASE k # 0
      <4>1. k \in 1..30 /\ k - 1 \in 0..30
        BY <3>2
      <4>2. f[k] = F[k][f[k - 1]] /\ f[k - 1] \in Nat
        BY <4>1, <1>2, <1>3 DEF Unfolds
      <4> QED
        BY <4>1, <4>2, <1>1, <3>2
    <3> QED
      BY <3>1, <3>2
  <2> QED
    BY <2>1, <2>2
<1>5. Power = body(Power)
  BY <1>4 DEF Power
<1> DEFINE g == Power
<1> HIDE DEF g
<1>6. \A k \in 0..30 : g[k] = IF k = 0 THEN 1 ELSE 2 * g[k - 1]
  <2>1. g = body(g)
    BY <1>5 DEF g
  <2> QED
    BY <2>1
<1>7. g[0] = 1 /\ \A k \in 1..30 : g[k] = 2 * g[k - 1]
  BY <1>6
<1> DEFINE T == {k \in 0..30 : g[k] \in Nat}
<1>8. 0 \in T
  BY <1>7
<1>9. ASSUME NEW k \in 1..30, k - 1 \in T
      PROVE  k \in T
  BY <1>7, <1>9
<1> HIDE DEF T
<1>10. 0..30 \subseteq T
  <2>1. 30 \in Nat
    OBVIOUS
  <2>2. \A k \in 1..n : k - 1 \in T => k \in T
    BY <1>2, <1>9
  <2>3. 0..n \subseteq T
    BY <1>2, <1>8, <2>2, UpTo
  <2> QED
    BY <1>2, <2>3
<1> QED
  BY <1>7, <1>10 DEF T, g

LEMMA SmallPowers ==
    /\ Power[0] = 1 /\ Power[1] = 2 /\ Power[2] = 4 /\ Power[3] = 8
    /\ Power[4] = 16 /\ Power[5] = 32 /\ Power[6] = 64 /\ Power[7] = 128
<1> DEFINE g == Power
<1>1. g[0] = 1 /\ \A k \in 1..30 : g[k] = 2 * g[k - 1]
  BY PowerExact
<1> HIDE DEF g
<1>2. /\ g[1] = 2 * g[0] /\ g[2] = 2 * g[1] /\ g[3] = 2 * g[2] /\ g[4] = 2 * g[3]
      /\ g[5] = 2 * g[4] /\ g[6] = 2 * g[5] /\ g[7] = 2 * g[6]
  BY <1>1
<1>3. /\ g[0] = 1 /\ g[1] = 2 /\ g[2] = 4 /\ g[3] = 8
      /\ g[4] = 16 /\ g[5] = 32 /\ g[6] = 64 /\ g[7] = 128
  BY <1>1, <1>2
<1> QED
  BY <1>3 DEF g

(* An octet has eight bits, and they make it up. *)
LEMMA OctetBits ==
    ASSUME NEW n \in 0..255
    PROVE  /\ BitsOf(n) \subseteq 0..7
           /\ n =   (IF 0 \in BitsOf(n) THEN Power[0] ELSE 0)
                  + (IF 1 \in BitsOf(n) THEN Power[1] ELSE 0)
                  + (IF 2 \in BitsOf(n) THEN Power[2] ELSE 0)
                  + (IF 3 \in BitsOf(n) THEN Power[3] ELSE 0)
                  + (IF 4 \in BitsOf(n) THEN Power[4] ELSE 0)
                  + (IF 5 \in BitsOf(n) THEN Power[5] ELSE 0)
                  + (IF 6 \in BitsOf(n) THEN Power[6] ELSE 0)
                  + (IF 7 \in BitsOf(n) THEN Power[7] ELSE 0)
<1>1. \A k \in 8..30 : Power[k] \in Nat /\ Power[k] > 255
  <2> DEFINE g == Power
             T == {k \in 0..30 : k >= 7 => g[k] >= 128}
             m == 30
  <2>1. g[7] = 128 /\ (\A k \in 1..30 : g[k] = 2 * g[k - 1]) /\ \A k \in 0..30 : g[k] \in Nat
    BY PowerExact, SmallPowers
  <2>2. m \in Nat /\ m = 30
    OBVIOUS
  <2> HIDE DEF g, m
  <2>3. 0 \in T
    OBVIOUS
  <2>4. ASSUME NEW k \in 1..30, k - 1 \in T
        PROVE  k \in T
    <3>1. k \in 0..30 /\ k - 1 \in 0..30 /\ g[k] = 2 * g[k - 1] /\ g[k - 1] \in Nat
      BY <2>1
    <3>2. k - 1 >= 7 => g[k - 1] >= 128
      BY <2>4
    <3>3. CASE k = 7
      BY <2>1, <3>3
    <3>4. CASE k # 7
      BY <3>1, <3>2, <3>4
    <3> QED
      BY <3>3, <3>4
  <2> HIDE DEF T
  <2>5. 0..30 \subseteq T
    <3>1. \A k \in 1..m : k - 1 \in T => k \in T
      BY <2>2, <2>4
    <3>2. 0..m \subseteq T
      BY <2>2, <2>3, <3>1, UpTo
    <3> QED
      BY <2>2, <3>2
  <2>6. ASSUME NEW k \in 8..30
        PROVE  g[k] \in Nat /\ g[k] > 255
    <3>1. k - 1 \in 0..30 /\ k \in 0..30 /\ k \in 1..30 /\ k - 1 >= 7
      OBVIOUS
    <3>2. g[k] = 2 * g[k - 1] /\ g[k - 1] \in Nat /\ g[k] \in Nat
      BY <2>1, <3>1
    <3>3. g[k - 1] >= 128
      BY <2>5, <3>1 DEF T
    <3> QED
      BY <3>2, <3>3
  <2> QED
    BY <2>6 DEF g
<1>2. ASSUME NEW k \in 8..30
      PROVE  n \div Power[k] = 0
  <2> DEFINE p == Power[k]
  <2>1. p \in Nat \ {0} /\ n \in 0..(p - 1) /\ n = p * 0 + n
    BY <1>1
  <2> HIDE DEF p
  <2>2. n \div p = 0
    BY <2>1, DivModUnique
  <2> QED
    BY <2>2 DEF p
<1>3. BitsOf(n) \subseteq 0..7
  <2> SUFFICES ASSUME NEW k \in 8..31
               PROVE  k \notin BitsOf(n)
    BY DEF BitsOf
  <2>1. CASE k \in 8..30
    <3>1. Quotient(n, k) = 0
      BY <1>2, <2>1 DEF Quotient
    <3> QED
      BY <3>1 DEF BitsOf
  <2>2. CASE k = 31
    <3>1. n \div Power[30] = 0
      BY <1>2
    <3>2. Quotient(n, k) = 0
      BY <2>2, <3>1 DEF Quotient
    <3> QED
      BY <3>2 DEF BitsOf
  <2> QED
    BY <2>1, <2>2
<1>4. /\ 0 \in BitsOf(n) <=> n % 2 = 1
      /\ 1 \in BitsOf(n) <=> (n \div 2) % 2 = 1
      /\ 2 \in BitsOf(n) <=> (n \div 4) % 2 = 1
      /\ 3 \in BitsOf(n) <=> (n \div 8) % 2 = 1
      /\ 4 \in BitsOf(n) <=> (n \div 16) % 2 = 1
      /\ 5 \in BitsOf(n) <=> (n \div 32) % 2 = 1
      /\ 6 \in BitsOf(n) <=> (n \div 64) % 2 = 1
      /\ 7 \in BitsOf(n) <=> (n \div 128) % 2 = 1
  BY SmallPowers DEF BitsOf, Quotient
<1>5. n =   (IF n % 2 = 1 THEN 1 ELSE 0)
          + (IF (n \div 2) % 2 = 1 THEN 2 ELSE 0)
          + (IF (n \div 4) % 2 = 1 THEN 4 ELSE 0)
          + (IF (n \div 8) % 2 = 1 THEN 8 ELSE 0)
          + (IF (n \div 16) % 2 = 1 THEN 16 ELSE 0)
          + (IF (n \div 32) % 2 = 1 THEN 32 ELSE 0)
          + (IF (n \div 64) % 2 = 1 THEN 64 ELSE 0)
          + (IF (n \div 128) % 2 = 1 THEN 128 ELSE 0)
  OBVIOUS
<1> QED
  BY <1>3, <1>4, <1>5, SmallPowers

(* The bits of every octet of a dotted quad are bits of its own octet of   *)
(* the address.                                                            *)
LEMMA AddressBits ==
    ASSUME NEW ip, DottedQuad(ip), NEW i \in 1..4, NEW j \in 0..7
    PROVE  j + 8 * (4 - i) \in Address(ip) <=> j \in BitsOf(ip.quad[i])
<1> DEFINE bits(o) == BitsOf(Octet(ip, o))
           shifted(o) == {k + 8 * (4 - o) : k \in bits(o)}
<1>1. \A o \in 1..4 : Octet(ip, o) = ip.quad[o] /\ ip.quad[o] \in 0..255
  <2>1. Len(ip.quad) = 4 /\ \A o \in 1..4 : ip.quad[o] \in 0..255
    BY DEF DottedQuad
  <2>2. \A o \in 1..4 : Least(o, 4) = o
    BY DEF Least
  <2>3. \A o \in 1..4 : Octet(ip, o) = ip.quad[o]
    BY <2>1, <2>2, Zenon DEF Octet
  <2> QED
    BY <2>1, <2>3
<1>2. \A o \in 1..4 : bits(o) \subseteq 0..7
  <2> SUFFICES ASSUME NEW o \in 1..4
               PROVE  BitsOf(Octet(ip, o)) \subseteq 0..7
    OBVIOUS
  <2> DEFINE n == Octet(ip, o)
  <2>1. n \in 0..255
    BY <1>1
  <2> HIDE DEF n
  <2>2. BitsOf(n) \subseteq 0..7
    BY <2>1, OctetBits
  <2> QED
    BY <2>2 DEF n
<1>3. Address(ip) = (UNION {shifted(o) : o \in 1..4}) \cap (0..31)
  BY DEF Address
<1> HIDE DEF bits
<1>4. ASSUME NEW o \in 1..4, j + 8 * (4 - i) \in shifted(o)
      PROVE  j \in bits(i)
  <2>1. PICK k \in bits(o) : j + 8 * (4 - i) = k + 8 * (4 - o)
    BY <1>4
  <2>2. k \in 0..7
    BY <1>2
  <2>3. o = i /\ k = j
    BY <2>1, <2>2
  <2> QED
    BY <2>3
<1>5. j + 8 * (4 - i) \in 0..31
  OBVIOUS
<1>6. j \in bits(i) => j + 8 * (4 - i) \in shifted(i)
  OBVIOUS
<1> HIDE DEF shifted
<1>7. j + 8 * (4 - i) \in Address(ip) <=> j \in bits(i)
  BY <1>3, <1>4, <1>5, <1>6
<1> QED
  BY <1>1, <1>7 DEF bits

(* Packets go to the dotted address the user asked for (convert_addr,      *)
(* update_destination).                                                    *)
THEOREM AddressReachesTheStream == Spec => []AddressInEffect
<1>1. Init => LifeInv /\ SettingsInv
  BY InitLife, InitSettings
<1>2. (LifeInv /\ SettingsInv) /\ [Next]_vars => (LifeInv /\ SettingsInv)'
  BY LifeStep, SettingsStep
<1>3. LifeInv /\ SettingsInv => AddressInEffect
  <2> DEFINE ip == Asked("ip", DefaultIp)
  <2> SUFFICES ASSUME LifeInv, SettingsInv, pc = "send", NoBlanks, DottedQuad(ip),
                      NEW i \in 1..4
               PROVE  OctetInUse(i) = ip.quad[i]
    BY DEF AddressInEffect
  <2>1. args \in Seq(Seq(Words))
    BY ServerAssumption DEF LifeInv, ProcessType
  <2>2. streamer.ip = ip
    <3>1. conf = Configure(args) /\ streamer.ip = conf.ip
      BY DEF SettingsInv, InLoop
    <3> QED
      BY <2>1, <3>1, ConfigureAsked
  <2>3. streamer.address \in Conversions(ip) \ {BadAddress}
    BY <2>2 DEF SettingsInv, InLoop
  <2> HIDE DEF ip
  <2>4. streamer.address = Address(ip)
    BY <2>3 DEF Conversions, DottedQuad
  <2>5. ip.quad[i] \in 0..255
    BY DEF DottedQuad
  <2>6. \A j \in 0..7 : j + 8 * (4 - i) \in streamer.address <=> j \in BitsOf(ip.quad[i])
    BY <2>4, AddressBits
  <2> DEFINE value(j) == IF j + 8 * (4 - i) \in streamer.address THEN Power[j] ELSE 0
             bit(j) == IF j \in BitsOf(ip.quad[i]) THEN Power[j] ELSE 0
  <2>7. \A j \in 0..7 : value(j) = bit(j)
    BY <2>6
  <2>8. OctetInUse(i) = value(0) + value(1) + value(2) + value(3) + value(4) + value(5)
                            + value(6) + value(7)
    BY DEF OctetInUse
  <2>9. ip.quad[i] = bit(0) + bit(1) + bit(2) + bit(3) + bit(4) + bit(5) + bit(6) + bit(7)
    BY <2>5, OctetBits
  <2> HIDE DEF value, bit
  <2>10. /\ value(0) = bit(0) /\ value(1) = bit(1) /\ value(2) = bit(2) /\ value(3) = bit(3)
         /\ value(4) = bit(4) /\ value(5) = bit(5) /\ value(6) = bit(6) /\ value(7) = bit(7)
    BY <2>7
  <2> QED
    BY <2>8, <2>9, <2>10
<1> QED
  BY <1>1, <1>2, <1>3, PTL DEF Spec
===========================================================================
