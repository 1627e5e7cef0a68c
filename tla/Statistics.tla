----------------------------- MODULE Statistics -----------------------------
(***************************************************************************)
(* TrafficStat (stream_traffic_stat.cpp) and TimingStat                    *)
(* (stream_timing_stat.cpp) as values: each operator returns what the      *)
(* method leaves of the object.  All readings of the clock within one call *)
(* are one instant.                                                        *)
(***************************************************************************)
EXTENDS Integers, Sequences, FiniteSetsExt, Pages

CONSTANTS
    Interval,     \* _stat_interval_usec, in ticks of the clock
    IntRange,     \* number of values of an int (2^32)
    Window,       \* timestamps a TimingStat keeps (25)
    Second        \* ticks in a second

ASSUME StatisticsAssumption ==
    /\ Interval \in Nat
    /\ IntRange \in Nat \ {0}
    /\ Interval < IntRange \div 2
    /\ Window \in Nat \ {0, 1}
    /\ Second \in Nat \ {0}

NewTraffic == [events |-> <<>>, accumulator |-> 0]

SumOf(events) ==
    LET upTo[i \in 0..Len(events)] ==
            IF i = 0 THEN 0 ELSE upTo[i - 1] + events[i].amount
    IN upTo[Len(events)]

(* usecs_to_tail: 64 bits of microseconds, returned as an int. *)
Age(event, now) ==
    LET low == (now - event.stamp) % IntRange
    IN IF low < IntRange \div 2 THEN low ELSE low - IntRange

(* The events the loop of check_fifo removes: those before the first that  *)
(* is young enough.  After the last removal it reads the age at the front  *)
(* of an empty queue, and does not use what it gets.                       *)
Outdated(events, now) ==
    Min({n \in 0..Len(events) : n = Len(events) \/ Age(events[n + 1], now) <= Interval})

(* A window that is shortened by one event at most. *)
CheckFifoOnce(stat, now) ==
    LET n == Least(1, Outdated(stat.events, now))
    IN [events      |-> SubSeq(stat.events, n + 1, Len(stat.events)),
        accumulator |-> stat.accumulator - SumOf(SubSeq(stat.events, 1, n))]

CheckFifo(stat, now) ==
    LET n == Outdated(stat.events, now)
    IN [events      |-> SubSeq(stat.events, n + 1, Len(stat.events)),
        accumulator |-> stat.accumulator - SumOf(SubSeq(stat.events, 1, n))]

AddTransaction(stat, bytes, now) ==
    CheckFifo([events      |-> Append(stat.events, [amount |-> bytes, stamp |-> now]),
               accumulator |-> stat.accumulator + bytes], now)
---------------------------------------------------------------------------
(* TimingStat: the newest timestamp first. *)

(* A window without a limit. *)
PushEventAll(stamps, now) == <<now>> \o stamps

(* A window that refuses the newest timestamp. *)
PushEventDropsNew(stamps, now) ==
    IF Len(stamps) < Window THEN <<now>> \o stamps ELSE stamps

PushEvent(stamps, now) == SubSeq(<<now>> \o stamps, 1, Least(Len(stamps) + 1, Window))

(* n frames in a number of milliseconds, as a fraction. *)
Rate(n, ticks) ==
    LET msecs == (1000 * ticks) \div Second
    IN IF msecs = 0 THEN <<1000, 1>> ELSE <<1000 * n, msecs>>

GetFps(stamps) ==
    IF Len(stamps) > 1 THEN Rate(1, stamps[1] - stamps[2]) ELSE <<0, 1>>

GetAverageFps(stamps) ==
    IF Len(stamps) > 1
    THEN Rate(Len(stamps) - 1, stamps[1] - stamps[Len(stamps)]) ELSE <<0, 1>>
===========================================================================
