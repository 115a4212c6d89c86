---------------------------- MODULE VirtualTime -----------------------------
(***************************************************************************)
(* The virtual time of weighted fair queueing: u64 values that wrap, so    *)
(* that TimeWrap is 2^64 in the code and small in a model.  sch_wfq and    *)
(* sch_prio_wfq have the same functions; the line numbers are sch_wfq's.   *)
(***************************************************************************)
EXTENDS Integers

CONSTANT TimeWrap   \* 1 << 64

ASSUME WrapAssumption == TimeWrap \in Nat \ {0}

VirtualTimes == 0 .. TimeWrap - 1
-----------------------------------------------------------------------------
\* A mutant of TimeBefore: virtual times compared as plain numbers.
TimeBeforeNoWrap(time1, time2) == time1 < time2

\* wfq_time_before: time1 is less than half the range behind time2.
TimeBefore(time1, time2) ==
    \/ time1 < time2 /\ time2 - time1 <= TimeWrap \div 2
    \/ time1 > time2 /\ time1 - time2 > TimeWrap \div 2

\* max_timestamp of sch_prio_wfq, which sch_wfq has in line.
Later(time1, time2) == IF TimeBefore(time1, time2) THEN time2 ELSE time1

\* Virtual time a packet of size bytes takes in a class with this weight.
Share(size, weight) == size \div weight

\* The finish time of a packet that starts its service at virtual time start.
FinishTime(start, size, weight) == (start + Share(size, weight)) % TimeWrap
=============================================================================
