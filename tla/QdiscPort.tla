----------------------------- MODULE QdiscPort ------------------------------
(***************************************************************************)
(* What sch_dwrr and sch_wfq have in common beyond a buffered port:        *)
(* NumPrios priorities the classes are assigned to, marking at dequeue,    *)
(* and a token bucket whose size is given in bytes.                        *)
(***************************************************************************)
EXTENDS BufferedPort

CONSTANTS
    NumPrios,      \* dwrr_max_prio
    DequeueEcn,    \* dwrr_enable_dequeue_ecn
    RateMult,      \* dwrr_rate_cfg.mult
    RateDiv,       \* 2 ^ dwrr_rate_cfg.shift
    BucketBytes    \* dwrr_bucket_bytes

Prios == 0 .. NumPrios - 1

ASSUME PortAssumption ==
    /\ NumPrios \in Nat \ {0}
    /\ DequeueEcn \in BOOLEAN
    /\ RateMult \in Nat /\ RateDiv \in Nat \ {0}
    /\ BucketBytes \in Nat

\* What the last dequeue returned if it was not a packet.
NoPacket == [queue |-> -1, prio |-> -1, size |-> 0, at |-> 0, ce |-> FALSE]
-----------------------------------------------------------------------------
\* Length (bytes) to time (ns) at the configured rate.
L2T(bytes) == LengthToTime(bytes, RateMult, RateDiv)

BucketNs == L2T(BucketBytes)

\* A mutant of TbfSchedule: the time already turned into tokens counts again.
TbfScheduleAgain(size, tokens, time_ns, now) ==
    Lesser(now, BucketNs) + tokens - L2T(size)

\* The tokens (ns) left if a packet of size bytes is sent at time now, with
\* tokens banked at the checkpoint time_ns: negative if it must wait.
TbfSchedule(size, tokens, time_ns, now) ==
    Lesser(now - time_ns, BucketNs) + tokens - L2T(size)
=============================================================================
