---------------------------- MODULE PrioService -----------------------------
(***************************************************************************)
(* The service of sch_prio.  The history variable debt is the level of a   *)
(* leaky bucket fed by the departures, as in DwrrService: the largest      *)
(* excess, over all intervals that end with the last departure, of the     *)
(* transmission time of what was sent over the length of the interval.     *)
(***************************************************************************)
EXTENDS PrioQdisc

VARIABLE debt

Meter ==
    debt' = IF qlen' < qlen
            THEN Greater(debt - (time_ns' - time_ns), 0) + L2T(wire'.size)
            ELSE debt

ServiceInit == Init /\ debt = 0
ServiceNext == Next /\ Meter
ServiceSpec == ServiceInit /\ [][ServiceNext]_<<vars, debt>> /\ Fairness

\* Over any interval the packets sent take at most the length of the interval
\* plus twice the bucket, each at the rate that was in use when it was sent, also
\* while the rate is replaced.
RateConformance == debt <= 2 * BucketNs
=============================================================================
