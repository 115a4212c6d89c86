---------------------------- MODULE DwrrService -----------------------------
(***************************************************************************)
(* sch_dwrr over time, as the senders and the link see it, with two        *)
(* history variables.  debt is the level of a leaky bucket fed by the      *)
(* departures: it drains one ns per ns and every packet adds its           *)
(* transmission time.  It is the largest excess, over all intervals that   *)
(* end with the last departure, of the transmission time of what was sent  *)
(* over the length of the interval.  arrived holds, in step with each      *)
(* FIFO, when its packets were enqueued.                                   *)
(***************************************************************************)
EXTENDS DwrrQdisc

VARIABLES debt, arrived

serviceVars == <<vars, debt, arrived>>

\* A dequeue transmits: time_ns is the time of the departure before this one.
Pay ==
    debt' = IF qlen' < qlen
            THEN Greater(debt - (time_ns' - time_ns), 0) + L2T(wire'.size)
            ELSE debt

\* The queue, if any, that a packet enters or leaves in this step.
Entered(c) == Len(fifo'[c]) > Len(fifo[c])
Left(c)    == Len(fifo'[c]) < Len(fifo[c])

RecordArrivals ==
    arrived' = [c \in Queues |-> IF Entered(c) THEN Append(arrived[c], now)
                                 ELSE IF Left(c) THEN Tail(arrived[c])
                                 ELSE arrived[c]]

ServiceInit == Init /\ debt = 0 /\ arrived = [c \in Queues |-> <<>>]
ServiceNext == Next /\ Pay /\ RecordArrivals
ServiceSpec == ServiceInit /\ [][ServiceNext]_serviceVars

\* An assumption on the administrator: marking is not switched between the schemes that
\* read the time stamps of enqueue and those that do not set them.
BySojourn == {"tcn", "codel"}
KeepsKind == ecn_scheme' \in BySojourn <=> ecn_scheme \in BySojourn

\* Under that assumption, with time passing as in TimedSpec.
TimedService ==
    /\ ServiceInit /\ [][ServiceNext /\ KeepsKind]_serviceVars
    /\ Fairness /\ WF_vars(\E d \in TickSteps : Tick(d))
-----------------------------------------------------------------------------
\* Over any interval the packets sent take at most the length of the interval
\* plus twice the bucket at the configured rate.
RateConformance == debt <= 2 * BucketNs

\* Over any interval the packets sent exceed the rate by at most the "bucket size"
\* of params.h: tbf_schedule adds the time since the checkpoint, up to a
\* bucket, to tokens that may already be a bucket, and does not cap the sum.
BurstWithinBucket == debt <= BucketNs

\* A packet marked as it leaves has waited longer than TCN's threshold, or, under
\* CoDel, at least as long as its target.  "sojourn time based ECN marking: TCN and
\* CoDel" (main.c:641).
SojournMarksTrue ==
    [][\A c \in Queues :
           ecn_scheme \in BySojourn /\ Left(c) /\ wire'.ce /\ ~ Head(fifo[c]).ce =>
               LET delay == CodelTime(now - Head(arrived[c]))
               IN  IF ecn_scheme = "tcn" THEN delay > TcnThresh
                                         ELSE delay >= CodelTarget]_serviceVars
=============================================================================
