----------------------------- MODULE PrioQdisc ------------------------------
(***************************************************************************)
(* The qdisc sch_prio: NumQueues byte FIFOs served in strict priority      *)
(* behind a token bucket, with ECN marking at enqueue or by sojourn time.  *)
(***************************************************************************)
EXTENDS PrioPort

\* All queues are priority queues.
ASSUME AllPrioAssumption ==
    NumPrioQueues = NumQueues /\ EcnSchemes \subseteq {"none", "queue", "port", "deque"}

vars == portVars

Init == PortInit
-----------------------------------------------------------------------------
\* prio_qdisc_enqueue.  The marking comes before the child's enqueue, with the
\* lengths the packet will make.  The kernel runs the qdisc after it.
Drop(c, len) == Refused(c, len) /\ UNCHANGED fifoVars

Admit(c, len) == ~ Refused(c, len) /\ Insert(c, len, StaticMark(c))

Enqueue(dscp, len) ==
    LET c == Classify(dscp)
    IN  /\ run' = TRUE
        /\ Drop(c, len) \/ Admit(c, len)
        /\ UNCHANGED <<now, watchdog, wire, configVars, bucketVars>>

\* prio_qdisc_dequeue.
DequeueNothing == run /\ BusyPrioQueues = {} /\ ReturnNull

Throttle(c) == Result(HeadSize(c)) < 0 /\ Arm(Result(HeadSize(c)))

Transmit(c) == Result(HeadSize(c)) >= 0 /\ Leave(c, Result(HeadSize(c)))

Dequeue ==
    \/ DequeueNothing
    \/ /\ run /\ BusyPrioQueues # {}
       /\ \E c \in {PrioHead} : Throttle(c) \/ Transmit(c)

Next ==
    \/ \E dscp \in Dscps, len \in PktLens : Enqueue(dscp, len)
    \/ Dequeue
    \/ Environment

Spec == Init /\ [][Next]_vars

\* __qdisc_run keeps calling dequeue, hrtimers fire, time passes and a change of
\* the rate runs to its end.
Fairness ==
    /\ WF_vars(Dequeue)
    /\ WF_vars(WatchdogFire)
    /\ WF_vars(\E d \in TickSteps : Tick(d))
    /\ WF_vars(Recompute)
-----------------------------------------------------------------------------
(***************************************************************************)
(* Properties.                                                             *)
(***************************************************************************)
\* See PortTypeOK.
TypeOK == PortTypeOK

\* The qdisc does not stall: if the bucket can hold the tokens for every packet, it
\* never remains full while packets wait, unless the watchdog is armed for later (a
\* packet throttled while the rate is being replaced may wait long).  Packets arrive
\* and the device wakes the queue as they like; neither is needed.
NeverStalls == []<>(qlen = 0 \/ now - time_ns < BucketNs \/ now < watchdog)

\* A throttled sch_prio always wakes up: when packets wait and no run is due, the
\* watchdog is armed, also while the rate is replaced.
ThrottledIsArmed == ~ run /\ BusyPrioQueues # {} => watchdog # NoTimer

Port == INSTANCE PriorityFifos
            WITH Classes <- Queues, SizeOf <- WireSize, Nothing <- Seen(NoPacket),
                 rank <- [c \in Queues |-> c], out <- Seen(wire)

\* sch_prio is a port of FIFOs in strict priority, also while its rate is replaced:
\* peek and dequeue_peeked, two searches of the queues, find the same packet.
ImplementsPort == Port!Spec
=============================================================================
