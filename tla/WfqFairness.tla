---------------------------- MODULE WfqFairness -----------------------------
(***************************************************************************)
(* How evenly sch_wfq serves the classes of a priority.  The history       *)
(* variable lead[c][d] is the virtual service (bytes over weight) that c   *)
(* got, less what d got, since both have packets and the same priority and *)
(* the weights are what they are.                                          *)
(***************************************************************************)
EXTENDS WfqQdisc

VARIABLE lead

\* Virtual service a step gives to c: a packet of it leaves.
Served(c) ==
    IF Len(fifo'[c]) < Len(fifo[c]) THEN Share(wire'.size, queue_weight[c]) ELSE 0

Competing(c, d) == fifo[c] # <<>> /\ fifo[d] # <<>> /\ prio[c] = prio[d]

Compare ==
    lead' = [c \in Queues |-> [d \in Queues |->
                IF Competing(c, d)' /\ queue_weight' = queue_weight
                THEN lead[c][d] + Served(c) - Served(d) ELSE 0]]

FairnessInit == Init /\ lead = [c \in Queues |-> [d \in Queues |-> 0]]
FairnessNext == Next /\ Compare
FairnessSpec == FairnessInit /\ [][FairnessNext]_<<vars, lead>> /\ Fairness

\* Over any period in which two classes of a priority both have packets, the
\* bytes they send stay in proportion to their weights: as long as the weights do
\* not change, neither gets ahead of the other by more virtual service than one
\* large packet of every class and one more, whatever the finish times it began with.
WeightedFairness ==
    \A c, d \in Queues : lead[c][d] <= (NumQueues + 1) * MaxShare
=============================================================================
