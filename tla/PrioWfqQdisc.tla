---------------------------- MODULE PrioWfqQdisc ----------------------------
(***************************************************************************)
(* The qdisc sch_prio_wfq: NumPrioQueues queues in strict priority above   *)
(* queues scheduled by weighted fair queueing, behind one token bucket,    *)
(* with ECN marking at enqueue or by sojourn time.  Enqueue and dequeue    *)
(* hold the root lock of the qdisc, so each is one action.                 *)
(***************************************************************************)
EXTENDS PrioPort, VirtualTime, FiniteSetsExt

CONSTANT WeightChoices     \* per queue, values written to QUEUE_WEIGHT

WfqQueues == Queues \ PrioQueues

\* The virtual time the largest packet takes at the least weight.
MaxShare == Max({Share(SkbSize(len), w) : len \in PktLens,
                                          w \in UNION {WeightChoices[c] : c \in WfqQueues}})

\* The bounds of the weights; the schemes 3 and 4 mark nothing, as "none".  There is a
\* largest packet, it takes less than half the range of virtual times, which is 2^64,
\* and one such packet of every WFQ queue no more than half.
ASSUME PrioWfqAssumption ==
    /\ WfqQueues # {}
    /\ EcnSchemes \subseteq {"none", "queue", "port", "deque"}
    /\ WeightChoices \in [WfqQueues -> SUBSET (1 .. MinPktBytes)]
    /\ \E max \in PktLens : \A len \in PktLens : len <= max
    /\ 2 * MaxShare < TimeWrap
    /\ 2 * (NumQueues - NumPrioQueues) * MaxShare <= TimeWrap

VARIABLES
    queue_weight,          \* sysctl
    head_finish_time,      \* struct wfq_class
    sum_prio_len_bytes, virtual_time

tagVars == <<head_finish_time, virtual_time>>
wfqVars == <<queue_weight, tagVars, sum_prio_len_bytes>>
vars    == <<portVars, wfqVars>>
-----------------------------------------------------------------------------
Init ==
    /\ PortInit
    /\ queue_weight \in {f \in [WfqQueues -> 1 .. MinPktBytes] :
                             \A c \in WfqQueues : f[c] \in WeightChoices[c]}
    /\ head_finish_time = [c \in WfqQueues |-> 0]
    /\ virtual_time = 0
    /\ sum_prio_len_bytes = 0
-----------------------------------------------------------------------------
\* prio_wfq_qdisc_enqueue.
Drop(c, len) == Refused(c, len) /\ UNCHANGED <<fifoVars, tagVars, sum_prio_len_bytes>>

AdmitPrio(c, len) ==
    /\ c \in PrioQueues
    /\ ~ Refused(c, len)
    /\ sum_prio_len_bytes' = sum_prio_len_bytes + SkbSize(len)
    /\ Insert(c, len, StaticMark(c))
    /\ UNCHANGED tagVars

\* The packet comes to the head of an empty queue: it finishes behind all others.
Tag(c, size) ==
    /\ head_finish_time' = [head_finish_time EXCEPT ![c] =
                                FinishTime(virtual_time, size, queue_weight[c])]
    /\ virtual_time' = head_finish_time'[c]

AdmitWfq(c, len) ==
    /\ c \in WfqQueues
    /\ ~ Refused(c, len)
    /\ IF len_bytes[c] = 0 THEN Tag(c, SkbSize(len)) ELSE UNCHANGED tagVars
    /\ Insert(c, len, StaticMark(c))
    /\ UNCHANGED sum_prio_len_bytes

Enqueue(dscp, len) ==
    LET c == Classify(dscp)
    IN  /\ run' = TRUE
        /\ Drop(c, len) \/ AdmitPrio(c, len) \/ AdmitWfq(c, len)
        /\ UNCHANGED <<now, watchdog, wire, configVars, bucketVars, queue_weight>>
-----------------------------------------------------------------------------
\* prio_wfq_qdisc_dequeue.
DequeueNothing ==
    /\ run /\ sum_len_bytes = 0
    /\ ReturnNull
    /\ UNCHANGED wfqVars

\* Priority queues first; the mutant serves them when nothing else is queued.
PrioTurnLast == sum_prio_len_bytes = sum_len_bytes /\ sum_len_bytes > 0
PrioTurn     == sum_prio_len_bytes > 0

ThrottlePrio(c) ==
    /\ Result(HeadSize(c)) < 0
    /\ Arm(Result(HeadSize(c)))
    /\ UNCHANGED wfqVars

TransmitPrio(c) ==
    /\ Result(HeadSize(c)) >= 0
    /\ Leave(c, Result(HeadSize(c)))
    /\ sum_prio_len_bytes' = sum_prio_len_bytes - HeadSize(c)
    /\ UNCHANGED <<queue_weight, tagVars>>

WfqTurn == ~ PrioTurn /\ sum_len_bytes > 0

\* The queue with the smallest finish time: the loop keeps the first one it meets
\* until a later one is before it.  The mutant never replaces it.
HeadClassFirst == Min({c \in WfqQueues : len_bytes[c] > 0})

HeadClass ==
    LET best[c \in WfqQueues \cup {NumPrioQueues - 1}] ==
            IF c = NumPrioQueues - 1 THEN -1
            ELSE IF /\ len_bytes[c] > 0
                    /\ best[c - 1] = -1
                         \/ TimeBefore(head_finish_time[c], head_finish_time[best[c - 1]])
                 THEN c ELSE best[c - 1]
    IN  best[NumQueues - 1]

\* Not more tokens than the packet takes.
ThrottleWfq(c) ==
    /\ Result(HeadSize(c)) <= 0
    /\ Arm(Result(HeadSize(c)))
    /\ UNCHANGED wfqVars

\* The finish time of the packet behind the one sent, which drives the clock.
Advance(c) ==
    /\ head_finish_time' = [head_finish_time EXCEPT ![c] =
           FinishTime(@, SkbSize(fifo[c][2].len), queue_weight[c])]
    /\ virtual_time' = Later(virtual_time, head_finish_time'[c])

TransmitWfq(c) ==
    /\ Result(HeadSize(c)) > 0
    /\ Leave(c, Result(HeadSize(c)))
    /\ IF len_bytes'[c] > 0 THEN Advance(c) ELSE UNCHANGED tagVars
    /\ UNCHANGED <<queue_weight, sum_prio_len_bytes>>

Dequeue ==
    \/ DequeueNothing
    \/ /\ run /\ PrioTurn
       /\ \E c \in {PrioHead} : ThrottlePrio(c) \/ TransmitPrio(c)
    \/ /\ run /\ WfqTurn
       /\ \E c \in {HeadClass} : ThrottleWfq(c) \/ TransmitWfq(c)
-----------------------------------------------------------------------------
SetQueueWeight(c, w) ==
    /\ queue_weight' = [queue_weight EXCEPT ![c] = w]
    /\ UNCHANGED <<portVars, tagVars, sum_prio_len_bytes>>

Next ==
    \/ \E dscp \in Dscps, len \in PktLens : Enqueue(dscp, len)
    \/ Dequeue
    \/ Environment /\ UNCHANGED wfqVars
    \/ \E c \in WfqQueues : \E w \in WeightChoices[c] : SetQueueWeight(c, w)

Spec == Init /\ [][Next]_vars

-----------------------------------------------------------------------------
(***************************************************************************)
(* Properties.                                                             *)
(***************************************************************************)
\* Every variable keeps its type; in particular the tokens are never negative and
\* never exceed the bucket, and virtual times stay within their width.
TypeOK ==
    /\ PortTypeOK
    /\ queue_weight \in [WfqQueues -> 1 .. MinPktBytes]
    /\ head_finish_time \in [WfqQueues -> VirtualTimes]
    /\ virtual_time \in VirtualTimes
    /\ sum_prio_len_bytes \in Int

\* The counters are what is queued; the choice between priority and WFQ queues and
\* the test for an idle port rest on the two sums.
AccountingExact ==
    /\ PortAccounting
    /\ sum_prio_len_bytes = TotalOver(PrioQueues, len_bytes)

Backlogged == {c \in WfqQueues : fifo[c] # <<>>}

\* The finish times stay together, also over long spells of priority traffic: each
\* queue lags behind the virtual time by at most one large packet for every other
\* queue with packets.  So comparing them modulo the width orders them, however
\* long the qdisc has been running.
FinishTimesTogether ==
    \A c \in Backlogged :
        (virtual_time - head_finish_time[c]) % TimeWrap
            <= (Cardinality(Backlogged) - 1) * MaxShare

\* Among the WFQ queues, none is passed over for long: a packet that leaves finishes,
\* in virtual time, no later than the head of any other queue that waits, nor earlier
\* by more than one large packet for every other queue with packets.
EarliestFinishFirst ==
    [][\A c \in Backlogged : Len(fifo'[c]) < Len(fifo[c]) =>
           \A d \in Backlogged :
               (head_finish_time[d] - head_finish_time[c]) % TimeWrap
                   <= (Cardinality(Backlogged) - 1) * MaxShare]_vars

\* All WFQ queues rank behind the priority queues.
Rank == [c \in Queues |-> Lesser(c, NumPrioQueues)]

Port == INSTANCE PriorityFifos
            WITH Classes <- Queues, SizeOf <- WireSize, Nothing <- Seen(NoPacket),
                 rank <- Rank, out <- Seen(wire)

\* sch_prio_wfq is a port of FIFOs in strict priority: a priority packet that arrives
\* while a WFQ packet waits for tokens goes first, and nothing is reordered.
ImplementsPort == Port!Spec
=============================================================================
