----------------------------- MODULE Ns2PrioWfq -----------------------------
(***************************************************************************)
(* The ns-2 queue PRIO_WFQ: WFQ queues below strict priority queues.  The  *)
(* line numbers of what it takes from Ns2Wfq are those of WFQ; the classes *)
(* share no code, but they differ only in what is stated here.             *)
(***************************************************************************)
EXTENDS Ns2Wfq

\* MarkingECN for a priority queue: MQ-ECN gives it a threshold of its own.
PrioWfqMark(c, len, total) ==
    \/ StaticMark(c, len, total)
    \/ marking_scheme_ = "gener" /\ len > thresh[c]

PrioWfqJoin(c, size, ect) ==
    /\ Insert(c, size, ect, PrioWfqMark(c, ByteLength(c) + size, TotalByteLength + size))
    /\ UNCHANGED <<wfqVars, share_sum>>

\* PRIO_WFQ::enque: a packet of any queue lets the estimate decay if the WFQ queues are
\* empty.
PrioWfqEnque(prio, size, ect) ==
    LET c == QueueOf(prio)
    IN  /\ event = "none"
        /\ WfqAfterIdle
        /\ IF Overfilled(size) THEN Drop /\ UNCHANGED <<wfqVars, share_sum>>
           ELSE IF c \in PrioQueues THEN PrioWfqJoin(c, size, ect) ELSE WfqJoin(c, size, ect)
        /\ UNCHANGED shareVars

\* PRIO_WFQ::deque, which returns a priority packet before the estimate and the idle time
\* are brought up to date.
PrioWfqServePrio ==
    /\ PrioTurn
    /\ Leave(PrioHead, FALSE)
    /\ UNCHANGED <<shareVars, sumVars, wfqVars>>

PrioWfqServe  == WfqServe
PrioWfqDeque == PrioWfqServePrio \/ PrioWfqServe \/ WfqServeNothing

\* The commands and the timer are those of WFQ.
PrioWfqSetWeight == WfqSetWeight
PrioWfqTimeout   == WfqTimeout

PrioWfqNext ==
    \/ \E prio \in PktPrios, size \in PktSizes, ect \in PktEcts : PrioWfqEnque(prio, size, ect)
    \/ PrioWfqDeque
    \/ PrioWfqSetWeight
    \/ PrioWfqTimeout \/ WfqResume \/ WfqTick
=============================================================================
