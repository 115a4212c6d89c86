------------------------------- MODULE Ns2Wfq -------------------------------
(***************************************************************************)
(* The ns-2 queue WFQ: weighted fair queueing by the virtual finish times  *)
(* of the head packets, with MQ-ECN by the sum of the weights ("gener").   *)
(* What does not concern priority queues is stated for the queues after    *)
(* them, for PRIO_WFQ; WFQ has no priority queue.                          *)
(***************************************************************************)
EXTENDS Ns2Shares

CONSTANT FinishUnit     \* the unit of the finish times: 1 / FinishUnit

ASSUME FinishUnitAssumption == FinishUnit \in Nat \ {0}

VARIABLES
    headFinishTime,    \* of the head packet of each queue; NoFinish for LDBL_MAX
    currTime           \* the latest finish time given to a packet

wfqVars == <<headFinishTime, currTime>>

NoFinish == -1
WfqInit == headFinishTime = [c \in ShareQueues |-> 0] /\ currTime = 0
-----------------------------------------------------------------------------
VirtualTime(c, size) == (size * FinishUnit) \div share[c]

\* MarkingECN for a WFQ queue.
WfqMark(c, len, total) ==
    \/ StaticMark(c, len, total)
    \/ marking_scheme_ = "gener" /\ ShareMark(c, len, share_sum_estimate')

\* The start of enque.
WfqAfterIdle ==
    /\ StartTimer
    /\ share_sum_estimate' = IF FoundEmpty /\ TimerOff THEN IdleSum ELSE share_sum_estimate
    /\ last_update_time' = IF FoundEmpty /\ TimerOff THEN now ELSE last_update_time

\* A queue that was empty gets a finish time after all others (the mutant continues from
\* the packet it sent last).
WfqActivateFromOwn(c, size) ==
    LET own == IF headFinishTime[c] = NoFinish THEN 0 ELSE headFinishTime[c]
    IN  /\ share_sum' = share_sum + share[c]
        /\ headFinishTime' = [headFinishTime EXCEPT ![c] = own + VirtualTime(c, size)]
        /\ currTime' = currTime

WfqActivate(c, size) ==
    /\ share_sum' = share_sum + share[c]
    /\ headFinishTime' = [headFinishTime EXCEPT ![c] = currTime + VirtualTime(c, size)]
    /\ currTime' = currTime + VirtualTime(c, size)

\* The packet joins a WFQ queue.
WfqJoin(c, size, ect) ==
    /\ Insert(c, size, ect, WfqMark(c, ByteLength(c) + size, TotalByteLength + size))
    /\ IF fifo[c] = <<>> THEN WfqActivate(c, size) ELSE UNCHANGED <<wfqVars, share_sum>>

\* WFQ::enque.
WfqEnque(prio, size, ect) ==
    /\ event = "none"
    /\ WfqAfterIdle
    /\ IF Overfilled(size) THEN Drop /\ UNCHANGED <<wfqVars, share_sum>>
       ELSE WfqJoin(QueueOf(prio), size, ect)
    /\ UNCHANGED shareVars
-----------------------------------------------------------------------------
\* The queue with the earliest finish time, the first of several.
Earliest ==
    CHOOSE c \in ShareQueues :
        /\ fifo[c] # <<>>
        /\ \A d \in ShareQueues \ {c} : fifo[d] # <<>> =>
              \/ headFinishTime[c] < headFinishTime[d]
              \/ headFinishTime[c] = headFinishTime[d] /\ c < d

\* last_idle_time is kept only where it is used.
WfqNoteIdle(bytes) == IF TimerOff THEN NoteIdle(bytes) ELSE UNCHANGED last_idle_time

\* The finish time of the next packet of queue c, or the end of the queue.
Advance(c) ==
    IF Len(fifo[c]) > 1
    THEN LET time == headFinishTime[c] + VirtualTime(c, fifo[c][2].size)
         IN  /\ headFinishTime' = [headFinishTime EXCEPT ![c] = time]
             /\ currTime' = IF currTime < time THEN time ELSE currTime
             /\ UpdateEstimate(share_sum)
    ELSE /\ headFinishTime' = [headFinishTime EXCEPT ![c] = NoFinish]
         /\ UpdateEstimate(share_sum - share[c])
         /\ UNCHANGED currTime

WfqServe ==
    LET c == Earliest
    IN  /\ event = "deque" /\ LengthOf(PrioQueues) = 0 /\ LengthOf(ShareQueues) > 0
        /\ Leave(c, FALSE)
        /\ Advance(c)
        /\ WfqNoteIdle(LengthOf(ShareQueues) - Head(fifo[c]).size)
        /\ UNCHANGED share

\* deque finds no packet at all.
WfqServeNothing ==
    /\ event = "deque" /\ TotalByteLength = 0
    /\ ReturnNull
    /\ UpdateEstimate(share_sum) /\ WfqNoteIdle(0)
    /\ UNCHANGED <<share, wfqVars>>

\* WFQ::deque.
WfqDeque == WfqServe \/ WfqServeNothing

WfqSetWeight ==
    \E c \in ShareQueues, value \in ShareChoices :
        SetShare(c, value) /\ UNCHANGED <<sumVars, wfqVars>>

WfqTimeout == Timeout /\ UNCHANGED wfqVars
WfqResume  == Resume /\ UNCHANGED <<shareVars, sumVars, wfqVars>>
WfqTick    == Tick /\ timer # now /\ UNCHANGED <<shareVars, sumVars, wfqVars>>

WfqNext ==
    \/ \E prio \in PktPrios, size \in PktSizes, ect \in PktEcts : WfqEnque(prio, size, ect)
    \/ WfqDeque
    \/ WfqSetWeight
    \/ WfqTimeout \/ WfqResume \/ WfqTick

-----------------------------------------------------------------------------
Backlogged == {c \in ShareQueues : fifo[c] # <<>>}
=============================================================================
