------------------------------- MODULE Ns2Wrr -------------------------------
(***************************************************************************)
(* The ns-2 queue WRR: the queues have their turns in a fixed order, an    *)
(* empty one is passed over, and no deficit is kept.  The round time is    *)
(* always estimated, as MQ-ECN's scheme "rr" needs it.                     *)
(***************************************************************************)
EXTENDS Ns2Shares

VARIABLES
    current,           \* the queue whose turn it is
    counter,           \* the bytes it may still send in this turn
    counter_updated    \* whether a queue got its quantum in this turn

wrrVars == <<current, counter, counter_updated>>

WrrInit ==
    /\ current = 0
    /\ counter = [c \in PortQueues |-> 0]
    /\ counter_updated = [c \in PortQueues |-> FALSE]
-----------------------------------------------------------------------------
\* MarkingECN for a WRR queue.
WrrMark(c, len, total) ==
    \/ StaticMark(c, len, total)
    \/ marking_scheme_ = "rr" /\ ShareMark(c, len, round_time')

\* The start of enque: at an empty port all rounds begin anew.
WrrAfterIdle ==
    /\ round_time' = IF FoundEmpty THEN IdleRound(RoundAlpha) ELSE round_time
    /\ start_time' = IF FoundEmpty THEN [c \in PortQueues |-> now] ELSE start_time

\* WRR::enque.
WrrEnque(prio, size, ect) ==
    LET c == QueueOf(prio)
    IN  /\ event = "none"
        /\ WrrAfterIdle
        /\ IF Overfilled(size) THEN Drop
           ELSE Insert(c, size, ect, WrrMark(c, ByteLength(c) + size, TotalByteLength + size))
        /\ UNCHANGED <<shareVars, wrrVars>>
-----------------------------------------------------------------------------
WrrTurn == event = "deque" /\ TotalByteLength > 0
Counter == IF counter_updated[current] THEN counter[current] ELSE share[current]

\* The turn ends and the next round of the queue begins at time start (the mutant
\* begins that of the next queue).
NextQueueOther(start) ==
    /\ start_time' = [start_time EXCEPT ![(current + 1) % queue_num_] = start]
    /\ counter_updated' = [counter_updated EXCEPT ![current] = FALSE]
    /\ current' = (current + 1) % queue_num_

NextQueue(start) ==
    /\ start_time' = [start_time EXCEPT ![current] = start]
    /\ counter_updated' = [counter_updated EXCEPT ![current] = FALSE]
    /\ current' = (current + 1) % queue_num_

\* An empty queue has no round.
PassEmpty ==
    /\ WrrTurn /\ fifo[current] = <<>>
    /\ NextQueue(now)
    /\ UNCHANGED <<portVars, shareVars, round_time, counter>>

\* The rest of the quantum is less than the head packet.
PassSpent ==
    /\ WrrTurn /\ fifo[current] # <<>> /\ Head(fifo[current]).size > Counter
    /\ counter' = [counter EXCEPT ![current] = Counter]
    /\ round_time' = Smoothed(current, 0)
    /\ NextQueue(now)
    /\ UNCHANGED <<portVars, shareVars>>

\* The head packet leaves; with the last one the turn ends.
WrrServe ==
    LET size == Head(fifo[current]).size
    IN  /\ WrrTurn /\ fifo[current] # <<>> /\ size <= Counter
        /\ Leave(current, FALSE)
        /\ counter' = [counter EXCEPT ![current] = Counter - size]
        /\ IF Len(fifo[current]) = 1
           THEN NextQueue(now + TxTime(size)) /\ round_time' = Smoothed(current, size)
           ELSE /\ counter_updated' = [counter_updated EXCEPT ![current] = TRUE]
                /\ UNCHANGED <<roundVars, current>>
        /\ NoteIdle(TotalByteLength - size)
        /\ UNCHANGED share

\* deque finds no packet at all.
WrrServeNothing ==
    /\ event = "deque" /\ TotalByteLength = 0
    /\ ReturnNull /\ NoteIdle(0)
    /\ UNCHANGED <<share, roundVars, wrrVars>>

\* WRR::deque, one iteration of its loop.
WrrDeque == PassEmpty \/ PassSpent \/ WrrServe \/ WrrServeNothing

WrrSetQuantum ==
    \E c \in PortQueues, value \in ShareChoices :
        SetShare(c, value) /\ UNCHANGED <<roundVars, wrrVars>>

WrrResume == Resume /\ UNCHANGED <<shareVars, roundVars, wrrVars>>
WrrTick   == Tick /\ UNCHANGED <<shareVars, roundVars, wrrVars>>

WrrNext ==
    \/ \E prio \in PktPrios, size \in PktSizes, ect \in PktEcts : WrrEnque(prio, size, ect)
    \/ WrrDeque
    \/ WrrSetQuantum
    \/ WrrResume \/ WrrTick

-----------------------------------------------------------------------------

\* A round takes at most all quanta and the packet that was on the link when it began.
WrrLongestRound == MaxPkt + TotalShare

\* The queues in the order of their turns.
WrrOrder == [i \in 1 .. queue_num_ |-> (current + i - 1) % queue_num_]
=============================================================================
