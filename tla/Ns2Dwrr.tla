------------------------------ MODULE Ns2Dwrr -------------------------------
(***************************************************************************)
(* The ns-2 queue DWRR: deficit weighted round robin with MQ-ECN by the    *)
(* round time ("rr") or by the sum of the quanta ("gener").  Whatever does *)
(* not concern priority queues is stated for the queues after them, for    *)
(* PRIO_DWRR; DWRR has no priority queue.                                  *)
(***************************************************************************)
EXTENDS Ns2Shares

DequeMarking == Script.deque_marking_

VARIABLES
    activeList,        \* the queues in the order of their turns
    deficitCounter,
    in_turn            \* current: whether the queue got its quantum in this turn

dwrrVars == <<activeList, deficitCounter, in_turn>>

DwrrInit ==
    /\ activeList = <<>>
    /\ deficitCounter = [c \in ShareQueues |-> 0]
    /\ in_turn = [c \in ShareQueues |-> FALSE]
-----------------------------------------------------------------------------
\* MarkingECN for a DWRR queue, with the estimates at the time of the call.
DwrrMark(c, len, total, sum_estimate, round) ==
    \/ StaticMark(c, len, total)
    \/ marking_scheme_ = "gener" /\ ShareMark(c, len, sum_estimate)
    \/ marking_scheme_ = "rr" /\ ShareMark(c, len, round)

\* The start of enque: what the estimates make of the time without packets.  It decays
\* the round time with the factor meant for the sum of the quanta.
DwrrAfterIdle ==
    /\ StartTimer
    /\ share_sum_estimate' = IF FoundEmpty /\ TimerOff THEN IdleSum ELSE share_sum_estimate
    /\ round_time' = IF FoundEmpty /\ marking_scheme_ = "rr"
                     THEN IdleRound(EstimateAlpha) ELSE round_time
    /\ last_update_time' = IF FoundEmpty /\ (TimerOff \/ marking_scheme_ = "rr")
                           THEN now ELSE last_update_time

\* A queue that was empty joins the list.
DwrrActivate(c) ==
    /\ activeList' = Append(activeList, c)
    /\ deficitCounter' = [deficitCounter EXCEPT ![c] = 0]
    /\ in_turn' = [in_turn EXCEPT ![c] = FALSE]
    /\ start_time' = [start_time EXCEPT ![c] = now]
    /\ share_sum' = share_sum + share[c]

\* The packet joins a DWRR queue: the estimates have decayed when it is marked.
EnqueMark(c, size) ==
    /\ ~DequeMarking
    /\ DwrrMark(c, ByteLength(c) + size, TotalByteLength + size,
                share_sum_estimate', round_time')
DwrrJoin(c, size, ect) ==
    /\ Insert(c, size, ect, EnqueMark(c, size))
    /\ IF fifo[c] = <<>> THEN DwrrActivate(c) ELSE UNCHANGED <<dwrrVars, start_time, share_sum>>

\* DWRR::enque.
DwrrEnque(prio, size, ect) ==
    /\ event = "none"
    /\ DwrrAfterIdle
    /\ IF Overfilled(size) THEN Drop /\ UNCHANGED <<dwrrVars, start_time, share_sum>>
       ELSE DwrrJoin(QueueOf(prio), size, ect)
    /\ UNCHANGED shareVars
-----------------------------------------------------------------------------
\* The turn of the head of the list, which has its quantum and what its last turn left.
DwrrTurn == event = "deque" /\ LengthOf(PrioQueues) = 0 /\ LengthOf(ShareQueues) > 0
Deficit(h) == deficitCounter[h] + (IF in_turn[h] THEN 0 ELSE share[h])

\* The head packet must wait for another round (the mutant keeps the queue from
\* getting its next quantum).
RotateCurrent ==
    LET h == Head(activeList)
    IN  /\ DwrrTurn /\ Head(fifo[h]).size > Deficit(h)
        /\ deficitCounter' = [deficitCounter EXCEPT ![h] = Deficit(h)]
        /\ in_turn' = [in_turn EXCEPT ![h] = TRUE]
        /\ round_time' = Smoothed(h, 0)
        /\ start_time' = [start_time EXCEPT ![h] = now]
        /\ activeList' = Append(Tail(activeList), h)
        /\ UNCHANGED <<portVars, shareVars, sumVars>>

Rotate ==
    LET h == Head(activeList)
    IN  /\ DwrrTurn /\ Head(fifo[h]).size > Deficit(h)
        /\ deficitCounter' = [deficitCounter EXCEPT ![h] = Deficit(h)]
        /\ in_turn' = [in_turn EXCEPT ![h] = FALSE]
        /\ round_time' = Smoothed(h, 0)
        /\ start_time' = [start_time EXCEPT ![h] = now]
        /\ activeList' = Append(Tail(activeList), h)
        /\ UNCHANGED <<portVars, shareVars, sumVars>>

\* The last packet of queue h, of size bytes, leaves (the mutant keeps its quantum in
\* the sum).
DwrrDeactivateKeepSum(h, size) ==
    /\ activeList' = Tail(activeList)
    /\ deficitCounter' = [deficitCounter EXCEPT ![h] = 0]
    /\ in_turn' = [in_turn EXCEPT ![h] = FALSE]
    /\ round_time' = Smoothed(h, size)
    /\ UpdateEstimate(share_sum)

DwrrDeactivate(h, size) ==
    /\ activeList' = Tail(activeList)
    /\ deficitCounter' = [deficitCounter EXCEPT ![h] = 0]
    /\ in_turn' = [in_turn EXCEPT ![h] = FALSE]
    /\ round_time' = Smoothed(h, size)
    /\ UpdateEstimate(share_sum - share[h])

\* With DequeMarking a packet is marked by what it leaves behind, before its departure
\* brings the estimates up to date.
DequeMark(h, size) ==
    /\ DequeMarking
    /\ DwrrMark(h, ByteLength(h) - size, TotalByteLength - size,
                share_sum_estimate, round_time)

\* The head packet leaves.
DwrrServe ==
    LET h    == Head(activeList)
        size == Head(fifo[h]).size
    IN  /\ DwrrTurn /\ size <= Deficit(h)
        /\ IF Len(fifo[h]) = 1 THEN DwrrDeactivate(h, size)
           ELSE /\ deficitCounter' = [deficitCounter EXCEPT ![h] = Deficit(h) - size]
                /\ in_turn' = [in_turn EXCEPT ![h] = TRUE]
                /\ UpdateEstimate(share_sum)
                /\ UNCHANGED <<activeList, round_time>>
        /\ Leave(h, DequeMark(h, size))
        /\ NoteIdle(LengthOf(ShareQueues) - size)
        /\ UNCHANGED <<share, start_time>>

\* deque finds no packet at all.
DwrrServeNothing ==
    /\ event = "deque" /\ TotalByteLength = 0
    /\ ReturnNull
    /\ UpdateEstimate(share_sum) /\ NoteIdle(0)
    /\ UNCHANGED <<share, roundVars, dwrrVars>>

\* DWRR::deque, one iteration of its loop.
DwrrDeque == Rotate \/ DwrrServe \/ DwrrServeNothing

DwrrSetQuantum ==
    \E c \in ShareQueues, value \in ShareChoices :
        SetShare(c, value) /\ UNCHANGED <<roundVars, sumVars, dwrrVars>>

DwrrTimeout == Timeout /\ UNCHANGED <<roundVars, dwrrVars>>
DwrrResume  == Resume /\ UNCHANGED <<shareVars, roundVars, sumVars, dwrrVars>>
DwrrTick    == Tick /\ timer # now /\ UNCHANGED <<shareVars, roundVars, sumVars, dwrrVars>>

DwrrNext ==
    \/ \E prio \in PktPrios, size \in PktSizes, ect \in PktEcts : DwrrEnque(prio, size, ect)
    \/ DwrrDeque
    \/ DwrrSetQuantum
    \/ DwrrTimeout \/ DwrrResume \/ DwrrTick

-----------------------------------------------------------------------------

\* A round takes at most what all queues may send in one, their quanta and less than a
\* packet each of deficit, and the packet that was on the link when the round began.
DwrrLongestRound ==
    MaxPkt + SumOver(ShareQueues, [c \in ShareQueues |-> share[c] + MaxPkt - 1])
=============================================================================
