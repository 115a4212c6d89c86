---------------------------- MODULE Ns2PrioDwrr -----------------------------
(***************************************************************************)
(* The ns-2 queue PRIO_DWRR: DWRR queues below strict priority queues.     *)
(* The line numbers of what it takes from Ns2Dwrr are those of DWRR; the   *)
(* classes share no code, but they differ only in what is stated here.     *)
(***************************************************************************)
EXTENDS Ns2Dwrr

\* MarkingECN for a priority queue: MQ-ECN gives it a threshold of its own.
PrioDwrrMark(c, len, total) ==
    \/ StaticMark(c, len, total)
    \/ marking_scheme_ \in {"gener", "rr"} /\ len > thresh[c]

PrioDwrrJoin(c, size, ect) ==
    /\ Insert(c, size, ect, PrioDwrrMark(c, ByteLength(c) + size, TotalByteLength + size))
    /\ UNCHANGED <<dwrrVars, start_time, share_sum>>

\* PRIO_DWRR::enque: a packet of any queue lets the estimates decay if the DWRR queues
\* are empty.
PrioDwrrEnque(prio, size, ect) ==
    LET c == QueueOf(prio)
    IN  /\ event = "none"
        /\ DwrrAfterIdle
        /\ IF Overfilled(size) THEN Drop /\ UNCHANGED <<dwrrVars, start_time, share_sum>>
           ELSE IF c \in PrioQueues THEN PrioDwrrJoin(c, size, ect) ELSE DwrrJoin(c, size, ect)
        /\ UNCHANGED shareVars

\* PRIO_DWRR::deque, which returns a priority packet before the estimates and the idle
\* time are brought up to date.
PrioDwrrServePrio ==
    /\ PrioTurn
    /\ Leave(PrioHead, FALSE)
    /\ UNCHANGED <<shareVars, roundVars, sumVars, dwrrVars>>

PrioDwrrServe == Rotate \/ DwrrServe
PrioDwrrDeque == PrioDwrrServePrio \/ PrioDwrrServe \/ DwrrServeNothing

\* The commands and the timer are those of DWRR.
PrioDwrrSetQuantum == DwrrSetQuantum
PrioDwrrTimeout    == DwrrTimeout

PrioDwrrNext ==
    \/ \E prio \in PktPrios, size \in PktSizes, ect \in PktEcts : PrioDwrrEnque(prio, size, ect)
    \/ PrioDwrrDeque
    \/ PrioDwrrSetQuantum
    \/ PrioDwrrTimeout \/ DwrrResume \/ DwrrTick
=============================================================================
