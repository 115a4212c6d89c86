--------------------------- MODULE PrioDwrrQdisc ----------------------------
(***************************************************************************)
(* The qdisc sch_prio_dwrr: NumPrioQueues queues in strict priority above  *)
(* queues scheduled by deficit weighted round robin, behind one token      *)
(* bucket, with the two forms of MQ-ECN: from an estimate of the sum of    *)
(* the active quanta (mq_ecn_gener) and of the round time (mq_ecn_rr).     *)
(*                                                                         *)
(* A dequeue is one action per iteration of the loop over the DWRR queues; *)
(* while it is in the loop no packet is enqueued, but a sysctl may change. *)
(***************************************************************************)
EXTENDS PrioPort, Functions

CONSTANTS
    QuantumChoices,     \* per queue, values written to QUEUE_QUANTUM
    RoundAlpha,         \* PRIO_DWRR_QDISC_ROUND_ALPHA
    QuantumAlpha,       \* PRIO_DWRR_QDISC_QUANTUM_ALPHA
    AlphaUnit,          \* 1000
    IdleInterval,       \* PRIO_DWRR_QDISC_IDLE_INTERVAL_NS
    MaxIteration,       \* PRIO_DWRR_QDISC_MAX_ITERATION
    BitsPerSecond,      \* bits/s of one byte per ns: 8000000000
    U32Wrap             \* 2 ^ 32: the width of quantum * PORT_THRESH_BYTES

DwrrQueues == Queues \ PrioQueues

\* The bounds of the sysctls: a quantum of at least one MTU, at most 200 KB.
ASSUME PrioDwrrAssumption ==
    /\ DwrrQueues # {}
    /\ EcnSchemes \subseteq {"none", "queue", "port", "mq_ecn_gener", "mq_ecn_rr", "deque"}
    /\ QuantumChoices \in [DwrrQueues -> SUBSET Nat]
    /\ \A c \in DwrrQueues : \A len \in PktLens : \A qtm \in QuantumChoices[c] :
           qtm >= SkbSize(len)
    /\ AlphaUnit \in Nat \ {0}
    /\ RoundAlpha \in 0 .. AlphaUnit /\ QuantumAlpha \in 0 .. AlphaUnit
    /\ IdleInterval \in Nat /\ MaxIteration \in Nat
    /\ BitsPerSecond \in Nat /\ U32Wrap \in Nat \ {0}

VARIABLES
    queue_quantum,      \* sysctl
    \* struct dwrr_class
    deficit, curr, quantum, start_time, last_pkt_time, last_pkt_len,
    \* struct prio_dwrr_sched_data
    activeList, sum_prio_len_bytes, round_time, last_idle_time,
    quantum_sum, quantum_sum_estimate,
    looping             \* a dequeue is between two iterations of its loop

turnVars  == <<deficit, curr, quantum, start_time, activeList, quantum_sum>>
sentVars  == <<last_pkt_time, last_pkt_len, last_idle_time>>
estimates == <<round_time, quantum_sum_estimate>>
dwrrVars  == <<queue_quantum, turnVars, sentVars, estimates, sum_prio_len_bytes, looping>>
vars      == <<portVars, dwrrVars>>
-----------------------------------------------------------------------------
\* Division of s64 values truncates towards zero; these are never negative.
Ewma(smooth, sample, alpha) == (alpha * smooth + (AlphaUnit - alpha) * sample) \div AlphaUnit

\* An estimate after 0, 1, ... MaxIteration idle slots.
Decay(estimate, alpha) ==
    LET decayed[i \in 0 .. MaxIteration] ==
            IF i = 0 THEN estimate ELSE (decayed[i - 1] * alpha) \div AlphaUnit
    IN  decayed

\* The estimate after the port was idle for interval ns.
AfterIdle(estimate, alpha, interval) ==
    LET slots == interval \div IdleInterval
    IN  IF IdleInterval > 0 /\ slots <= MaxIteration THEN Decay(estimate, alpha)[slots] ELSE 0

\* mq_ecn_gener: the queue's share of the port's threshold by quanta.  The product
\* is a u32.
GenerThresh(qtm, estimate) ==
    IF estimate > 0
    THEN Lesser(((qtm * PortThresh) % U32Wrap) \div estimate, PortThresh)
    ELSE PortThresh

\* mq_ecn_rr: the queue's share by rate, one quantum per round.
RoundThresh(qtm, rt) ==
    IF rt > 0
    THEN (Lesser((qtm * BitsPerSecond) \div rt, rate.bps) * PortThresh) \div rate.bps
    ELSE PortThresh

MqEcn == ecn_scheme \in {"mq_ecn_gener", "mq_ecn_rr"}
-----------------------------------------------------------------------------
Init ==
    /\ PortInit
    /\ queue_quantum \in {f \in [DwrrQueues -> UNION {QuantumChoices[c] : c \in DwrrQueues}] :
                              \A c \in DwrrQueues : f[c] \in QuantumChoices[c]}
    /\ deficit = [c \in DwrrQueues |-> 0]
    /\ curr = [c \in DwrrQueues |-> FALSE]
    /\ quantum = [c \in DwrrQueues |-> 0]
    /\ start_time = [c \in DwrrQueues |-> now]
    /\ last_pkt_time = [c \in DwrrQueues |-> now]
    /\ last_pkt_len = [c \in DwrrQueues |-> 0]
    /\ activeList = <<>>
    /\ sum_prio_len_bytes = 0
    /\ round_time = 0 /\ last_idle_time = now
    /\ quantum_sum = 0 /\ quantum_sum_estimate = 0
    /\ looping = FALSE
-----------------------------------------------------------------------------
\* prio_dwrr_qdisc_enqueue.  The decay precedes the decision to drop; when the
\* interval is not positive the loop runs zero times.
DecayEstimates ==
    IF sum_len_bytes = 0 /\ MqEcn
    THEN /\ round_time' = AfterIdle(round_time, RoundAlpha, now - last_idle_time)
         /\ quantum_sum_estimate' =
                AfterIdle(quantum_sum_estimate, QuantumAlpha, now - last_idle_time)
    ELSE UNCHANGED estimates

Drop(c, len) == Refused(c, len) /\ UNCHANGED <<fifoVars, turnVars, sum_prio_len_bytes>>

\* MQ-ECN marks a priority queue by its own static threshold.
AdmitPrio(c, len) ==
    /\ c \in PrioQueues
    /\ ~ Refused(c, len)
    /\ sum_prio_len_bytes' = sum_prio_len_bytes + SkbSize(len)
    /\ Insert(c, len, StaticMark(c) \/ (MqEcn /\ len_bytes'[c] > QueueThresh[c]))
    /\ UNCHANGED turnVars

\* A mutant of Activate: the class keeps the start of its last turn.
ActivateStale(c) ==
    /\ deficit' = [deficit EXCEPT ![c] = 0]
    /\ curr' = [curr EXCEPT ![c] = FALSE]
    /\ quantum' = [quantum EXCEPT ![c] = queue_quantum[c]]
    /\ activeList' = Append(activeList, c)
    /\ quantum_sum' = quantum_sum + quantum'[c]
    /\ UNCHANGED start_time

\* A class that was empty joins the active list without any deficit: its quantum
\* comes when its turn begins.
Activate(c) ==
    /\ deficit' = [deficit EXCEPT ![c] = 0]
    /\ curr' = [curr EXCEPT ![c] = FALSE]
    /\ start_time' = [start_time EXCEPT ![c] = now]
    /\ quantum' = [quantum EXCEPT ![c] = queue_quantum[c]]
    /\ activeList' = Append(activeList, c)
    /\ quantum_sum' = quantum_sum + quantum'[c]

MqEcnMark(c) ==
    \/ /\ ecn_scheme = "mq_ecn_gener"
       /\ len_bytes'[c] > GenerThresh(quantum'[c], quantum_sum_estimate')
    \/ /\ ecn_scheme = "mq_ecn_rr"
       /\ len_bytes'[c] > RoundThresh(quantum'[c], round_time')

\* Whether the class is on the active list (the field active).
Active(c)          == c \in Range(activeList)

AdmitDwrr(c, len) ==
    /\ c \in DwrrQueues
    /\ ~ Refused(c, len)
    /\ IF Active(c) THEN UNCHANGED turnVars ELSE Activate(c)
    /\ Insert(c, len, StaticMark(c) \/ MqEcnMark(c))
    /\ UNCHANGED sum_prio_len_bytes

Enqueue(dscp, len) ==
    LET c == Classify(dscp)
    IN  /\ ~ looping
        /\ run' = TRUE
        /\ DecayEstimates
        /\ Drop(c, len) \/ AdmitPrio(c, len) \/ AdmitDwrr(c, len)
        /\ UNCHANGED <<now, watchdog, wire, configVars, bucketVars, queue_quantum,
                       sentVars, looping>>
-----------------------------------------------------------------------------
\* prio_dwrr_qdisc_dequeue: priority queues first.
DequeueNothing ==
    /\ run /\ sum_prio_len_bytes = 0 /\ activeList = <<>>
    /\ ReturnNull
    /\ UNCHANGED dwrrVars

\* The choice between priority and DWRR queues is not repeated within the loop; the
\* mutant looks at the active list first.
PrioTurnIdle == activeList = <<>> /\ BusyPrioQueues # {}
PrioTurn     == sum_prio_len_bytes > 0 /\ ~ looping

ThrottlePrio(c) ==
    /\ Result(HeadSize(c)) < 0
    /\ Arm(Result(HeadSize(c)))
    /\ UNCHANGED dwrrVars

TransmitPrio(c) ==
    /\ Result(HeadSize(c)) >= 0
    /\ Leave(c, Result(HeadSize(c)))
    /\ sum_prio_len_bytes' = sum_prio_len_bytes - HeadSize(c)
    /\ UNCHANGED <<queue_quantum, turnVars, sentVars, estimates, looping>>

DwrrTurn == ~ PrioTurn /\ activeList # <<>>

\* The deficit of the class at the head: its quantum is added once per turn; the
\* mutant adds it at every look at the class.
CreditAlways(c) == deficit[c] + quantum[c]
Credit(c)       == deficit[c] + (IF curr[c] THEN 0 ELSE quantum[c])

\* The deficit covers the packet.
Scheduled(c) == HeadSize(c) <= Credit(c)

\* Not more tokens than the packet takes: the loop arms the watchdog and ends.
ThrottleDwrr(c) ==
    /\ Scheduled(c)
    /\ Result(HeadSize(c)) <= 0
    /\ Arm(Result(HeadSize(c)))
    /\ deficit' = [deficit EXCEPT ![c] = Credit(c)]
    /\ curr' = [curr EXCEPT ![c] = TRUE]
    /\ looping' = FALSE
    /\ UNCHANGED <<queue_quantum, quantum, start_time, activeList, quantum_sum, sentVars,
                   estimates, sum_prio_len_bytes>>

\* The sample of the round time a turn gives when it ends.
Sample(c) == Greater(last_pkt_time'[c] - start_time[c], last_pkt_len'[c])

\* The class leaves the active list with its last packet, and the sum of the
\* quanta with it; the mutant of LeaveSum takes the configured quantum.
LeaveSumConfigured(c) == quantum_sum - queue_quantum[c]
LeaveSum(c)           == quantum_sum - quantum[c]

TransmitDwrr(c) ==
    LET size  == HeadSize(c)
        empty == Len(fifo[c]) = 1
    IN  /\ Scheduled(c)
        /\ Result(size) > 0
        /\ Leave(c, Result(size))
        /\ deficit' = [deficit EXCEPT ![c] = Credit(c) - size]
        /\ last_pkt_len' = [last_pkt_len EXCEPT ![c] = L2T(size)]
        /\ last_pkt_time' = [last_pkt_time EXCEPT ![c] = now]
        /\ curr' = [curr EXCEPT ![c] = ~ empty]
        /\ activeList' = IF empty THEN Tail(activeList) ELSE activeList
        /\ quantum_sum' = IF empty THEN LeaveSum(c) ELSE quantum_sum
        /\ round_time' = IF empty THEN Ewma(round_time, Sample(c), RoundAlpha) ELSE round_time
        /\ last_idle_time' = IF empty /\ sum_len_bytes' = sum_prio_len_bytes
                             THEN now ELSE last_idle_time
        /\ quantum_sum_estimate' = Ewma(quantum_sum_estimate, quantum_sum', QuantumAlpha)
        /\ looping' = FALSE
        /\ UNCHANGED <<queue_quantum, quantum, start_time, sum_prio_len_bytes>>

\* The deficit is too small: the class ends its turn and goes to the tail with the
\* configured quantum.
Rotate(c) ==
    /\ ~ Scheduled(c)
    /\ UNCHANGED <<last_pkt_time, last_pkt_len>>
    /\ deficit' = [deficit EXCEPT ![c] = Credit(c)]
    /\ curr' = [curr EXCEPT ![c] = FALSE]
    /\ round_time' = Ewma(round_time, Sample(c), RoundAlpha)
    /\ start_time' = [start_time EXCEPT ![c] = now]
    /\ quantum' = [quantum EXCEPT ![c] = queue_quantum[c]]
    /\ quantum_sum' = quantum_sum - quantum[c] + quantum'[c]
    /\ activeList' = Append(Tail(activeList), c)
    /\ looping' = TRUE
    /\ UNCHANGED <<portVars, queue_quantum, last_idle_time, quantum_sum_estimate,
                   sum_prio_len_bytes>>

Dequeue ==
    \/ DequeueNothing
    \/ /\ run /\ PrioTurn
       /\ \E c \in {PrioHead} : ThrottlePrio(c) \/ TransmitPrio(c)
    \/ /\ run /\ DwrrTurn
       /\ \E c \in {Head(activeList)} : ThrottleDwrr(c) \/ TransmitDwrr(c) \/ Rotate(c)
-----------------------------------------------------------------------------
SetQueueQuantum(c, qtm) ==
    /\ queue_quantum' = [queue_quantum EXCEPT ![c] = qtm]
    /\ UNCHANGED <<portVars, turnVars, sentVars, estimates, sum_prio_len_bytes, looping>>

Next ==
    \/ \E dscp \in Dscps, len \in PktLens : Enqueue(dscp, len)
    \/ Dequeue
    \/ Environment /\ UNCHANGED dwrrVars
    \/ \E c \in DwrrQueues : \E qtm \in QuantumChoices[c] : SetQueueQuantum(c, qtm)

Spec == Init /\ [][Next]_vars
-----------------------------------------------------------------------------
(***************************************************************************)
(* Properties.                                                             *)
(***************************************************************************)
\* Every variable keeps its type; in particular the deficits, the quantum sum and
\* the estimates, unsigned or averaged, never go below zero.
TypeOK ==
    /\ PortTypeOK
    /\ queue_quantum \in [DwrrQueues -> Nat]
    /\ deficit \in [DwrrQueues -> Nat]
    /\ curr \in [DwrrQueues -> BOOLEAN]
    /\ quantum \in [DwrrQueues -> Nat]
    /\ start_time \in [DwrrQueues -> Nat]
    /\ last_pkt_time \in [DwrrQueues -> Nat]
    /\ last_pkt_len \in [DwrrQueues -> Nat]
    /\ activeList \in Seq(DwrrQueues)
    /\ sum_prio_len_bytes \in Int
    /\ round_time \in Nat /\ last_idle_time \in Nat
    /\ quantum_sum \in Nat /\ quantum_sum_estimate \in Nat
    /\ looping \in BOOLEAN

\* The counters are what is queued; the choice between priority and DWRR queues and
\* the idle test rest on the sum over the priority queues.
AccountingExact ==
    /\ PortAccounting
    /\ sum_prio_len_bytes = TotalOver(PrioQueues, len_bytes)

\* The active list holds the DWRR queues with packets, each once (a queue twice on
\* the list, or on it while empty, corrupts the kernel list).
ActiveListExact ==
    /\ IsInjective(activeList)
    /\ Range(activeList) = {c \in DwrrQueues : fifo[c] # <<>>}

\* quantum_sum is the sum of the quanta of the active queues (main.c:62), however
\* often a quantum is rewritten while its queue is active.
QuantumSumExact == quantum_sum = TotalOver(Range(activeList), quantum)

\* A queue gets its quantum once per turn, however often its turn is interrupted by
\* a lack of tokens or by the priority queues: at the start of a turn it has kept
\* less than one packet, within it less than that plus its quantum.
CreditOncePerTurn ==
    \A c \in Range(activeList) :
        \E len \in PktLens :
            deficit[c] < SkbSize(len) + (IF curr[c] THEN quantum[c] ELSE 0)

\* The sample a turn adds to the round time is of that turn: the queue has sent a packet
\* since the sample starts, so that its end is not left over from an earlier turn, and it
\* does not start before an idle period of the DWRR queues that is over, nor after any
\* other active queue began to wait, so that it covers no absence of the queue.
SampleOfThisTurn ==
    [][\A c \in DwrrQueues :
           curr[c] /\ ~ curr'[c] =>
               /\ last_pkt_time'[c] >= start_time[c]
               /\ start_time[c] >= last_idle_time
               /\ \A d \in Range(activeList) : start_time[c] <= start_time[d]]_vars

\* Neither form of MQ-ECN raises the threshold of a queue above the port's: with
\* more than the port's threshold queued, an arriving packet is always marked.
MqEcnNeverLaxer ==
    [][\A c \in DwrrQueues :
           Len(fifo'[c]) > Len(fifo[c]) /\ MqEcn /\ len_bytes'[c] > PortThresh
               => fifo'[c][Len(fifo'[c])].ce]_vars

\* All DWRR queues rank behind the priority queues.
Rank == [c \in Queues |-> Lesser(c, NumPrioQueues)]

Port == INSTANCE PriorityFifos
            WITH Classes <- Queues, SizeOf <- WireSize, Nothing <- Seen(NoPacket),
                 rank <- Rank, out <- Seen(wire)

\* sch_prio_dwrr is a port of FIFOs in strict priority: a priority packet that arrives
\* while a DWRR packet waits for tokens goes first, and nothing is reordered.
ImplementsPort == Port!Spec
=============================================================================
