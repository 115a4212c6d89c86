----------------------------- MODULE Ns2Queues ------------------------------
(***************************************************************************)
(* An output port of an ns-2 node: a queue of the class that the script    *)
(* names, with the settings it makes, and the link.                        *)
(***************************************************************************)
EXTENDS Ns2Wrr, Ns2PrioDwrr, Ns2PrioWfq

\* A WRR packet larger than the quantum of its queue would never be sent, and deque would
\* never return.  The finish times of WFQ are kept exactly.
SetupOK(s) ==
    LET shareQueues == s.prio_queue_num_ .. s.queue_num_ - 1
        shares      == Range(s.shares) \cup s.changes
    IN  /\ s.queue_num_ \in Nat \ {0}
        /\ s.class \in {"Priority", "DWRR", "WRR", "WFQ", "PRIO_DWRR", "PRIO_WFQ"}
        /\ CASE s.class = "Priority" -> s.prio_queue_num_ = s.queue_num_
             [] s.class \in {"PRIO_DWRR", "PRIO_WFQ"} ->
                    s.prio_queue_num_ \in 1 .. s.queue_num_ - 1
             [] s.class \in {"DWRR", "WRR", "WFQ"} -> s.prio_queue_num_ = 0
        /\ s.qlim_ \in Nat /\ s.port_thresh_ \in Nat
        /\ s.thresh \in [0 .. s.queue_num_ - 1 -> Nat]
        /\ s.marking_scheme_ \in {"queue", "port", "latency", "pie"}
               \cup (IF s.class \in {"DWRR", "WRR", "PRIO_DWRR"} THEN {"rr"} ELSE {})
               \cup (IF s.class \in {"Priority", "WRR"} THEN {} ELSE {"gener"})
        /\ s.dq_thresh_ \in Nat \ {0} /\ s.deque_marking_ \in BOOLEAN
        /\ s.deque_marking_ => s.class = "DWRR"
        /\ s.sizes \subseteq Nat \ {0}
        /\ \E largest \in s.sizes : \A size \in s.sizes : size <= largest
        /\ s.prios \subseteq Int /\ s.ects \subseteq BOOLEAN
        /\ s.shares \in [shareQueues -> Nat \ {0}] /\ s.changes \subseteq Nat \ {0}
        /\ {s.estimate_alpha, s.round_alpha, s.tick_alpha} \subseteq 0 .. AlphaUnit
        /\ s.idle_interval \in Nat /\ s.unit \in Nat \ {0} /\ s.enable_timer \in BOOLEAN
        /\ s.estimate_interval \in Nat \ {0}
        /\ Power(s.tick_alpha, s.estimate_interval)
               = s.estimate_alpha * Power(AlphaUnit, s.estimate_interval - 1)
        /\ s.class = "WRR" => \A x \in shares, size \in s.sizes : size <= x
        /\ s.class \in {"WFQ", "PRIO_WFQ"} =>
               \A x \in shares, size \in s.sizes : (size * FinishUnit) % x = 0

ASSUME SetupsAssumption == \A i \in DOMAIN Setups : SetupOK(Setups[i])

vars == <<portVars, shareVars, roundVars, sumVars, wrrVars, dwrrVars, wfqVars>>

Init ==
    /\ PortInit /\ SharesInit /\ RoundInit /\ SumInit
    /\ WrrInit /\ DwrrInit /\ WfqInit
-----------------------------------------------------------------------------
\* One step of each class.
PriorityStep ==
    /\ class = "Priority" /\ PriorityNext
    /\ UNCHANGED <<shareVars, roundVars, sumVars, wrrVars, dwrrVars, wfqVars>>
WrrStep ==
    class = "WRR" /\ WrrNext /\ UNCHANGED <<sumVars, dwrrVars, wfqVars>>
DwrrStep ==
    class = "DWRR" /\ DwrrNext /\ UNCHANGED <<wrrVars, wfqVars>>
PrioDwrrStep ==
    class = "PRIO_DWRR" /\ PrioDwrrNext /\ UNCHANGED <<wrrVars, wfqVars>>
WfqStep ==
    class = "WFQ" /\ WfqNext /\ UNCHANGED <<roundVars, wrrVars, dwrrVars>>
PrioWfqStep ==
    class = "PRIO_WFQ" /\ PrioWfqNext /\ UNCHANGED <<roundVars, wrrVars, dwrrVars>>

Next == PriorityStep \/ WrrStep \/ DwrrStep \/ PrioDwrrStep \/ WfqStep \/ PrioWfqStep

Spec == Init /\ [][Next]_vars

\* A deque that has begun goes on: nothing else happens before it returns.
FairSpec == Spec /\ WF_vars(event = "deque" /\ Next)
-----------------------------------------------------------------------------
\* A queue never appears to drain faster than the link sends, however its packets
\* and those of the other queues are spaced: the threshold of PIE-like marking is
\* a share of the port's.
DrainRateWithinCapacity == \A c \in PortQueues : drain[c].rate <= RateUnit

\* A DWRR queue is in the list if and only if it has packets, once: deque finds a packet
\* at the head of the list, and no queue is left out.  Only the head of the list may be in
\* its turn, and a deficit carried over is that of a queue with packets.
ActiveListExact ==
    class \in {"DWRR", "PRIO_DWRR"} =>
        /\ IsInjective(activeList)
        /\ Range(activeList) = Backlogged
        /\ \A c \in ShareQueues :
              /\ in_turn[c] => activeList # <<>> /\ c = Head(activeList)
              /\ deficitCounter[c] > 0 => c \in Backlogged

\* The round robin queues began their rounds in the order of their turns: the queue whose
\* turn is next has waited longest (with WRR the empty ones too).
TurnOrder == IF class = "WRR" THEN WrrOrder ELSE activeList
LongestWaitFirst ==
    class \in {"WRR", "DWRR", "PRIO_DWRR"} =>
        \A i, j \in DOMAIN TurnOrder :
            i < j => start_time[TurnOrder[i]] <= start_time[TurnOrder[j]]

\* The queues that are not empty share the port's threshold: the sum is that of their
\* quanta or weights, no more and no less, as long as no script changes them.
ShareSumExact ==
    class \in {"DWRR", "PRIO_DWRR", "WFQ", "PRIO_WFQ"} /\ ShareChoices = {} =>
        share_sum = SumOfShares(Backlogged)

\* The finish times stay together: none is later than currTime, and while a packet waits
\* currTime moves on by one packet of each other queue at most, whatever becomes of the
\* weights.  So no queue is overtaken twice by one that empties and fills again.
Lightest(c) == CHOOSE weight \in {InitShare[c]} \cup ShareChoices :
                   \A other \in {InitShare[c]} \cup ShareChoices : weight <= other
FinishTimesTogether ==
    class \in {"WFQ", "PRIO_WFQ"} =>
        \A c \in Backlogged :
            LET lead == SumOver(ShareQueues \ {c}, [d \in ShareQueues |->
                                    (MaxPkt * FinishUnit) \div Lightest(d)])
            IN  currTime - headFinishTime[c] \in 0 .. lead

\* What a packet's mark says of a queue of len bytes: it is over the threshold of its
\* share among all queues or, under "rr", in the longest round, and a queue over the
\* threshold of the port is always marked.
Whole == CASE marking_scheme_ = "gener" -> TotalShare
           [] class = "WRR"             -> WrrLongestRound
           [] OTHER                     -> DwrrLongestRound
MarkBounds(c, len, mark) ==
    /\ mark => len * Whole > share[c] * port_thresh_
    /\ ~mark => len <= port_thresh_

\* The estimates are those of a script that leaves the shares alone, and of rounds that no
\* priority queue interrupts.
MqEcn(pkt) ==
    /\ pkt.ect /\ ShareChoices = {}
    /\ marking_scheme_ = "gener" \/ (marking_scheme_ = "rr" /\ PrioQueues = {})
MarksWithinBounds(c) ==
    /\ ~DequeMarking /\ Len(fifo'[c]) > Len(fifo[c]) /\ MqEcn(Last(fifo'[c])) =>
           MarkBounds(c, ByteLength(c)', Last(fifo'[c]).ce)
    /\ DequeMarking /\ Len(fifo'[c]) < Len(fifo[c]) /\ MqEcn(Head(fifo[c])) =>
           MarkBounds(c, ByteLength(c)', sent'.ce)

\* However the estimates were reached, through idle periods, updates and queues that come
\* and go, MQ-ECN's threshold of a queue lies between the port's and that of the queue's
\* share, for the marks of enque and those of deque.
ThresholdBetweenShareAndPort ==
    [][\A c \in ShareQueues : MarksWithinBounds(c)]_vars

\* Every deque ends: with small quanta it takes several rounds, but a packet leaves.
DequeEnds == event = "deque" ~> event = "none"

AllQueues == UNION {0 .. s.queue_num_ - 1 : s \in Range(Setups)}
Rank(c) == IF c < prio_queue_num_ THEN c ELSE prio_queue_num_

Fifos == INSTANCE PriorityFifos
             WITH Classes <- AllQueues, SizeOf <- PktSize, Nothing <- NoPacket,
                  fifo <- [c \in AllQueues |-> IF c \in PortQueues THEN fifo[c] ELSE <<>>],
                  rank <- [c \in AllQueues |-> Rank(c)], out <- sent

\* Every class is a port of FIFOs in strict priority, wherever packets of unknown
\* priorities were put; the queues below the priority queues rank alike.
ImplementsPort == Fifos!Spec
=============================================================================
