------------------------------ MODULE Ns2Port -------------------------------
(***************************************************************************)
(* What the six ns-2 queues (DWRR, WRR, WFQ, Priority, PRIO_DWRR and       *)
(* PRIO_WFQ) have in common: packet FIFOs in a shared buffer, ECN marking  *)
(* by static thresholds, by the drain rate of a queue and by latency, and  *)
(* the link they feed.  Each class repeats this code; the line numbers are *)
(* those of Priority.  The unit of time is the transmission of one byte.   *)
(*                                                                         *)
(* ns-2 runs one event at a time: the arrival of a packet, with deque      *)
(* after enque if the link is idle, or the end of a transmission, which    *)
(* calls deque.  A deque is one action per iteration of its loop.          *)
(***************************************************************************)
EXTENDS Sums, Integers, SequencesExt

CONSTANTS
    Setups,            \* the settings of the scripts to try, a sequence
    RateUnit,          \* link_capacity_, in the unit of avg_dq_rate
    RateAlpha,         \* estimate_rate_alpha_ * AlphaUnit
    AlphaUnit          \* the unit of the smoothing factors

ASSUME Ns2PortAssumption ==
    /\ RateUnit \in Nat \ {0}
    /\ AlphaUnit \in Nat \ {0} /\ RateAlpha \in 0 .. AlphaUnit

VARIABLES
    setup,             \* the script that bound the object's fields before the simulation
    now,               \* Scheduler::clock()
    link,              \* when the link ends a transmission, or Idle
    sent,              \* the packet on the link, or NoPacket
    event,             \* "deque" while a deque is due or in its loop, else "none"
    fifo,              \* the packets of the queues
    drain              \* dq_tstamp, dq_count and avg_dq_rate of the queues

portVars == <<setup, now, link, sent, event, fifo, drain>>

\* The class of the queue and its variables, thresholds and sizes in bytes; the packets
\* that arrive (size, hdr_ip::prio, ECN capable or not) and a bound of the clock.
Scripts == Setups    \* evaluated once, unlike a constant that a .cfg defines
Script  == Scripts[setup]
class           == Script.class
queue_num_      == Script.queue_num_
prio_queue_num_ == Script.prio_queue_num_
qlim_           == Script.qlim_
port_thresh_    == Script.port_thresh_
thresh          == Script.thresh
marking_scheme_ == Script.marking_scheme_
DqThresh        == Script.dq_thresh_
PktSizes        == Script.sizes
PktPrios        == Script.prios
PktEcts         == Script.ects
Until           == Script.until

MaxPkt == CHOOSE size \in PktSizes : \A other \in PktSizes : other <= size

PortQueues == 0 .. queue_num_ - 1
PrioQueues == 0 .. prio_queue_num_ - 1

Idle == -1
DQ_COUNT_INVALID == -1
NoRate == -1
NoPacket == [queue |-> -1, size |-> 0, ce |-> FALSE]
-----------------------------------------------------------------------------
TxTime(size) == size

\* Doubles are modelled by integers in a small unit, rounded down.
Ewma(smooth, sample, alpha) ==
    (smooth * alpha + sample * (AlphaUnit - alpha)) \div AlphaUnit

\* The sum of f over some of the queues.
SumOver(queues, f) ==
    SumTo([i \in 1 .. queue_num_ |-> IF i - 1 \in queues THEN f[i - 1] ELSE 0], queue_num_)

ByteLength(c) == SumTo([i \in 1 .. Len(fifo[c]) |-> fifo[c][i].size], Len(fifo[c]))
LengthOf(queues) == SumOver(queues, [c \in queues |-> ByteLength(c)])
TotalByteLength == LengthOf(PortQueues)

PortInit ==
    /\ setup \in DOMAIN Setups
    /\ now = 0 /\ link = Idle /\ sent = NoPacket /\ event = "none"
    /\ fifo = [c \in PortQueues |-> <<>>]
    /\ drain = [c \in PortQueues |-> [tstamp |-> 0, count |-> DQ_COUNT_INVALID, rate |-> NoRate]]
-----------------------------------------------------------------------------
\* The queue of a packet: one that does not exist is the last.
QueueOf(prio) == IF prio \in PortQueues THEN prio ELSE queue_num_ - 1

\* The packet does not fit.
Overfilled(size) == TotalByteLength + size > qlim_

\* MarkingECN for the schemes all queues know, where queue c has len bytes and the
\* port total bytes.
StaticMark(c, len, total) ==
    \/ marking_scheme_ = "queue" /\ len > thresh[c]
    \/ marking_scheme_ = "port" /\ total > port_thresh_
    \/ /\ marking_scheme_ = "pie"
       /\ IF drain[c].rate > 0 /\ drain[c].rate < RateUnit
          THEN len * RateUnit > drain[c].rate * port_thresh_
          ELSE len > port_thresh_

Stamp(ect) == IF marking_scheme_ = "latency" /\ ect THEN now ELSE 0

\* The end of enque: the packet is in its queue; if the link is idle, deque follows.
Insert(c, size, ect, mark) ==
    /\ fifo' = [fifo EXCEPT ![c] = Append(@, [size |-> size, ect |-> ect,
                                              ce |-> ect /\ mark, stamp |-> Stamp(ect)])]
    /\ event' = IF link = Idle THEN "deque" ELSE "none"
    /\ UNCHANGED <<now, link, sent, setup, drain>>

Drop ==
    /\ event' = IF link = Idle THEN "deque" ELSE "none"
    /\ UNCHANGED <<now, link, sent, setup, fifo, drain>>
-----------------------------------------------------------------------------
\* Bytes over time for a cycle of dq_thresh_ bytes or more that ends with the
\* transmission of a packet of size bytes; the mutant forgets that transmission.
RateSampleEarly(count, tstamp, size) ==
    IF now > tstamp THEN (count * RateUnit) \div (now - tstamp) ELSE RateUnit

RateSample(count, tstamp, size) == (count * RateUnit) \div (now - tstamp + TxTime(size))

\* The departure of size bytes in the measurement of a drain rate d, with rest bytes
\* left in the queue.
Measure(d, size, rest) ==
    LET begun == IF rest >= DqThresh /\ d.count = DQ_COUNT_INVALID
                 THEN [d EXCEPT !.tstamp = now, !.count = 0] ELSE d
        count  == begun.count + size
        sample == RateSample(count, begun.tstamp, size)
        rate   == IF d.rate < 0 THEN sample ELSE Ewma(d.rate, sample, RateAlpha)
    IN  IF begun.count = DQ_COUNT_INVALID THEN begun
        ELSE IF count < DqThresh THEN [begun EXCEPT !.count = count]
        ELSE IF rest < DqThresh
             THEN [begun EXCEPT !.rate = rate, !.count = DQ_COUNT_INVALID]
        ELSE [tstamp |-> now + TxTime(size), count |-> 0, rate |-> rate]

\* The packet has waited longer than the port's threshold takes to send.
LatencyMark(pkt) == marking_scheme_ = "latency" /\ now - pkt.stamp > TxTime(port_thresh_)

\* The head packet of c leaves for the link, with a mark if it waited too long or if
\* mark holds.
Leave(c, mark) ==
    LET pkt == Head(fifo[c])
    IN  /\ fifo' = [fifo EXCEPT ![c] = Tail(@)]
        /\ sent' = [queue |-> c, size |-> pkt.size,
                    ce |-> pkt.ce \/ (pkt.ect /\ (mark \/ LatencyMark(pkt)))]
        /\ drain' = [drain EXCEPT ![c] = Measure(@, pkt.size, ByteLength(c) - pkt.size)]
        /\ link' = now + TxTime(pkt.size)
        /\ event' = "none"
        /\ UNCHANGED <<now, setup>>

\* deque returns NULL.
ReturnNull == event' = "none" /\ UNCHANGED <<now, link, sent, setup, fifo, drain>>
-----------------------------------------------------------------------------
\* Strict priority: the first priority queue that is not empty; the mutant takes
\* the last.
PrioHeadLast == CHOOSE c \in PrioQueues :
                    fifo[c] # <<>> /\ \A d \in PrioQueues : d > c => fifo[d] = <<>>
PrioHead     == CHOOSE c \in PrioQueues :
                    fifo[c] # <<>> /\ \A d \in PrioQueues : d < c => fifo[d] = <<>>

PrioTurn == event = "deque" /\ LengthOf(PrioQueues) > 0
-----------------------------------------------------------------------------
\* The link: Queue::resume at the end of a transmission, and the clock.
Resume ==
    /\ event = "none" /\ link = now
    /\ link' = Idle /\ sent' = NoPacket
    /\ event' = "deque"
    /\ UNCHANGED <<now, setup, fifo, drain>>

Tick ==
    /\ event = "none" /\ link # now
    /\ now < Until
    /\ now' = now + 1
    /\ UNCHANGED <<link, sent, event, setup, fifo, drain>>
-----------------------------------------------------------------------------
(***************************************************************************)
(* The queue Priority: strict priority over all its queues, with one       *)
(* marking threshold for the port and for each queue.                      *)
(***************************************************************************)
\* Priority::enque.
PriorityEnque(prio, size, ect) ==
    /\ event = "none"
    /\ IF Overfilled(size) THEN Drop
       ELSE LET c == QueueOf(prio)
            IN  Insert(c, size, ect,
                       StaticMark(c, ByteLength(c) + size, TotalByteLength + size))

\* Priority::deque.
PriorityDeque ==
    \/ PrioTurn /\ Leave(PrioHead, FALSE)
    \/ event = "deque" /\ TotalByteLength = 0 /\ ReturnNull

PriorityNext ==
    \/ \E prio \in PktPrios, size \in PktSizes, ect \in PktEcts :
          PriorityEnque(prio, size, ect)
    \/ PriorityDeque
    \/ Resume
    \/ Tick
-----------------------------------------------------------------------------
\* The bytes of a packet, for PriorityFifos.
PktSize(pkt) == pkt.size
=============================================================================
