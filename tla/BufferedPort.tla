---------------------------- MODULE BufferedPort ----------------------------
(***************************************************************************)
(* What the five qdiscs have in common: NumQueues classes, each a byte     *)
(* FIFO with a limit of its own, classification by DSCP, the buffer shared *)
(* or divided between the classes, and the static ECN thresholds.  The     *)
(* line numbers and the names of parameters are those of sch_dwrr.         *)
(***************************************************************************)
EXTENDS Sums, Integers, Sequences

CONSTANTS
    FcsBytes,              \* frame check sequence added to skb->len
    MinPktBytes,           \* dwrr_min_pkt_bytes
    GapBytes,              \* preamble and interpacket gap
    NumQueues,             \* dwrr_max_queues
    PktLens,               \* skb->len of the packets that arrive
    Dscps, QueueDscp,      \* DSCPs of the packets; dwrr_queue_dscp
    SharedBuffer,          \* dwrr_buffer_mode = dwrr_shared_buffer
    SharedBufferBytes,     \* dwrr_shared_buffer_bytes
    QueueBufferBytes,      \* dwrr_queue_buffer_bytes
    ChildLimit,            \* dwrr_max_buffer_bytes, the limit of each bfifo
    PortThresh,            \* dwrr_port_thresh_bytes
    QueueThresh,           \* dwrr_queue_thresh_bytes
    TickSteps, MaxTime     \* the clock's steps (ns) and its bound in a model

Queues == 0 .. NumQueues - 1

ASSUME ArithAssumption ==
    FcsBytes \in Nat /\ GapBytes \in Nat /\ MinPktBytes \in Nat \ {0}

ASSUME BufferAssumption ==
    /\ NumQueues \in Nat \ {0}
    /\ PktLens \subseteq Nat
    /\ QueueDscp \in [Queues -> Nat] /\ Dscps \subseteq Nat
    /\ SharedBuffer \in BOOLEAN
    /\ SharedBufferBytes \in Nat /\ QueueBufferBytes \in [Queues -> Nat]
    /\ ChildLimit \in Nat
    /\ PortThresh \in Nat /\ QueueThresh \in [Queues -> Nat]
    /\ TickSteps \subseteq Nat /\ MaxTime \in Nat

\* A packet in a FIFO: its length, the time stamp and the ECN bit.
Packets == [len : PktLens, tstamp : Nat, ce : BOOLEAN]

NoTimer == -1
-----------------------------------------------------------------------------
Lesser(a, b)  == IF a <= b THEN a ELSE b
Greater(a, b) == IF a >= b THEN a ELSE b

\* Bytes a packet of skb->len = len occupies on the wire.
SkbSize(len) == Greater(len + FcsBytes, MinPktBytes) + GapBytes

\* Length to time (ns) at a rate of mult / div ns per byte; div is a power of two.
LengthToTime(bytes, mult, div) == (bytes * mult) \div div

\* The first queue whose DSCP matches, queue 0 if none does.
Classify(dscp) ==
    LET matching == {q \in Queues : QueueDscp[q] = dscp}
    IN  IF matching = {} THEN 0
        ELSE CHOOSE q \in matching : \A r \in matching : q <= r

\* A packet of size bytes for class c does not fit a port with total bytes queued,
\* of which queued in the class.
Overfill(c, size, queued, total) ==
    IF SharedBuffer THEN total + size > SharedBufferBytes
                    ELSE queued + size > QueueBufferBytes[c]

\* The bytes of the packets of a FIFO, on the wire and for the child bfifo, and the
\* sum of a function of the classes.
WireBytes(s)  == SumTo([i \in 1 .. Len(s) |-> SkbSize(s[i].len)], Len(s))
ChildBytes(s) == SumTo([i \in 1 .. Len(s) |-> s[i].len], Len(s))
Total(f)      == SumTo([i \in 1 .. NumQueues |-> f[i - 1]], NumQueues)

\* The sum over some of the classes.
TotalOver(S, f) == Total([c \in Queues |-> IF c \in S THEN f[c] ELSE 0])

\* The counters that buffer management and marking read are what is queued: per
\* class, in the child bfifo, per port, and in packets.
Counted(queued, backlog, len_bytes, sum_len_bytes, qlen) ==
    /\ \A c \in Queues :
           /\ len_bytes[c] = WireBytes(queued[c])
           /\ backlog[c] = ChildBytes(queued[c])
    /\ sum_len_bytes = Total(len_bytes)
    /\ qlen = Total([c \in Queues |-> Len(queued[c])])

\* The bytes counted per priority are those of the classes assigned to it.
CountedPerPrio(prio, len_bytes, prio_len_bytes) ==
    \A p \in DOMAIN prio_len_bytes :
        prio_len_bytes[p] =
            Total([c \in Queues |-> IF prio[c] = p THEN len_bytes[c] ELSE 0])
-----------------------------------------------------------------------------
\* What leaves, as PriorityFifos sees it.
WireSize(pkt) == SkbSize(pkt.len)
Seen(w) == [queue |-> w.queue, size |-> w.size, ce |-> w.ce]
=============================================================================
