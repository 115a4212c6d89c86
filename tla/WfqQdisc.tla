------------------------------ MODULE WfqQdisc ------------------------------
(***************************************************************************)
(* The qdisc sch_wfq: NumQueues classes, each a byte FIFO, scheduled by    *)
(* strict priority between priorities and by weighted fair queueing within *)
(* one, behind a token bucket, with ECN marking at enqueue or at dequeue.  *)
(*                                                                         *)
(* Enqueue and dequeue hold the root lock of the qdisc and neither loops   *)
(* over packets, so each is one action, between which a sysctl may change. *)
(***************************************************************************)
EXTENDS QdiscPort, VirtualTime, CodelMarking, FiniteSetsExt

CONSTANTS
    PrioChoices,           \* per queue, values written to wfq_queue_prio
    WeightChoices,         \* per queue, values written to wfq_queue_weight
    EcnSchemes,            \* values written to wfq_ecn_scheme
    TcnThresh              \* wfq_tcn_thresh

\* The virtual time the largest packet takes at the least weight.
MaxShare == Max({Share(SkbSize(len), w) : len \in PktLens,
                                          w \in UNION {WeightChoices[c] : c \in Queues}})

\* wfq_weight_max is wfq_min_pkt_bytes: a packet always takes virtual time.  There is
\* a largest packet (skb->len is 32 bits wide), it takes less than half the range of
\* virtual times, which is 2^64, and one such packet of every class no more than half.
ASSUME WfqAssumption ==
    /\ PrioChoices \in [Queues -> SUBSET Prios]
    /\ WeightChoices \in [Queues -> SUBSET (1 .. MinPktBytes)]
    /\ EcnSchemes \subseteq {"none", "queue", "port", "tcn", "codel"}
    /\ EcnSchemes # {}
    /\ TcnThresh \in Nat /\ 2 * TcnThresh < U32
    /\ \E max \in PktLens : \A len \in PktLens : len <= max
    /\ 2 * MaxShare < TimeWrap /\ 2 * NumQueues * MaxShare <= TimeWrap

VARIABLES
    \* the kernel around the qdisc
    now,             \* ktime_get_ns()
    run,             \* __qdisc_run is due: it calls dequeue until it gets NULL
    watchdog,        \* expiry of the armed watchdog timer, or NoTimer
    wire,            \* what the last dequeue returned: a packet, or NoPacket
    \* sysctl
    queue_prio, queue_weight, ecn_scheme,
    \* struct wfq_class, one entry per class
    fifo,            \* the packets of the child bfifo
    backlog,         \* qstats.backlog of the child bfifo
    len_bytes, prio, head_fin_time, codel,
    \* struct wfq_sched_data
    tokens, time_ns, sum_len_bytes, prio_len_bytes, virtual_time,
    qlen             \* sch->q.qlen

kernelVars == <<now, run, watchdog, wire>>
sysctlVars == <<queue_prio, queue_weight, ecn_scheme>>
fifoVars   == <<fifo, backlog, len_bytes, sum_len_bytes, prio_len_bytes, qlen>>
tagVars    == <<prio, head_fin_time, virtual_time>>
sentVars   == <<codel, tokens, time_ns>>
vars == <<kernelVars, sysctlVars, fifoVars, tagVars, sentVars>>
-----------------------------------------------------------------------------
BufferOverfill(c, size) == Overfill(c, size, len_bytes[c], sum_len_bytes)

\* The child bfifo refuses the packet.
ChildFull(c, len) == backlog[c] + len > ChildLimit

\* Marking by queue length; the scheme MQ-ECN "has no use here" and marks nothing.
QlenMark(c, len, total) ==
    \/ ecn_scheme = "queue" /\ len > QueueThresh[c]
    \/ ecn_scheme = "port" /\ total > PortThresh

Sojourn == ecn_scheme \in {"tcn", "codel"}

TcnMark(tstamp) == CodelAfter(CodelTime(now - tstamp), TcnThresh)
-----------------------------------------------------------------------------
Init ==
    /\ now = 0 /\ run = FALSE /\ watchdog = NoTimer /\ wire = NoPacket
    /\ queue_prio \in {f \in [Queues -> Prios] : \A c \in Queues : f[c] \in PrioChoices[c]}
    /\ queue_weight \in {f \in [Queues -> 1 .. MinPktBytes] :
                             \A c \in Queues : f[c] \in WeightChoices[c]}
    /\ ecn_scheme \in EcnSchemes
    /\ fifo = [c \in Queues |-> <<>>]
    /\ backlog = [c \in Queues |-> 0]
    /\ len_bytes = [c \in Queues |-> 0]
    /\ prio = [c \in Queues |-> 0]
    /\ head_fin_time = [c \in Queues |-> 0]
    /\ codel = [c \in Queues |-> CodelInit]
    /\ tokens = 0 /\ time_ns = now
    /\ sum_len_bytes = 0
    /\ prio_len_bytes = [p \in Prios |-> 0]
    /\ virtual_time = [p \in Prios |-> 0]
    /\ qlen = 0
-----------------------------------------------------------------------------
Drop(c, len) ==
    /\ BufferOverfill(c, SkbSize(len)) \/ ChildFull(c, len)
    /\ UNCHANGED <<fifoVars, tagVars>>

\* A class that was empty takes its configured priority, which it keeps until it
\* is empty again, and queues up behind all of that priority.
Activate(c, size) ==
    LET p == queue_prio[c]
    IN  /\ prio' = [prio EXCEPT ![c] = p]
        /\ head_fin_time' = [head_fin_time EXCEPT ![c] =
                                 FinishTime(virtual_time[p], size, queue_weight[c])]
        /\ virtual_time' = [virtual_time EXCEPT ![p] = head_fin_time'[c]]

\* The priority whose counter includes the packet.
CountedPrio(c)           == prio'[c]

Admit(c, len) ==
    LET size == SkbSize(len)
    IN  /\ ~ BufferOverfill(c, size) /\ ~ ChildFull(c, len)
        /\ IF fifo[c] = <<>> THEN Activate(c, size) ELSE UNCHANGED tagVars
        /\ backlog' = [backlog EXCEPT ![c] = @ + len]
        /\ qlen' = qlen + 1
        /\ sum_len_bytes' = sum_len_bytes + size
        /\ len_bytes' = [len_bytes EXCEPT ![c] = @ + size]
        /\ prio_len_bytes' = [prio_len_bytes EXCEPT ![CountedPrio(c)] = @ + size]
        /\ fifo' = [fifo EXCEPT ![c] =
               Append(@, [len    |-> len,
                          tstamp |-> IF Sojourn THEN now ELSE 0,
                          ce     |-> ~ DequeueEcn /\ QlenMark(c, len_bytes'[c],
                                                              sum_len_bytes')])]

\* wfq_enqueue.  __dev_xmit_skb enqueues under the root lock, then runs the qdisc.
Enqueue(dscp, len) ==
    LET c == Classify(dscp)
    IN  /\ run' = TRUE
        /\ Drop(c, len) \/ Admit(c, len)
        /\ UNCHANGED <<now, watchdog, wire, sysctlVars, sentVars>>
-----------------------------------------------------------------------------
\* The priorities with bytes queued, and the most urgent one; the mutant of
\* PrioSchedule takes the least urgent.
BusyPrios        == {p \in Prios : prio_len_bytes[p] > 0}
PrioScheduleLast == CHOOSE p \in BusyPrios : \A r \in BusyPrios : p >= r
PrioSchedule     == CHOOSE p \in BusyPrios : \A r \in BusyPrios : p <= r

Contenders == {c \in Queues : prio[c] = PrioSchedule /\ len_bytes[c] # 0}

\* The contender the loop of dequeue ends with: it keeps the first one it meets
\* until a later one has a smaller finish time.
HeadClass ==
    LET best[c \in Queues \cup {-1}] ==
            IF c = -1 THEN -1
            ELSE IF /\ c \in Contenders
                    /\ best[c - 1] = -1
                         \/ TimeBefore(head_fin_time[c], head_fin_time[best[c - 1]])
                 THEN c ELSE best[c - 1]
    IN  best[NumQueues - 1]

\* The tokens left if the head packet of class c were sent.
HeadResult(c) == TbfSchedule(SkbSize(Head(fifo[c]).len), tokens, time_ns, now)

\* wfq_dequeue: nothing to send.
DequeueNothing ==
    /\ run /\ BusyPrios = {}
    /\ run' = FALSE
    /\ wire' = NoPacket
    /\ UNCHANGED <<now, watchdog, sysctlVars, fifoVars, tagVars, sentVars>>

\* A mutant of Throttle: it leaves the watchdog as it is.
ThrottleUnarmed(c) ==
    /\ HeadResult(c) < 0
    /\ run' = FALSE
    /\ wire' = NoPacket
    /\ UNCHANGED <<now, watchdog, sysctlVars, fifoVars, tagVars, sentVars>>

\* Not enough tokens: dequeue arms the watchdog and returns NULL.
Throttle(c) ==
    /\ HeadResult(c) < 0
    /\ watchdog' = now - HeadResult(c)
    /\ run' = FALSE
    /\ wire' = NoPacket
    /\ UNCHANGED <<now, sysctlVars, fifoVars, tagVars, sentVars>>

\* The finish time of the packet behind the one sent, which drives the clock of
\* the priority; the mutant leaves the clock alone.
AdvanceTagOnly(c, p) ==
    /\ head_fin_time' = [head_fin_time EXCEPT ![c] =
                             FinishTime(@, SkbSize(fifo[c][2].len), queue_weight[c])]
    /\ UNCHANGED virtual_time

Advance(c, p) ==
    /\ head_fin_time' = [head_fin_time EXCEPT ![c] =
                             FinishTime(@, SkbSize(fifo[c][2].len), queue_weight[c])]
    /\ virtual_time' = [virtual_time EXCEPT ![p] =
                            Later(@, head_fin_time'[c])]

\* Marking of the packet that leaves class c, with left bytes behind it.
DequeueMark(c, pkt, left) ==
    CASE ecn_scheme = "tcn"   -> TcnMark(pkt.tstamp)
      [] ecn_scheme = "codel" -> CodelMark(codel[c], pkt.tstamp, left, now).ce
      [] OTHER -> DequeueEcn /\ QlenMark(c, left, sum_len_bytes')

Transmit(c) ==
    LET pkt  == Head(fifo[c])
        p    == PrioSchedule
        size == SkbSize(pkt.len)
        left == len_bytes[c] - size
    IN  /\ HeadResult(c) >= 0
        /\ fifo' = [fifo EXCEPT ![c] = Tail(@)]
        /\ backlog' = [backlog EXCEPT ![c] = @ - pkt.len]
        /\ sum_len_bytes' = sum_len_bytes - size
        /\ qlen' = qlen - 1
        /\ len_bytes' = [len_bytes EXCEPT ![c] = left]
        /\ prio_len_bytes' = [prio_len_bytes EXCEPT ![p] = @ - size]
        /\ IF left > 0 THEN Advance(c, p) ELSE UNCHANGED <<head_fin_time, virtual_time>>
        /\ time_ns' = now
        /\ tokens' = Lesser(HeadResult(c), BucketNs)
        /\ codel' = IF ecn_scheme = "codel"
                    THEN [codel EXCEPT ![c] =
                              CodelMark(@, pkt.tstamp, left, now).class]
                    ELSE codel
        /\ wire' = [queue |-> c, prio |-> p, size |-> size, at |-> now,
                    ce |-> pkt.ce \/ DequeueMark(c, pkt, left)]
        /\ UNCHANGED <<now, run, watchdog, sysctlVars, prio>>

Dequeue ==
    \/ DequeueNothing
    \/ /\ run /\ BusyPrios # {}
       /\ \E c \in {HeadClass} : Throttle(c) \/ Transmit(c)
-----------------------------------------------------------------------------
\* The timer of the throttled qdisc expires and schedules a run.
WatchdogFire ==
    /\ watchdog # NoTimer /\ watchdog <= now
    /\ watchdog' = NoTimer
    /\ run' = TRUE
    /\ UNCHANGED <<now, wire, sysctlVars, fifoVars, tagVars, sentVars>>

\* The device wakes the queue, whether or not there is anything to send.
NetifSchedule ==
    /\ ~ run
    /\ run' = TRUE
    /\ UNCHANGED <<now, watchdog, wire, sysctlVars, fifoVars, tagVars, sentVars>>

Tick(d) ==
    /\ now + d <= MaxTime
    /\ now' = now + d
    /\ UNCHANGED <<run, watchdog, wire, sysctlVars, fifoVars, tagVars, sentVars>>

\* Writes to the sysctl files, at any time and under no lock of the qdisc.
SetQueuePrio(c, p) ==
    /\ queue_prio' = [queue_prio EXCEPT ![c] = p]
    /\ UNCHANGED <<kernelVars, queue_weight, ecn_scheme, fifoVars, tagVars, sentVars>>

SetQueueWeight(c, w) ==
    /\ queue_weight' = [queue_weight EXCEPT ![c] = w]
    /\ UNCHANGED <<kernelVars, queue_prio, ecn_scheme, fifoVars, tagVars, sentVars>>

SetEcnScheme(s) ==
    /\ ecn_scheme' = s
    /\ UNCHANGED <<kernelVars, queue_prio, queue_weight, fifoVars, tagVars, sentVars>>

Sysctl ==
    \/ \E c \in Queues : \E p \in PrioChoices[c] : SetQueuePrio(c, p)
    \/ \E c \in Queues : \E w \in WeightChoices[c] : SetQueueWeight(c, w)
    \/ \E s \in EcnSchemes : SetEcnScheme(s)

Next ==
    \/ \E dscp \in Dscps, len \in PktLens : Enqueue(dscp, len)
    \/ Dequeue
    \/ WatchdogFire
    \/ NetifSchedule
    \/ \E d \in TickSteps : Tick(d)
    \/ Sysctl

Spec == Init /\ [][Next]_vars

\* __qdisc_run keeps calling dequeue, hrtimers fire and time passes.
Fairness ==
    /\ WF_vars(Dequeue)
    /\ WF_vars(WatchdogFire)
    /\ WF_vars(\E d \in TickSteps : Tick(d))
-----------------------------------------------------------------------------
(***************************************************************************)
(* Properties.                                                             *)
(***************************************************************************)
\* Every variable keeps its type; in particular the tokens are never negative and
\* never exceed the bucket, and virtual times stay within their width.
TypeOK ==
    /\ now \in Nat /\ run \in BOOLEAN /\ watchdog \in Nat \cup {NoTimer}
    /\ wire \in [queue : Queues, prio : Prios, size : Nat, at : Nat, ce : BOOLEAN]
                    \cup {NoPacket}
    /\ queue_prio \in [Queues -> Prios]
    /\ queue_weight \in [Queues -> 1 .. MinPktBytes]
    /\ ecn_scheme \in EcnSchemes
    /\ fifo \in [Queues -> Seq(Packets)]
    /\ backlog \in [Queues -> Int]
    /\ len_bytes \in [Queues -> Int]
    /\ prio \in [Queues -> Prios]
    /\ head_fin_time \in [Queues -> VirtualTimes]
    /\ codel \in [Queues -> CodelState]
    /\ tokens \in 0 .. BucketNs /\ time_ns \in Nat
    /\ sum_len_bytes \in Int
    /\ prio_len_bytes \in [Prios -> Int]
    /\ virtual_time \in [Prios -> VirtualTimes]
    /\ qlen \in Int

\* The counters by which dequeue finds its priority and its class, and by which
\* buffer management and marking decide, are what is queued: per class, per
\* priority (that of the class's activation), per port, and in the child bfifo.
AccountingExact ==
    /\ Counted(fifo, backlog, len_bytes, sum_len_bytes, qlen)
    /\ CountedPerPrio(prio, len_bytes, prio_len_bytes)

\* The classes of a priority that have packets.
Backlogged(p) == {c \in Queues : fifo[c] # <<>> /\ prio[c] = p}

\* The finish times of a priority stay together: each class lags behind the
\* virtual time of its priority by at most one large packet for every other class
\* with packets.  So comparing them modulo the width orders them, however long
\* the qdisc has been running and whatever happened to weights and priorities.
FinishTimesTogether ==
    \A p \in Prios : \A c \in Backlogged(p) :
        (virtual_time[p] - head_fin_time[c]) % TimeWrap
            <= (Cardinality(Backlogged(p)) - 1) * MaxShare

\* The qdisc does not stall: if the bucket can hold the tokens for every packet, it
\* never remains full while packets wait.  Packets arrive and the device wakes the
\* queue as they like; neither is needed.
NeverStalls == []<>(qlen = 0 \/ now - time_ns < BucketNs)

\* A throttled sch_wfq always wakes up, and not too early: when it holds packets and no
\* run is due, the watchdog is armed, and the tokens there will be when it expires pay for
\* the packet that is next (if the bucket can pay for it at all).
ThrottledIsArmed ==
    (~ run /\ BusyPrios # {}) =>
        LET size == SkbSize(Head(fifo[HeadClass]).len)
        IN  /\ watchdog # NoTimer
            /\ L2T(size) <= BucketNs => TbfSchedule(size, tokens, time_ns, watchdog) >= 0

Port == INSTANCE PriorityFifos
            WITH Classes <- Queues, SizeOf <- WireSize, Nothing <- Seen(NoPacket),
                 rank <- prio, out <- Seen(wire)

\* sch_wfq is a port of FIFOs in strict priority, with the priority a class had when
\* it got its packets: the search over all classes by priority, counters and finish
\* times ends at the head of a class that no more urgent one precedes.
ImplementsPort == Port!Spec
=============================================================================
