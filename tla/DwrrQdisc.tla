----------------------------- MODULE DwrrQdisc -----------------------------
(***************************************************************************)
(* The qdisc sch_dwrr: NumQueues classes, each a byte FIFO, scheduled by   *)
(* strict priority between priorities and by deficit weighted round robin  *)
(* (or weighted round robin) within one, behind a token bucket, with ECN   *)
(* marking at enqueue or at dequeue.                                       *)
(*                                                                         *)
(* Enqueue and dequeue hold the root lock of the qdisc; the sysctl writes, *)
(* the clock and the watchdog timer do not.  A dequeue is therefore one    *)
(* action per iteration of its loop, between which deq is not NoDequeue:   *)
(* no packet is enqueued meanwhile, but a sysctl may change.               *)
(***************************************************************************)
EXTENDS QdiscPort, RoundTime, CodelMarking, Functions

CONSTANTS
    PrioChoices,           \* per queue, values written to dwrr_queue_prio
    QuantumChoices,        \* per queue, values written to dwrr_queue_quantum
    EcnSchemes,            \* values written to dwrr_ecn_scheme
    EnableWrr,             \* dwrr_enable_wrr
    RateBps, RateScale,    \* rate_bps; bits/s of one byte per ns (1 << 33)
    TcnThresh              \* dwrr_tcn_thresh

ASSUME DwrrAssumption ==
    /\ PrioChoices \in [Queues -> SUBSET Prios]
    /\ QuantumChoices \in [Queues -> SUBSET (Nat \ {0})]
    /\ EcnSchemes \subseteq {"none", "queue", "port", "mq_ecn", "tcn", "codel"}
    /\ EcnSchemes # {}
    /\ EnableWrr \in BOOLEAN
    /\ RateBps \in Nat \ {0} /\ RateScale \in Nat
    /\ TcnThresh \in Nat /\ 2 * TcnThresh < U32

VARIABLES
    \* the kernel around the qdisc
    now,             \* ktime_get_ns()
    run,             \* __qdisc_run is due: it calls dequeue until it gets NULL
    watchdog,        \* expiry of the armed watchdog timer, or NoTimer
    wire,            \* what the last dequeue returned: a packet, or NoPacket
    \* sysctl
    queue_prio, queue_quantum, ecn_scheme,
    \* struct dwrr_class, one entry per class
    fifo,            \* the packets of the child bfifo
    backlog,         \* qstats.backlog of the child bfifo
    len_bytes, prio, deficit, quantum, start_time, last_pkt_time, codel,
    \* struct dwrr_sched_data
    active,          \* per priority, the active list
    tokens, time_ns, sum_len_bytes, prio_len_bytes, round_time, last_idle_time,
    qlen,            \* sch->q.qlen
    \* the locals prio and now of the dequeue in progress
    deq

kernelVars == <<now, run, watchdog, wire>>
sysctlVars == <<queue_prio, queue_quantum, ecn_scheme>>
fifoVars   == <<fifo, backlog, len_bytes, sum_len_bytes, prio_len_bytes, qlen>>
turnVars   == <<prio, deficit, quantum, start_time, active>>
sentVars   == <<last_pkt_time, codel, tokens, time_ns, last_idle_time>>
vars == <<kernelVars, sysctlVars, fifoVars, turnVars, sentVars, round_time, deq>>

NoDequeue == [prio |-> -1, now |-> 0]
-----------------------------------------------------------------------------
BufferOverfill(c, size) == Overfill(c, size, len_bytes[c], sum_len_bytes)

\* The child bfifo refuses the packet.
ChildFull(c, len) == backlog[c] + len > ChildLimit

\* A mutant of EstimateRate: not limited by the rate of the link.
EstimateRateUnlimited(qtm, rt) == IF rt > 0 THEN (qtm * RateScale) \div rt ELSE RateBps

\* The rate of a queue with this quantum: one quantum per round, at most the
\* link's, which is also assumed while there is no estimate of the round.
EstimateRate(qtm, rt) ==
    Lesser(IF rt > 0 THEN (qtm * RateScale) \div rt ELSE RateBps, RateBps)

MqEcnThresh(qtm, rt) == (EstimateRate(qtm, rt) * PortThresh) \div RateBps

\* Marking by queue length, of a packet of a class with length len and quantum
\* qtm on a port with total bytes queued.
QlenMark(c, len, total, qtm, rt) ==
    CASE ecn_scheme = "queue"  -> len > QueueThresh[c]
      [] ecn_scheme = "port"   -> total > PortThresh
      [] ecn_scheme = "mq_ecn" -> len > MqEcnThresh(qtm, rt)
      [] OTHER                 -> FALSE

\* Enqueue stamps packets with the time; the mutant for TCN only.
SojournTcn == ecn_scheme = "tcn"
Sojourn    == ecn_scheme \in {"tcn", "codel"}

TcnMark(tstamp) == CodelAfter(CodelTime(now - tstamp), TcnThresh)
-----------------------------------------------------------------------------
Init ==
    /\ now = 0 /\ run = FALSE /\ watchdog = NoTimer /\ wire = NoPacket
    /\ queue_prio \in {f \in [Queues -> Prios] : \A c \in Queues : f[c] \in PrioChoices[c]}
    /\ queue_quantum \in {f \in [Queues -> UNION {QuantumChoices[c] : c \in Queues}] :
                              \A c \in Queues : f[c] \in QuantumChoices[c]}
    /\ ecn_scheme \in EcnSchemes
    /\ fifo = [c \in Queues |-> <<>>]
    /\ backlog = [c \in Queues |-> 0]
    /\ len_bytes = [c \in Queues |-> 0]
    /\ prio = [c \in Queues |-> 0]
    /\ deficit = [c \in Queues |-> 0]
    /\ quantum = [c \in Queues |-> 0]
    /\ start_time = [c \in Queues |-> now]
    /\ last_pkt_time = [c \in Queues |-> now]
    /\ codel = [c \in Queues |-> CodelInit]
    /\ active = [p \in Prios |-> <<>>]
    /\ tokens = 0 /\ time_ns = now
    /\ sum_len_bytes = 0
    /\ prio_len_bytes = [p \in Prios |-> 0]
    /\ round_time = [p \in Prios |-> 0]
    /\ last_idle_time = [p \in Prios |-> now]
    /\ qlen = 0
    /\ deq = NoDequeue
-----------------------------------------------------------------------------
\* dwrr_enqueue.  The decay of the round time precedes the decision to drop.
DecayRound(c) ==
    LET p == queue_prio[c]
    IN  round_time' = IF prio_len_bytes[p] = 0
                      THEN [round_time EXCEPT ![p] =
                                ResetRound(@, now - last_idle_time[p])]
                      ELSE round_time

\* A mutant of Drop: the port's counter includes the dropped packet.
DropCounted(c, len) ==
    /\ BufferOverfill(c, SkbSize(len)) \/ ChildFull(c, len)
    /\ sum_len_bytes' = sum_len_bytes + SkbSize(len)
    /\ UNCHANGED <<fifo, backlog, len_bytes, prio_len_bytes, qlen, turnVars>>

Drop(c, len) ==
    /\ BufferOverfill(c, SkbSize(len)) \/ ChildFull(c, len)
    /\ UNCHANGED <<fifoVars, turnVars>>

\* A class that was empty joins the active list of its configured priority
\* with one quantum; cl->prio keeps that priority until the class is empty.
Activate(c) ==
    /\ prio' = [prio EXCEPT ![c] = queue_prio[c]]
    /\ quantum' = [quantum EXCEPT ![c] = queue_quantum[c]]
    /\ deficit' = [deficit EXCEPT ![c] = quantum'[c]]
    /\ start_time' = [start_time EXCEPT ![c] = now]
    /\ active' = [active EXCEPT ![prio'[c]] = Append(@, c)]

Admit(c, len) ==
    LET size == SkbSize(len)
    IN  /\ ~ BufferOverfill(c, size) /\ ~ ChildFull(c, len)
        /\ IF fifo[c] = <<>> THEN Activate(c) ELSE UNCHANGED turnVars
        /\ backlog' = [backlog EXCEPT ![c] = @ + len]
        /\ qlen' = qlen + 1
        /\ sum_len_bytes' = sum_len_bytes + size
        /\ prio_len_bytes' = [prio_len_bytes EXCEPT ![prio'[c]] = @ + size]
        /\ len_bytes' = [len_bytes EXCEPT ![c] = @ + size]
        /\ fifo' = [fifo EXCEPT ![c] =
               Append(@, [len    |-> len,
                          tstamp |-> IF Sojourn THEN now ELSE 0,
                          ce     |-> /\ ~ DequeueEcn
                                     /\ QlenMark(c, len_bytes'[c], sum_len_bytes',
                                                 quantum'[c], round_time'[prio'[c]])])]

\* __dev_xmit_skb enqueues under the root lock, then runs the qdisc.
Enqueue(dscp, len) ==
    LET c == Classify(dscp)
    IN  /\ deq = NoDequeue
        /\ run' = TRUE
        /\ DecayRound(c)
        /\ Drop(c, len) \/ Admit(c, len)
        /\ UNCHANGED <<now, watchdog, wire, sysctlVars, sentVars, deq>>
-----------------------------------------------------------------------------
ActivePrios == {p \in Prios : active[p] # <<>>}

\* A mutant of PrioSchedule: the least urgent priority first.
PrioScheduleLast == CHOOSE p \in ActivePrios : \A r \in ActivePrios : p >= r

PrioSchedule == CHOOSE p \in ActivePrios : \A r \in ActivePrios : p <= r

\* dwrr_dequeue up to its loop: the priority to serve, or nothing to send.
DequeueNothing ==
    /\ run /\ deq = NoDequeue
    /\ ActivePrios = {}
    /\ run' = FALSE
    /\ wire' = NoPacket
    /\ UNCHANGED <<now, watchdog, sysctlVars, fifoVars, turnVars, sentVars,
                   round_time, deq>>

DequeueStart ==
    /\ run /\ deq = NoDequeue
    /\ ActivePrios # {}
    /\ deq' = [prio |-> PrioSchedule, now |-> now]
    /\ wire' = NoPacket
    /\ UNCHANGED <<now, run, watchdog, sysctlVars, fifoVars, turnVars, sentVars,
                   round_time>>

\* The class and the packet the loop of the dequeue in progress looks at.
HeadClass  == Head(active[deq.prio])
HeadPacket == Head(fifo[HeadClass])
HeadSize   == SkbSize(HeadPacket.len)
HeadResult == TbfSchedule(HeadSize, tokens, time_ns, deq.now)

InTurn == deq # NoDequeue /\ HeadSize <= deficit[HeadClass]

\* When the missing tokens will be there, and a mutant that counts from the
\* checkpoint of the bucket.
WakeTimeEarly == time_ns - HeadResult
WakeTime      == deq.now - HeadResult

\* A mutant of Throttle: it leaves the watchdog as it is.
ThrottleUnarmed ==
    /\ InTurn /\ HeadResult < 0
    /\ run' = FALSE
    /\ deq' = NoDequeue
    /\ UNCHANGED <<now, watchdog, wire, sysctlVars, fifoVars, turnVars, sentVars, round_time>>

\* Not enough tokens: dequeue arms the watchdog and returns NULL.
Throttle ==
    /\ InTurn /\ HeadResult < 0
    /\ watchdog' = WakeTime
    /\ run' = FALSE
    /\ deq' = NoDequeue
    /\ UNCHANGED <<now, wire, sysctlVars, fifoVars, turnVars, sentVars, round_time>>

\* Marking of the packet that leaves class c, with left bytes behind it.
DequeueMark(c, pkt, left) ==
    CASE ecn_scheme = "tcn"   -> TcnMark(pkt.tstamp)
      [] ecn_scheme = "codel" -> CodelMark(codel[c], pkt.tstamp, left, now).ce
      [] OTHER -> DequeueEcn /\ QlenMark(c, left, sum_len_bytes', quantum[c],
                                         round_time'[prio[c]])

\* The packet about to leave is the last of its class; the mutant tests after.
LastPacketAfter(c) == Len(fifo[c]) = 0
LastPacket(c)      == Len(fifo[c]) = 1

\* The packet is sent; a class that becomes empty ends its round.
Transmit ==
    LET c     == HeadClass
        p     == deq.prio
        size  == HeadSize
        left  == len_bytes[c] - size
        empty == LastPacket(c)
    IN  /\ InTurn /\ HeadResult >= 0
        /\ fifo' = [fifo EXCEPT ![c] = Tail(@)]
        /\ backlog' = [backlog EXCEPT ![c] = @ - HeadPacket.len]
        /\ prio_len_bytes' = [prio_len_bytes EXCEPT ![p] = @ - size]
        /\ last_idle_time' = IF prio_len_bytes'[p] = 0
                             THEN [last_idle_time EXCEPT ![p] = deq.now]
                             ELSE last_idle_time
        /\ sum_len_bytes' = sum_len_bytes - size
        /\ qlen' = qlen - 1
        /\ len_bytes' = [len_bytes EXCEPT ![c] = left]
        /\ deficit' = [deficit EXCEPT ![c] = @ - size]
        /\ last_pkt_time' = [last_pkt_time EXCEPT ![c] = deq.now + L2T(size)]
        /\ active' = IF empty THEN [active EXCEPT ![p] = Tail(@)] ELSE active
        /\ round_time' = IF empty
                         THEN [round_time EXCEPT ![p] =
                                   EwmaRound(@, last_pkt_time'[c] - start_time[c])]
                         ELSE round_time
        /\ time_ns' = deq.now
        /\ tokens' = Lesser(HeadResult, BucketNs)
        /\ codel' = IF ecn_scheme = "codel"
                    THEN [codel EXCEPT ![c] =
                              CodelMark(@, HeadPacket.tstamp, left, now).class]
                    ELSE codel
        /\ wire' = [queue |-> c, prio |-> p, size |-> size, at |-> deq.now,
                    ce |-> HeadPacket.ce \/ DequeueMark(c, HeadPacket, left)]
        /\ deq' = NoDequeue
        /\ UNCHANGED <<now, run, watchdog, sysctlVars, prio, quantum, start_time>>

\* The deficit for the next turn; the mutants add two quanta, or none.
RefillTwice(c) == deficit[c] + 2 * quantum'[c]
RefillNone(c)  == deficit[c]
Refill(c)      == IF EnableWrr THEN quantum'[c] ELSE deficit[c] + quantum'[c]

\* The deficit is too small: the class ends its turn and goes to the tail.
Rotate ==
    LET c == HeadClass
        p == deq.prio
    IN  /\ deq # NoDequeue /\ ~ InTurn
        /\ round_time' = [round_time EXCEPT ![p] =
                              EwmaRound(@, last_pkt_time[c] - start_time[c])]
        /\ start_time' = [start_time EXCEPT ![c] = last_pkt_time[c]]
        /\ quantum' = [quantum EXCEPT ![c] = queue_quantum[c]]
        /\ active' = [active EXCEPT ![p] = Append(Tail(@), c)]
        /\ deficit' = [deficit EXCEPT ![c] = Refill(c)]
        /\ UNCHANGED <<kernelVars, sysctlVars, fifoVars, prio, sentVars, deq>>

DequeueLoop == Throttle \/ Transmit \/ Rotate
-----------------------------------------------------------------------------
\* The timer of the throttled qdisc expires and schedules a run.
WatchdogFire ==
    /\ watchdog # NoTimer /\ watchdog <= now
    /\ watchdog' = NoTimer
    /\ run' = TRUE
    /\ UNCHANGED <<now, wire, sysctlVars, fifoVars, turnVars, sentVars, round_time, deq>>

\* The device wakes the queue, whether or not there is anything to send.
NetifSchedule ==
    /\ ~ run
    /\ run' = TRUE
    /\ UNCHANGED <<now, watchdog, wire, sysctlVars, fifoVars, turnVars, sentVars,
                   round_time, deq>>

Tick(d) ==
    /\ now + d <= MaxTime
    /\ now' = now + d
    /\ UNCHANGED <<run, watchdog, wire, sysctlVars, fifoVars, turnVars, sentVars,
                   round_time, deq>>

\* Writes to the sysctl files, at any time and under no lock of the qdisc.
SetQueuePrio(c, p) ==
    /\ queue_prio' = [queue_prio EXCEPT ![c] = p]
    /\ UNCHANGED <<kernelVars, queue_quantum, ecn_scheme, fifoVars, turnVars, sentVars,
                   round_time, deq>>

SetQueueQuantum(c, qtm) ==
    /\ queue_quantum' = [queue_quantum EXCEPT ![c] = qtm]
    /\ UNCHANGED <<kernelVars, queue_prio, ecn_scheme, fifoVars, turnVars, sentVars,
                   round_time, deq>>

SetEcnScheme(s) ==
    /\ ecn_scheme' = s
    /\ UNCHANGED <<kernelVars, queue_prio, queue_quantum, fifoVars, turnVars, sentVars,
                   round_time, deq>>

Sysctl ==
    \/ \E c \in Queues : \E p \in PrioChoices[c] : SetQueuePrio(c, p)
    \/ \E c \in Queues : \E qtm \in QuantumChoices[c] : SetQueueQuantum(c, qtm)
    \/ \E s \in EcnSchemes : SetEcnScheme(s)

Next ==
    \/ \E dscp \in Dscps, len \in PktLens : Enqueue(dscp, len)
    \/ DequeueNothing
    \/ DequeueStart
    \/ DequeueLoop
    \/ WatchdogFire
    \/ NetifSchedule
    \/ \E d \in TickSteps : Tick(d)
    \/ Sysctl

Spec == Init /\ [][Next]_vars

\* __qdisc_run keeps calling dequeue; hrtimers fire.  Nothing obliges packets
\* to arrive, sysctls to change or the device to wake the queue.
Fairness ==
    /\ WF_vars(DequeueNothing \/ DequeueStart \/ DequeueLoop)
    /\ WF_vars(WatchdogFire)

FairSpec == Spec /\ Fairness

\* And time passes.
TimedSpec == FairSpec /\ WF_vars(\E d \in TickSteps : Tick(d))
-----------------------------------------------------------------------------
(***************************************************************************)
(* Properties.                                                             *)
(***************************************************************************)
\* Every variable keeps its type; in particular a class's deficit and the
\* tokens are never negative, and the tokens never exceed the bucket.  The byte
\* counters are integers here: that they never go below zero is AccountingExact.
TypeOK ==
    /\ now \in Nat /\ run \in BOOLEAN /\ watchdog \in Nat \cup {NoTimer}
    /\ wire \in [queue : Queues, prio : Prios, size : Nat, at : Nat, ce : BOOLEAN]
                    \cup {NoPacket}
    /\ queue_prio \in [Queues -> Prios]
    /\ queue_quantum \in [Queues -> Nat \ {0}]
    /\ ecn_scheme \in EcnSchemes
    /\ fifo \in [Queues -> Seq(Packets)]
    /\ backlog \in [Queues -> Int]
    /\ len_bytes \in [Queues -> Int]
    /\ prio \in [Queues -> Prios]
    /\ deficit \in [Queues -> Nat]
    /\ quantum \in [Queues -> Nat]
    /\ start_time \in [Queues -> Nat]
    /\ last_pkt_time \in [Queues -> Nat]
    /\ codel \in [Queues -> CodelState]
    /\ active \in [Prios -> Seq(Queues)]
    /\ tokens \in 0 .. BucketNs /\ time_ns \in Nat
    /\ sum_len_bytes \in Int
    /\ prio_len_bytes \in [Prios -> Int]
    /\ round_time \in [Prios -> Int]
    /\ last_idle_time \in [Prios -> Nat]
    /\ qlen \in Int
    /\ deq \in [prio : Prios, now : Nat] \cup {NoDequeue}

\* The active lists hold exactly the classes with packets: each once, on the
\* list of the priority it was activated with, whatever the sysctl says since.
\* (A class twice on a list, or on one while empty, corrupts the kernel list.)
ActiveListsExact ==
    \A p \in Prios :
        /\ IsInjective(active[p])
        /\ Range(active[p]) = {c \in Queues : fifo[c] # <<>> /\ prio[c] = p}

\* The counters that buffer management, marking and idle detection read are
\* what is queued: per class, per priority, per port, and in the child bfifo.
AccountingExact ==
    /\ Counted(fifo, backlog, len_bytes, sum_len_bytes, qlen)
    /\ CountedPerPrio(prio, len_bytes, prio_len_bytes)

\* A class with packets has banked less than one packet beyond its quantum: what
\* limits how far round robin lets it run ahead of the others.
DeficitBound ==
    \A c \in Queues : fifo[c] # <<>> =>
        \E len \in PktLens : deficit[c] < quantum[c] + SkbSize(len)

\* A throttled qdisc always wakes up, and not too early: when it holds packets
\* and no run is due, the watchdog is armed, and the tokens there will be when it
\* expires pay for the packet that is next (if the bucket can pay for it at all).
ThrottledIsArmed ==
    (~ run /\ deq = NoDequeue /\ ActivePrios # {}) =>
        LET c    == Head(active[PrioSchedule])
            size == SkbSize(Head(fifo[c]).len)
        IN  /\ watchdog # NoTimer
            /\ size <= deficit[c]
            /\ L2T(size) <= BucketNs =>
                   TbfSchedule(size, tokens, time_ns, watchdog) >= 0

\* A packet leaves only when every higher priority is empty.
StrictPriority ==
    [][\A c \in Queues : Len(fifo'[c]) < Len(fifo[c]) =>
           \A p \in Prios : p < prio[c] => active[p] = <<>>]_vars

\* MQ-ECN lowers the threshold of a queue below the port's, never above it: with
\* more than the port's threshold queued, an arriving packet is always marked.
MqEcnNeverLaxer ==
    [][\A c \in Queues :
           /\ Len(fifo'[c]) > Len(fifo[c])
           /\ ecn_scheme = "mq_ecn" /\ ~ DequeueEcn
           /\ len_bytes'[c] > PortThresh
           => fifo'[c][Len(fifo'[c])].ce]_vars

\* A dequeue returns: the rotation of the active list, under the root lock,
\* reaches a class whose deficit covers its packet.
DequeueTerminates == (deq # NoDequeue) ~> (deq = NoDequeue)

\* The qdisc does not stall: if the bucket can hold the tokens for every packet, it
\* never remains full while packets wait.  Packets arrive and the device wakes the
\* queue as they like; neither is needed.
NeverStalls == []<>(qlen = 0 \/ now - time_ns < BucketNs)

\* round_time is "smooth round time (in ns)" (main.c:78): the average of times
\* between the start of a class's turns, and so not negative.
RoundTimeNonNegative == \A p \in Prios : round_time[p] >= 0

Port == INSTANCE PriorityFifos
            WITH Classes <- Queues, SizeOf <- WireSize, Nothing <- Seen(NoPacket),
                 rank <- prio, out <- Seen(wire)

\* sch_dwrr is a port of FIFOs in strict priority: rotations, throttling and drops
\* lose, reorder or unmark no packet, the sysctl that moves a class to another
\* priority waits until it is empty, and what is charged is what leaves.
ImplementsPort == Port!Spec
=============================================================================
