------------------------------ MODULE PrioPort ------------------------------
(***************************************************************************)
(* What sch_prio, sch_prio_dwrr and sch_prio_wfq have in common: priority  *)
(* queues served in their order, a token bucket whose size is a time, ECN  *)
(* marking by the sojourn time in an ordinary packet time stamp, and a     *)
(* rate that tc change replaces.  The line numbers are those of sch_prio.  *)
(*                                                                         *)
(* Enqueue and dequeue hold the root lock of the qdisc; the sysctl writes, *)
(* the clock, the watchdog timer and the change of the rate do not.        *)
(***************************************************************************)
EXTENDS BufferedPort

CONSTANTS
    NumPrioQueues,      \* PRIO_DWRR_QDISC_MAX_PRIO_QUEUES; all queues of sch_prio
    BucketNs,           \* PRIO_QDISC_BUCKET_NS
    EcnSchemes,         \* values written to PRIO_QDISC_ECN_SCHEME
    Rates,              \* rates the qdisc is created with (bit/s)
    ChangeRates,        \* rates tc change sets later
    RateScale,          \* 8 * NSEC_PER_SEC << 15
    RateDiv,            \* 1 << 15
    MultWrap            \* 2 ^ 32: prio_rate_cfg.mult is a u32

ASSUME PrioAssumption ==
    /\ NumPrioQueues \in 0 .. NumQueues
    /\ BucketNs \in Nat
    /\ EcnSchemes # {}
    /\ Rates \subseteq Nat \ {0} /\ Rates # {} /\ ChangeRates \subseteq Nat \ {0}
    /\ RateScale \in Nat /\ RateDiv \in Nat \ {0} /\ MultWrap \in Nat \ {0}

VARIABLES
    \* the kernel around the qdisc
    now,             \* ktime_get_ns()
    run,             \* __qdisc_run is due: it calls dequeue until it gets NULL
    watchdog,        \* expiry of the armed watchdog timer, or NoTimer
    wire,            \* what the last dequeue returned: a packet, or NoPacket
    \* configuration
    ecn_scheme,
    rate,            \* rate_bps, mult, and 2 ^ shift as div
    change,          \* the store tc change has to do next, or "done"
    \* the queues
    fifo,            \* the packets of the child bfifos
    backlog,         \* qstats.backlog of the child bfifos
    len_bytes,       \* queue_len_bytes
    \* struct prio_sched_data
    tokens, time_ns, sum_len_bytes,
    qlen             \* sch->q.qlen

kernelVars == <<now, run, watchdog, wire>>
configVars == <<ecn_scheme, rate, change>>
fifoVars   == <<fifo, backlog, len_bytes, sum_len_bytes, qlen>>
bucketVars == <<tokens, time_ns>>
portVars   == <<kernelVars, configVars, fifoVars, bucketVars>>

NoPacket == [queue |-> -1, size |-> 0, at |-> 0, ce |-> FALSE]

PrioQueues == 0 .. NumPrioQueues - 1
-----------------------------------------------------------------------------
\* prio_qdisc_precompute_ratedata, and length to time at the rate in use.
RateMult(bps)   == (RateScale \div bps) % MultWrap
Precompute(bps) == [bps |-> bps, mult |-> RateMult(bps), div |-> RateDiv]

L2T(bytes) == LengthToTime(bytes, rate.mult, rate.div)

\* What stays in the bucket if a packet of size bytes is sent now; in the mutant
\* the time already turned into tokens counts again.
ResultAgain(size) == Lesser(now, BucketNs) + tokens - L2T(size)

Result(size) == Lesser(now - time_ns, BucketNs) + tokens - L2T(size)

PortInit ==
    /\ now = 1 /\ run = FALSE /\ watchdog = NoTimer /\ wire = NoPacket
    /\ ecn_scheme \in EcnSchemes
    /\ rate \in {Precompute(bps) : bps \in Rates}
    /\ change = "done"
    /\ fifo = [c \in Queues |-> <<>>]
    /\ backlog = [c \in Queues |-> 0]
    /\ len_bytes = [c \in Queues |-> 0]
    /\ sum_len_bytes = 0
    /\ qlen = 0
    /\ tokens = 0 /\ time_ns = now
-----------------------------------------------------------------------------
\* Enqueue: the packet is refused by the port or by the child bfifo, or admitted.
Refused(c, len) ==
    \/ Overfill(c, SkbSize(len), len_bytes[c], sum_len_bytes)
    \/ backlog[c] + len > ChildLimit

\* The static schemes, on the queue and port lengths that include the packet.
StaticMark(c) ==
    \/ ecn_scheme = "queue" /\ len_bytes'[c] > QueueThresh[c]
    \/ ecn_scheme = "port" /\ sum_len_bytes' > PortThresh

Stamp == IF ecn_scheme = "deque" THEN now ELSE 0

Insert(c, len, ce) ==
    LET size == SkbSize(len)
    IN  /\ backlog' = [backlog EXCEPT ![c] = @ + len]
        /\ qlen' = qlen + 1
        /\ sum_len_bytes' = sum_len_bytes + size
        /\ len_bytes' = [len_bytes EXCEPT ![c] = @ + size]
        /\ fifo' = [fifo EXCEPT ![c] = Append(@, [len |-> len, tstamp |-> Stamp, ce |-> ce])]
-----------------------------------------------------------------------------
\* The queue prio_qdisc_peek finds: the first that is not empty (the mutant of
\* PrioHead: the last).
BusyPrioQueues == {c \in PrioQueues : fifo[c] # <<>>}
PrioHeadLast   == CHOOSE c \in BusyPrioQueues : \A d \in BusyPrioQueues : c >= d
PrioHead       == CHOOSE c \in BusyPrioQueues : \A d \in BusyPrioQueues : c <= d

\* The bytes a departure gives back.
HeadSize(c)    == SkbSize(Head(fifo[c]).len)

\* Marking by sojourn time; a packet without a stamp is not marked.
SojournMark(pkt) ==
    ecn_scheme = "deque" /\ pkt.tstamp > 0 /\ now - pkt.tstamp > L2T(PortThresh)

\* The tokens are limited to the bucket.
Bucket(result)         == Lesser(result, BucketNs)

\* The head packet of c leaves, which takes the bucket to result.
Leave(c, result) ==
    LET pkt  == Head(fifo[c])
        size == HeadSize(c)
    IN  /\ fifo' = [fifo EXCEPT ![c] = Tail(@)]
        /\ backlog' = [backlog EXCEPT ![c] = @ - pkt.len]
        /\ len_bytes' = [len_bytes EXCEPT ![c] = @ - size]
        /\ sum_len_bytes' = sum_len_bytes - size
        /\ qlen' = qlen - 1
        /\ time_ns' = now
        /\ tokens' = Bucket(result)
        /\ wire' = [queue |-> c, size |-> size, at |-> now,
                    ce |-> pkt.ce \/ SojournMark(pkt)]
        /\ UNCHANGED <<now, run, watchdog, configVars>>

\* When the missing tokens will be there.
WakeTime(result)      == now - result

\* A mutant of Arm: the watchdog is left as it is.
ArmNothing(result) ==
    /\ run' = FALSE
    /\ wire' = NoPacket
    /\ UNCHANGED <<now, watchdog, configVars, fifoVars, bucketVars>>

\* Not enough tokens: dequeue arms the watchdog and returns NULL.
Arm(result) ==
    /\ watchdog' = WakeTime(result)
    /\ run' = FALSE
    /\ wire' = NoPacket
    /\ UNCHANGED <<now, configVars, fifoVars, bucketVars>>

\* Nothing to send.
ReturnNull ==
    /\ run' = FALSE
    /\ wire' = NoPacket
    /\ UNCHANGED <<now, watchdog, configVars, fifoVars, bucketVars>>
-----------------------------------------------------------------------------
\* The timer of the throttled qdisc expires and schedules a run.
WatchdogFire ==
    /\ watchdog # NoTimer /\ watchdog <= now
    /\ watchdog' = NoTimer
    /\ run' = TRUE
    /\ UNCHANGED <<now, wire, configVars, fifoVars, bucketVars>>

\* The device wakes the queue, whether or not there is anything to send.
NetifSchedule ==
    /\ ~ run
    /\ run' = TRUE
    /\ UNCHANGED <<now, watchdog, wire, configVars, fifoVars, bucketVars>>

Tick(d) ==
    /\ now + d <= MaxTime
    /\ now' = now + d
    /\ UNCHANGED <<run, watchdog, wire, configVars, fifoVars, bucketVars>>

SetEcnScheme(s) ==
    /\ ecn_scheme' = s
    /\ UNCHANGED <<kernelVars, rate, change, fifoVars, bucketVars>>

\* prio_qdisc_change and prio_qdisc_precompute_ratedata, store by store, while
\* packets are enqueued and dequeued: rate_bps, then shift and mult are reset,
\* then shift and mult are set.
ChangeRate(bps) ==
    /\ change = "done"
    /\ rate' = [rate EXCEPT !.bps = bps]
    /\ change' = "reset shift"
    /\ UNCHANGED <<kernelVars, ecn_scheme, fifoVars, bucketVars>>

Recompute ==
    /\ \/ change = "reset shift" /\ rate' = [rate EXCEPT !.div = 1]
                                 /\ change' = "reset mult"
       \/ change = "reset mult"  /\ rate' = [rate EXCEPT !.mult = 1]
                                 /\ change' = "set shift"
       \/ change = "set shift"   /\ rate' = [rate EXCEPT !.div = RateDiv]
                                 /\ change' = "set mult"
       \/ change = "set mult"    /\ rate' = [rate EXCEPT !.mult = RateMult(rate.bps)]
                                 /\ change' = "done"
    /\ UNCHANGED <<kernelVars, ecn_scheme, fifoVars, bucketVars>>

\* Everything that happens to the qdisc without its lock.
Environment ==
    \/ WatchdogFire
    \/ NetifSchedule
    \/ \E d \in TickSteps : Tick(d)
    \/ \E s \in EcnSchemes : SetEcnScheme(s)
    \/ \E bps \in ChangeRates : ChangeRate(bps)
    \/ Recompute
-----------------------------------------------------------------------------
\* Every variable of the port keeps its type; in particular the tokens are never
\* negative and never exceed the bucket, whatever rate a dequeue sees.
PortTypeOK ==
    /\ now \in Nat /\ run \in BOOLEAN /\ watchdog \in Nat \cup {NoTimer}
    /\ wire \in [queue : Queues, size : Nat, at : Nat, ce : BOOLEAN] \cup {NoPacket}
    /\ ecn_scheme \in EcnSchemes
    /\ rate \in [bps : Nat \ {0}, mult : Nat, div : Nat \ {0}]
    /\ change \in {"done", "reset shift", "reset mult", "set shift", "set mult"}
    /\ fifo \in [Queues -> Seq(Packets)]
    /\ backlog \in [Queues -> Int]
    /\ len_bytes \in [Queues -> Int]
    /\ sum_len_bytes \in Int
    /\ qlen \in Int
    /\ tokens \in 0 .. BucketNs /\ time_ns \in Nat

\* The counters by which buffer management and marking decide are what is queued.
PortAccounting == Counted(fifo, backlog, len_bytes, sum_len_bytes, qlen)
=============================================================================
