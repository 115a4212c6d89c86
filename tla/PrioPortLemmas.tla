--------------------------- MODULE PrioPortLemmas ---------------------------
(***************************************************************************)
(* The operations that sch_prio, sch_prio_dwrr and sch_prio_wfq share:     *)
(* what each does to the types and the counters of the port.               *)
(***************************************************************************)
EXTENDS PrioPort, PortLemmas

\* A transmission time at the rate in use, whatever store of a change of the rate
\* came last, and what it leaves in the bucket.
LEMMA PrioL2TType == ASSUME PortTypeOK PROVE \A bytes \in Nat : L2T(bytes) \in Nat
<1>1. rate.mult \in Nat /\ rate.div \in Nat \ {0}
  BY DEF PortTypeOK
<1>2. QED
  BY <1>1, LengthToTimeType DEF L2T

LEMMA ClockTypes ==
    ASSUME PortTypeOK
    PROVE  now \in Nat /\ time_ns \in Nat /\ tokens \in 0 .. BucketNs /\ tokens \in Nat
<1>1. now \in Nat /\ time_ns \in Nat /\ tokens \in 0 .. BucketNs
  BY DEF PortTypeOK
<1>2. QED
  BY <1>1

LEMMA ResultType ==
    ASSUME PortTypeOK, NEW size \in Nat
    PROVE  /\ L2T(size) \in Nat
           /\ Result(size) \in Int
           /\ Result(size) = Lesser(now - time_ns, BucketNs) + tokens - L2T(size)
<1>1. L2T(size) \in Nat
  BY PrioL2TType
<1>2. now \in Int /\ time_ns \in Int /\ tokens \in Int
  BY ClockTypes
<1>3. BucketNs \in Nat
  BY PrioAssumption
<1>4. QED
  BY <1>1, <1>2, <1>3 DEF Result, Lesser

\* A port without packets.
LEMMA PortInitType ==
    ASSUME PortInit
    PROVE  PortTypeOK /\ PortAccounting
<1>1. ASSUME NEW bps \in Rates
      PROVE  Precompute(bps) \in [bps : Nat \ {0}, mult : Nat, div : Nat \ {0}]
  <2>1. bps \in Nat \ {0} /\ RateScale \in Nat /\ MultWrap \in Nat \ {0} /\ RateDiv \in Nat \ {0}
    BY PrioAssumption
  <2>2. RateScale \div bps \in Int
    BY <2>1
  <2>3. RateMult(bps) \in Nat
    BY <2>1, <2>2 DEF RateMult
  <2>4. QED
    BY <2>1, <2>3 DEF Precompute
<1>2. rate \in [bps : Nat \ {0}, mult : Nat, div : Nat \ {0}]
  BY <1>1 DEF PortInit
<1>3. 0 \in 0 .. BucketNs
  BY PrioAssumption
<1>4. FALSE \in BOOLEAN
  OBVIOUS
<1>5. PortTypeOK
  <2>1. /\ fifo \in [Queues -> Seq(Packets)]
        /\ backlog \in [Queues -> Int] /\ len_bytes \in [Queues -> Int]
        /\ sum_len_bytes \in Int /\ qlen \in Int
    BY DEF PortInit
  <2>2. /\ now \in Nat /\ watchdog \in Nat \cup {NoTimer} /\ wire \in {NoPacket}
        /\ ecn_scheme \in EcnSchemes /\ run \in BOOLEAN
        /\ change \in {"done"} /\ tokens \in 0 .. BucketNs /\ time_ns \in Nat
    BY <1>3, <1>4 DEF PortInit
  <2>3. QED
    BY <1>2, <2>1, <2>2 DEF PortTypeOK
<1>6. PortAccounting
  BY CountedInit DEF PortInit, PortAccounting
<1>7. QED
  BY <1>5, <1>6
-----------------------------------------------------------------------------
\* A packet is queued: what was true of the counters stays true.
LEMMA InsertFacts ==
    ASSUME PortTypeOK, PortAccounting, NEW c \in Queues, NEW len \in PktLens,
           NEW ce \in BOOLEAN, Insert(c, len, ce)
    PROVE  /\ \E pkt \in Packets : fifo' = [fifo EXCEPT ![c] = Append(@, pkt)]
           /\ fifo' \in [Queues -> Seq(Packets)]
           /\ backlog' \in [Queues -> Int] /\ len_bytes' \in [Queues -> Int]
           /\ sum_len_bytes' \in Int /\ qlen' = qlen + 1 /\ qlen' \in Int
           /\ len_bytes' = [len_bytes EXCEPT ![c] = @ + SkbSize(len)]
           /\ PortAccounting'
<1> DEFINE pkt == [len |-> len, tstamp |-> Stamp, ce |-> ce]
<1>1. /\ fifo' = [fifo EXCEPT ![c] = Append(@, pkt)]
      /\ backlog' = [backlog EXCEPT ![c] = @ + pkt.len]
      /\ qlen' = qlen + 1
      /\ sum_len_bytes' = sum_len_bytes + SkbSize(pkt.len)
      /\ len_bytes' = [len_bytes EXCEPT ![c] = @ + SkbSize(pkt.len)]
  BY DEF Insert
<1>2. /\ fifo \in [Queues -> Seq(Packets)] /\ backlog \in [Queues -> Int]
      /\ len_bytes \in [Queues -> Int] /\ sum_len_bytes \in Int /\ qlen \in Int
      /\ now \in Nat
  BY DEF PortTypeOK
<1>3. Stamp \in Nat
  BY <1>2 DEF Stamp
<1>4. pkt \in Packets /\ pkt.len = len
  BY <1>3 DEF Packets
<1> HIDE DEF pkt
<1>5. pkt.len \in Int /\ SkbSize(pkt.len) \in Int
  BY <1>4, PktsLen
<1>6. Append(fifo[c], pkt) \in Seq(Packets)
  BY <1>2, <1>4, AppendProperties
<1>7. fifo' \in [Queues -> Seq(Packets)]
  BY <1>1, <1>2, <1>6
<1>8. /\ backlog' \in [Queues -> Int] /\ len_bytes' \in [Queues -> Int]
      /\ sum_len_bytes' \in Int /\ qlen' \in Int
  BY <1>1, <1>2, <1>5
<1>9. PortAccounting'
  <2>1. Counted(fifo, backlog, len_bytes, sum_len_bytes, qlen)
    BY DEF PortAccounting
  <2>2. Counted(fifo', backlog', len_bytes', sum_len_bytes', qlen')
    BY <1>1, <1>2, <1>4, <2>1, CountedAdmit
  <2>3. QED
    BY <2>2 DEF PortAccounting
<1>10. QED
  BY <1>1, <1>4, <1>7, <1>8, <1>9

\* The head packet of a class, and its size.
LEMMA HeadType ==
    ASSUME PortTypeOK, NEW c \in Queues, fifo[c] # <<>>
    PROVE  /\ Head(fifo[c]) \in Packets
           /\ HeadSize(c) \in Nat \ {0} /\ HeadSize(c) = WireSize(Head(fifo[c]))
<1>1. fifo[c] \in Seq(Packets)
  BY DEF PortTypeOK
<1>2. Head(fifo[c]) \in Packets
  BY <1>1, BytesTail
<1>3. QED
  BY <1>2, PktsLen DEF HeadSize, WireSize

\* The head packet of a class leaves.
LEMMA LeaveFacts ==
    ASSUME PortTypeOK, PortAccounting, NEW c \in Queues, fifo[c] # <<>>,
           NEW result \in Nat, Leave(c, result)
    PROVE  /\ PortTypeOK' /\ PortAccounting'
           /\ fifo' = [fifo EXCEPT ![c] = Tail(@)]
           /\ len_bytes' = [len_bytes EXCEPT ![c] = @ - HeadSize(c)]
           /\ qlen' = qlen - 1
           /\ Seen(wire') \in {[queue |-> c, size |-> WireSize(Head(fifo[c])), ce |-> ce] :
                                   ce \in {Head(fifo[c]).ce, TRUE}}
<1> DEFINE pkt  == Head(fifo[c])
           size == HeadSize(c)
           mark == pkt.ce \/ SojournMark(pkt)
<1>1. pkt \in Packets /\ size \in Nat /\ size = SkbSize(pkt.len) /\ size = WireSize(pkt)
  BY HeadType DEF HeadSize
<1>2. /\ fifo' = [fifo EXCEPT ![c] = Tail(@)]
      /\ backlog' = [backlog EXCEPT ![c] = @ - pkt.len]
      /\ len_bytes' = [len_bytes EXCEPT ![c] = @ - size]
      /\ sum_len_bytes' = sum_len_bytes - size
      /\ qlen' = qlen - 1
      /\ time_ns' = now
      /\ tokens' = Lesser(result, BucketNs)
      /\ wire' = [queue |-> c, size |-> size, at |-> now, ce |-> mark]
      /\ UNCHANGED <<now, run, watchdog, ecn_scheme, rate, change>>
  BY DEF Leave, Bucket, configVars
<1>3. /\ fifo \in [Queues -> Seq(Packets)] /\ backlog \in [Queues -> Int]
      /\ len_bytes \in [Queues -> Int] /\ sum_len_bytes \in Int /\ qlen \in Int
      /\ now \in Nat
  BY DEF PortTypeOK
<1>4. mark \in {pkt.ce, TRUE} /\ mark \in BOOLEAN
  <2>1. pkt.ce \in BOOLEAN
    BY <1>1 DEF Packets
  <2>2. QED
    BY <2>1, Zenon
<1> HIDE DEF mark
<1>5. /\ fifo' \in [Queues -> Seq(Packets)]
      /\ backlog' \in [Queues -> Int] /\ len_bytes' \in [Queues -> Int]
      /\ sum_len_bytes' \in Int /\ qlen' \in Int
  <2>1. fifo[c] \in Seq(Packets) /\ Tail(fifo[c]) \in Seq(Packets)
    BY <1>3, HeadTailProperties
  <2>2. pkt.len \in Int
    BY <1>1, PktsLen
  <2> HIDE DEF size, pkt
  <2>3. fifo' \in [Queues -> Seq(Packets)]
    BY <1>2, <1>3, <2>1
  <2>4. size \in Int
    BY <1>1
  <2>5. QED
    BY <1>2, <1>3, <2>2, <2>3, <2>4
<1>6. tokens' \in 0 .. BucketNs /\ time_ns' \in Nat
  BY <1>2, <1>3, PrioAssumption DEF Lesser
<1>7. wire' \in [queue : Queues, size : Nat, at : Nat, ce : BOOLEAN]
  <2> HIDE DEF size, pkt
  <2>1. QED
    BY <1>1, <1>2, <1>3, <1>4
<1>8. PortTypeOK'
  BY <1>2, <1>5, <1>6, <1>7 DEF PortTypeOK
<1>9. PortAccounting'
  <2> DEFINE len == pkt.len
  <2>1. Counted(fifo, backlog, len_bytes, sum_len_bytes, qlen)
    BY DEF PortAccounting
  <2>2. len = Head(fifo[c]).len
    OBVIOUS
  <2>3. /\ fifo' = [fifo EXCEPT ![c] = Tail(@)]
        /\ backlog' = [backlog EXCEPT ![c] = @ - len]
        /\ len_bytes' = [len_bytes EXCEPT ![c] = @ - SkbSize(len)]
        /\ sum_len_bytes' = sum_len_bytes - SkbSize(len)
        /\ qlen' = qlen - 1
    BY <1>1, <1>2
  <2> HIDE DEF len
  <2>4. Counted([fifo EXCEPT ![c] = Tail(@)], [backlog EXCEPT ![c] = @ - len],
                [len_bytes EXCEPT ![c] = @ - SkbSize(len)],
                sum_len_bytes - SkbSize(len), qlen - 1)
    BY <1>3, <2>1, <2>2, CountedSend
  <2>5. Counted(fifo', backlog', len_bytes', sum_len_bytes', qlen')
    BY <2>3, <2>4
  <2>6. QED
    BY <2>5 DEF PortAccounting
<1>10. Seen(wire') = [queue |-> c, size |-> size, ce |-> mark]
  <2> HIDE DEF size, pkt
  <2>1. QED
    BY <1>2 DEF Seen
<1>11. QED
  <2> HIDE DEF size
  <2>1. len_bytes' = [len_bytes EXCEPT ![c] = @ - HeadSize(c)]
    BY <1>2 DEF size
  <2>2. Seen(wire') \in {[queue |-> c, size |-> WireSize(Head(fifo[c])), ce |-> ce] :
                             ce \in {Head(fifo[c]).ce, TRUE}}
    BY <1>1, <1>4, <1>10
  <2>3. QED
    BY <1>2, <1>8, <1>9, <2>1, <2>2

\* A dequeue that returns NULL, with or without the watchdog.
LEMMA ArmFacts ==
    ASSUME PortTypeOK, PortAccounting, NEW result \in Int, result <= 0,
           Arm(result) \/ ReturnNull
    PROVE  /\ PortTypeOK' /\ PortAccounting'
           /\ wire' = NoPacket /\ UNCHANGED <<now, configVars, fifoVars, bucketVars>>
<1>1. /\ watchdog' = now - result \/ watchdog' = watchdog
      /\ run' = FALSE /\ wire' = NoPacket
      /\ UNCHANGED <<now, configVars, fifoVars, bucketVars>>
  BY DEF Arm, ReturnNull, WakeTime
<1>2. watchdog' \in Nat \cup {NoTimer}
  <2>1. CASE watchdog' = now - result
    BY <2>1, ClockTypes
  <2>2. CASE watchdog' = watchdog
    BY <2>2 DEF PortTypeOK
  <2>3. QED
    BY <1>1, <2>1, <2>2
<1>3. run' \in BOOLEAN
  BY <1>1, Zenon
<1>4. QED
  BY <1>1, <1>2, <1>3 DEF PortTypeOK, PortAccounting, configVars, fifoVars, bucketVars

\* What happens without the lock leaves the queues and the bucket alone.
LEMMA EnvironmentFacts ==
    ASSUME PortTypeOK, PortAccounting, Environment
    PROVE  /\ PortTypeOK' /\ PortAccounting'
           /\ UNCHANGED <<wire, fifoVars, bucketVars>> /\ now <= now'
<1> now \in Nat
  BY ClockTypes
<1>1. CASE WatchdogFire \/ NetifSchedule
  <2>1. run' = TRUE /\ UNCHANGED <<now, wire, configVars, fifoVars, bucketVars>>
    BY <1>1 DEF WatchdogFire, NetifSchedule
  <2>2. watchdog' \in Nat \cup {NoTimer}
    BY <1>1 DEF WatchdogFire, NetifSchedule, PortTypeOK
  <2>3. run' \in BOOLEAN
    BY <2>1, Zenon
  <2>4. PortTypeOK'
    BY <2>1, <2>2, <2>3 DEF PortTypeOK, configVars, fifoVars, bucketVars
  <2>5. PortAccounting'
    BY <2>1 DEF PortAccounting, fifoVars
  <2>6. now <= now'
    BY <2>1
  <2>7. QED
    BY <2>1, <2>4, <2>5, <2>6
<1>2. CASE \E d \in TickSteps : Tick(d)
  <2>1. now' \in Nat /\ now <= now'
    BY <1>2, BufferAssumption DEF Tick
  <2>2. UNCHANGED <<run, watchdog, wire, configVars, fifoVars, bucketVars>>
    BY <1>2 DEF Tick
  <2>3. PortTypeOK'
    BY <2>1, <2>2 DEF PortTypeOK, configVars, fifoVars, bucketVars
  <2>4. PortAccounting'
    BY <2>2 DEF PortAccounting, fifoVars
  <2>5. QED
    BY <2>1, <2>2, <2>3, <2>4
<1>3. CASE \E s \in EcnSchemes : SetEcnScheme(s)
  <2>1. ecn_scheme' \in EcnSchemes
    BY <1>3 DEF SetEcnScheme
  <2>2. UNCHANGED <<kernelVars, rate, change, fifoVars, bucketVars>>
    BY <1>3 DEF SetEcnScheme
  <2>3. PortTypeOK'
    BY <2>1, <2>2 DEF PortTypeOK, kernelVars, fifoVars, bucketVars
  <2>4. PortAccounting'
    BY <2>2 DEF PortAccounting, fifoVars
  <2>5. UNCHANGED wire /\ now <= now'
    BY <2>2 DEF kernelVars
  <2>6. QED
    BY <2>2, <2>3, <2>4, <2>5
<1>4. CASE (\E bps \in ChangeRates : ChangeRate(bps)) \/ Recompute
  <2>1. UNCHANGED <<kernelVars, ecn_scheme, fifoVars, bucketVars>>
    BY <1>4 DEF ChangeRate, Recompute
  <2>2. rate' \in [bps : Nat \ {0}, mult : Nat, div : Nat \ {0}]
    <3>1. rate \in [bps : Nat \ {0}, mult : Nat, div : Nat \ {0}]
      BY DEF PortTypeOK
    <3>2. rate.bps \in Nat \ {0} /\ RateMult(rate.bps) \in Nat
      <4>1. rate.bps \in Nat \ {0} /\ RateScale \in Nat /\ MultWrap \in Nat \ {0}
        BY <3>1, PrioAssumption
      <4>2. RateScale \div rate.bps \in Int
        BY <4>1
      <4>3. QED
        BY <4>1, <4>2 DEF RateMult
    <3>3. CASE \E bps \in ChangeRates : ChangeRate(bps)
      <4>1. PICK bps \in ChangeRates : rate' = [rate EXCEPT !.bps = bps]
        BY <3>3 DEF ChangeRate
      <4>2. bps \in Nat \ {0}
        BY PrioAssumption
      <4>3. QED
        BY <3>1, <4>1, <4>2
    <3>4. CASE Recompute
      <4>1. \/ rate' = [rate EXCEPT !.div = 1]
            \/ rate' = [rate EXCEPT !.mult = 1]
            \/ rate' = [rate EXCEPT !.div = RateDiv]
            \/ rate' = [rate EXCEPT !.mult = RateMult(rate.bps)]
        BY <3>4 DEF Recompute
      <4>2. RateDiv \in Nat \ {0} /\ 1 \in Nat \ {0}
        BY PrioAssumption
      <4>3. QED
        BY <3>1, <3>2, <4>1, <4>2
    <3>5. QED
      BY <1>4, <3>3, <3>4
  <2>3. change' \in {"done", "reset shift", "reset mult", "set shift", "set mult"}
    BY <1>4 DEF ChangeRate, Recompute
  <2>4. PortTypeOK'
    BY <2>1, <2>2, <2>3 DEF PortTypeOK, kernelVars, fifoVars, bucketVars
  <2>5. PortAccounting'
    BY <2>1 DEF PortAccounting, fifoVars
  <2>6. UNCHANGED wire /\ now <= now'
    BY <2>1 DEF kernelVars
  <2>7. QED
    BY <2>1, <2>4, <2>5, <2>6
<1>5. QED
  BY <1>1, <1>2, <1>3, <1>4 DEF Environment
-----------------------------------------------------------------------------
\* prio_qdisc_peek finds the first queue with packets.
LEMMA PrioHeadType ==
    ASSUME BusyPrioQueues # {}
    PROVE  /\ PrioHead \in PrioQueues /\ PrioHead \in Queues /\ fifo[PrioHead] # <<>>
           /\ \A d \in PrioQueues : fifo[d] # <<>> => PrioHead <= d
<1>1. BusyPrioQueues \in SUBSET Nat /\ PrioQueues \subseteq Queues
  BY PrioAssumption, BufferAssumption DEF BusyPrioQueues, PrioQueues, Queues
<1>2. \E c \in BusyPrioQueues : \A d \in BusyPrioQueues : c <= d
  BY <1>1, LeastNatural
<1>3. PrioHead \in BusyPrioQueues /\ \A d \in BusyPrioQueues : PrioHead <= d
  BY <1>2 DEF PrioHead
<1>4. QED
  BY <1>1, <1>3 DEF BusyPrioQueues
-----------------------------------------------------------------------------
\* A packet is queued in the port.
LEMMA InsertPort ==
    ASSUME PortTypeOK, PortAccounting, NEW c \in Queues, NEW len \in PktLens, NEW ce \in BOOLEAN,
           Insert(c, len, ce), run' \in BOOLEAN,
           UNCHANGED <<now, watchdog, wire, configVars, bucketVars>>
    PROVE  /\ PortTypeOK' /\ PortAccounting'
           /\ \E pkt \in Packets : fifo' = [fifo EXCEPT ![c] = Append(@, pkt)]
           /\ len_bytes' = [len_bytes EXCEPT ![c] = @ + SkbSize(len)]
           /\ fifo'[c] # <<>>
           /\ \A d \in Queues : d # c => fifo'[d] = fifo[d] /\ len_bytes'[d] = len_bytes[d]
           /\ len_bytes \in [Queues -> Int] /\ SkbSize(len) \in Nat \ {0}
<1>1. PortTypeOK /\ PortAccounting
  OBVIOUS
<1>2. /\ \E pkt \in Packets : fifo' = [fifo EXCEPT ![c] = Append(@, pkt)]
      /\ fifo' \in [Queues -> Seq(Packets)]
      /\ backlog' \in [Queues -> Int] /\ len_bytes' \in [Queues -> Int]
      /\ sum_len_bytes' \in Int /\ qlen' \in Int
      /\ len_bytes' = [len_bytes EXCEPT ![c] = @ + SkbSize(len)]
      /\ PortAccounting'
  BY <1>1, InsertFacts
<1>3. PortTypeOK'
  BY <1>1, <1>2 DEF PortTypeOK, configVars, bucketVars
<1>4. fifo \in [Queues -> Seq(Packets)] /\ len_bytes \in [Queues -> Int]
  BY <1>1 DEF PortTypeOK
<1>5. PICK pkt \in Packets : fifo' = [fifo EXCEPT ![c] = Append(@, pkt)]
  BY <1>2
<1>6. fifo'[c] # <<>>
  <2>1. fifo[c] \in Seq(Packets) /\ fifo'[c] = Append(fifo[c], pkt)
    BY <1>4, <1>5
  <2>2. QED
    BY <2>1, AppendList
<1>7. \A d \in Queues : d # c => fifo'[d] = fifo[d] /\ len_bytes'[d] = len_bytes[d]
  BY <1>2, <1>4, <1>5
<1>8. SkbSize(len) \in Nat \ {0}
  BY SkbSizeType, BufferAssumption
<1>9. QED
  BY <1>2, <1>3, <1>4, <1>6, <1>7, <1>8

\* The head packet of a class leaves the port.
LEMMA LeavePort ==
    ASSUME PortTypeOK, PortAccounting, NEW c \in Queues, fifo[c] # <<>>, NEW result \in Nat, Leave(c, result)
    PROVE  /\ PortTypeOK' /\ PortAccounting' /\ now' = now
           /\ fifo' = [fifo EXCEPT ![c] = Tail(@)]
           /\ fifo'[c] # <<>> <=> Len(fifo[c]) # 1
           /\ \A d \in Queues : d # c => fifo'[d] = fifo[d] /\ len_bytes'[d] = len_bytes[d]
           /\ len_bytes \in [Queues -> Int] /\ len_bytes' \in [Queues -> Int]
           /\ len_bytes'[c] = len_bytes[c] - HeadSize(c)
           /\ HeadSize(c) \in Nat \ {0}
           /\ Seen(wire') \in {[queue |-> c, size |-> WireSize(Head(fifo[c])), ce |-> ce] :
                                   ce \in {Head(fifo[c]).ce, TRUE}}
<1>1. PortTypeOK /\ PortAccounting
  OBVIOUS
<1>2. HeadSize(c) \in Nat \ {0}
  BY <1>1, HeadType
<1>3. /\ PortTypeOK' /\ PortAccounting'
      /\ fifo' = [fifo EXCEPT ![c] = Tail(@)]
      /\ len_bytes' = [len_bytes EXCEPT ![c] = @ - HeadSize(c)]
      /\ Seen(wire') \in {[queue |-> c, size |-> WireSize(Head(fifo[c])), ce |-> ce] :
                              ce \in {Head(fifo[c]).ce, TRUE}}
  BY <1>1, LeaveFacts
<1>4. fifo \in [Queues -> Seq(Packets)] /\ len_bytes \in [Queues -> Int]
      /\ len_bytes' \in [Queues -> Int]
  BY <1>1, <1>3 DEF PortTypeOK
<1>5. fifo'[c] # <<>> <=> Len(fifo[c]) # 1
  <2>1. fifo[c] \in Seq(Packets) /\ fifo'[c] = Tail(fifo[c])
    BY <1>3, <1>4
  <2>2. fifo'[c] \in Seq(Packets) /\ Len(fifo'[c]) = Len(fifo[c]) - 1 /\ Len(fifo[c]) \in Nat
    BY <2>1, HeadTailProperties, LenProperties
  <2>3. fifo'[c] = <<>> <=> Len(fifo'[c]) = 0
    BY <2>2, EmptySeq
  <2>4. QED
    BY <2>2, <2>3
<1>6. /\ \A d \in Queues : d # c => fifo'[d] = fifo[d] /\ len_bytes'[d] = len_bytes[d]
      /\ len_bytes'[c] = len_bytes[c] - HeadSize(c)
  BY <1>3, <1>4
<1>7. now' = now
  BY DEF Leave
<1>8. QED
  BY <1>2, <1>3, <1>4, <1>5, <1>6, <1>7
-----------------------------------------------------------------------------
\* The bytes counted for the priority queues when the length of one queue changes.
LEMMA PrioTotalChange ==
    ASSUME NEW c \in Queues, NEW f \in [Queues -> Int], NEW k \in Int
    PROVE  /\ TotalOver(PrioQueues, f) \in Int
           /\ TotalOver(PrioQueues, [f EXCEPT ![c] = @ + k])
                  = TotalOver(PrioQueues, f) + (IF c \in PrioQueues THEN k ELSE 0)
<1> DEFINE f1   == [f EXCEPT ![c] = @ + k]
           more == IF c \in PrioQueues THEN k ELSE 0
           F    == [q \in Queues |-> IF q \in PrioQueues THEN f[q] ELSE 0]
<1>1. f1[c] = f[c] + k /\ f1 \in [Queues -> Int] /\ \A q \in Queues : q # c => f1[q] = f[q]
  OBVIOUS
<1> HIDE DEF f1
<1>2. more \in Int
  OBVIOUS
<1>3. /\ \A q \in Queues : q \in PrioQueues => f[q] \in Int
      /\ \A q \in Queues : q \in PrioQueues => f1[q] \in Int
  BY <1>1
<1>4. (IF c \in PrioQueues THEN f1[c] ELSE 0) = (IF c \in PrioQueues THEN f[c] ELSE 0) + more
  BY <1>1
<1>5. \A q \in Queues : q # c => /\ q \in PrioQueues <=> q \in PrioQueues
                                 /\ q \in PrioQueues => f1[q] = f[q]
  BY <1>1
<1> HIDE DEF more
<1>6. TotalOver(PrioQueues, f1) = TotalOver(PrioQueues, f) + more
  BY <1>2, <1>3, <1>4, <1>5, TotalOverChange
<1>7. F \in [Queues -> Int] /\ TotalOver(PrioQueues, f) = Total(F)
  BY DEF TotalOver
<1> HIDE DEF F
<1>8. TotalOver(PrioQueues, f) \in Int
  BY <1>7, TotalInt
<1>9. QED
  BY <1>6, <1>8 DEF f1, more

\* The sum of the lengths of the priority queues is zero just when they are empty.
LEMMA PrioSumFacts ==
    ASSUME PortTypeOK, PortAccounting, NEW sum, sum = TotalOver(PrioQueues, len_bytes)
    PROVE  /\ sum \in Nat
           /\ sum > 0 => BusyPrioQueues # {}
           /\ ~ (sum > 0) => \A c \in PrioQueues : fifo[c] = <<>>
<1>1. PrioQueues \subseteq Queues
  BY PrioAssumption, BufferAssumption DEF PrioQueues, Queues
<1>2. \A c \in PrioQueues : /\ len_bytes[c] \in Nat
                            /\ fifo[c] = <<>> => len_bytes[c] = 0
                            /\ fifo[c] # <<>> => len_bytes[c] > 0
  <2>1. TAKE c \in PrioQueues
  <2>2. c \in Queues /\ fifo[c] \in Seq(Packets) /\ len_bytes[c] = WireBytes(fifo[c])
    BY <1>1 DEF PortTypeOK, PortAccounting, Counted
  <2>3. QED
    BY <2>2, BytesType
<1>3. sum \in Nat /\ \A c \in PrioQueues : len_bytes[c] <= sum
  <2>1. \A q \in Queues : q \in PrioQueues => len_bytes[q] \in Nat
    BY <1>2
  <2>2. QED
    BY <1>1, <2>1, TotalOverType
<1>4. ASSUME BusyPrioQueues = {} PROVE sum = 0
  <2>1. \A c \in Queues : c \in PrioQueues => len_bytes[c] = 0
    BY <1>2, <1>4 DEF BusyPrioQueues
  <2>2. QED
    BY <2>1, TotalOverZero
<1>5. ASSUME ~ (sum > 0), NEW c \in PrioQueues PROVE fifo[c] = <<>>
  BY <1>2, <1>3, <1>5
<1>6. QED
  BY <1>3, <1>4, <1>5
=============================================================================
