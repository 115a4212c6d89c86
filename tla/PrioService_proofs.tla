------------------------- MODULE PrioService_proofs -------------------------
(***************************************************************************)
(* sch_prio for any number of queues, any packets and any changes of its   *)
(* rate: its counters are exact, it keeps the rate in use, and it          *)
(* implements a port of FIFOs in strict priority (PriorityFifos).          *)
(***************************************************************************)
EXTENDS PrioService, PrioPortLemmas

LEMMA AllPrio == PrioQueues = Queues
  BY AllPrioAssumption DEF PrioQueues, Queues

\* The inductive invariant of the qdisc: the types of the port and its counters.
PortInv == PortTypeOK /\ PortAccounting

\* A packet arrives.
LEMMA EnqueueFacts ==
    ASSUME PortInv, NEW dscp \in Dscps, NEW len \in PktLens, Enqueue(dscp, len)
    PROVE  /\ PortInv'
           /\ Classify(dscp) \in Queues
           /\ \/ UNCHANGED fifoVars
              \/ /\ \E pkt : fifo' = [fifo EXCEPT ![Classify(dscp)] = Append(@, pkt)]
                 /\ qlen' = qlen + 1
           /\ UNCHANGED <<now, wire, configVars, bucketVars>>
<1> DEFINE c == Classify(dscp)
<1>1. /\ c \in Queues
      /\ run' = TRUE /\ UNCHANGED <<now, watchdog, wire, configVars, bucketVars>>
  BY ClassifyType DEF Enqueue
<1>2. run' \in BOOLEAN
  BY <1>1, Zenon
<1>3. CASE Drop(c, len)
  <2>1. UNCHANGED fifoVars
    BY <1>3 DEF Drop
  <2>2. PortTypeOK'
    BY <1>1, <1>2, <2>1 DEF PortInv, PortTypeOK, configVars, fifoVars, bucketVars
  <2>3. PortAccounting'
    BY <2>1 DEF PortInv, PortAccounting, fifoVars
  <2>4. QED
    BY <1>1, <2>1, <2>2, <2>3 DEF PortInv
<1>4. CASE Admit(c, len)
  <2>1. StaticMark(c) \in BOOLEAN
    BY DEF StaticMark
  <2>2. Insert(c, len, StaticMark(c))
    BY <1>4 DEF Admit
  <2>3. PICK pkt \in Packets : fifo' = [fifo EXCEPT ![c] = Append(@, pkt)]
    BY <1>1, <2>1, <2>2, InsertFacts DEF PortInv
  <2>4. /\ fifo' \in [Queues -> Seq(Packets)]
        /\ backlog' \in [Queues -> Int] /\ len_bytes' \in [Queues -> Int]
        /\ sum_len_bytes' \in Int /\ qlen' = qlen + 1 /\ qlen' \in Int
        /\ PortAccounting'
    BY <1>1, <2>1, <2>2, InsertFacts DEF PortInv
  <2>5. PortTypeOK'
    BY <1>1, <1>2, <2>4 DEF PortInv, PortTypeOK, configVars, bucketVars
  <2>6. QED
    BY <1>1, <2>3, <2>4, <2>5 DEF PortInv
<1>5. QED
  BY <1>3, <1>4 DEF Enqueue

\* A packet leaves: it is the head of the first queue with packets.
LEMMA TransmitFacts ==
    ASSUME PortInv, BusyPrioQueues # {}, Transmit(PrioHead)
    PROVE  /\ PortInv'
           /\ PrioHead \in Queues /\ fifo[PrioHead] # <<>>
           /\ \A d \in Queues : fifo[d] # <<>> => PrioHead <= d
           /\ fifo' = [fifo EXCEPT ![PrioHead] = Tail(@)]
           /\ qlen' = qlen - 1
           /\ Seen(wire') \in {[queue |-> PrioHead, size |-> WireSize(Head(fifo[PrioHead])),
                                ce |-> ce] : ce \in {Head(fifo[PrioHead]).ce, TRUE}}
<1> DEFINE c == PrioHead
           result == Result(HeadSize(c))
<1>1. c \in Queues /\ fifo[c] # <<>> /\ \A d \in Queues : fifo[d] # <<>> => c <= d
  BY PrioHeadType, AllPrio
<1>2. PortTypeOK /\ PortAccounting
  BY DEF PortInv
<1>3. HeadSize(c) \in Nat
  BY <1>1, <1>2, HeadType
<1>4. result \in Int /\ result >= 0
  BY <1>2, <1>3, ResultType DEF Transmit
<1>5. Leave(c, result)
  BY DEF Transmit
<1> HIDE DEF c, result
<1>6. result \in Nat
  BY <1>4
<1>7. /\ PortTypeOK' /\ PortAccounting'
      /\ fifo' = [fifo EXCEPT ![c] = Tail(@)]
      /\ qlen' = qlen - 1
      /\ Seen(wire') \in {[queue |-> c, size |-> WireSize(Head(fifo[c])), ce |-> ce] :
                              ce \in {Head(fifo[c]).ce, TRUE}}
  BY <1>1, <1>2, <1>5, <1>6, LeaveFacts
<1>8. QED
  BY <1>1, <1>7 DEF PortInv, c

\* A dequeue that sends nothing.
LEMMA NullFacts ==
    ASSUME PortInv,
           DequeueNothing \/ (BusyPrioQueues # {} /\ Throttle(PrioHead))
    PROVE  /\ PortInv'
           /\ wire' = NoPacket /\ UNCHANGED <<now, configVars, fifoVars, bucketVars>>
<1>1. PortTypeOK /\ PortAccounting
  BY DEF PortInv
<1>2. CASE DequeueNothing
  <2>1. ReturnNull
    BY <1>2 DEF DequeueNothing
  <2>2. Arm(0) \/ ReturnNull
    BY <2>1
  <2>3. 0 \in Int /\ 0 <= 0
    OBVIOUS
  <2>4. QED
    BY <1>1, <2>2, <2>3, ArmFacts DEF PortInv
<1>3. CASE BusyPrioQueues # {} /\ Throttle(PrioHead)
  <2> DEFINE result == Result(HeadSize(PrioHead))
  <2>1. PrioHead \in Queues /\ fifo[PrioHead] # <<>>
    BY <1>3, PrioHeadType
  <2>2. HeadSize(PrioHead) \in Nat
    BY <1>1, <2>1, HeadType
  <2>3. result \in Int /\ result < 0
    BY <1>1, <1>3, <2>2, ResultType DEF Throttle
  <2>4. Arm(result) \/ ReturnNull
    BY <1>3 DEF Throttle
  <2> HIDE DEF result
  <2>5. result <= 0
    BY <2>3
  <2>6. QED
    BY <1>1, <2>3, <2>4, <2>5, ArmFacts DEF PortInv
<1>4. QED
  BY <1>2, <1>3

\* Every step, by what it does to the queues and the bucket.
Sends == BusyPrioQueues # {} /\ Transmit(PrioHead)

LEMMA Steps ==
    ASSUME [Next]_vars
    PROVE  \/ \E dscp \in Dscps, len \in PktLens : Enqueue(dscp, len)
           \/ Sends
           \/ DequeueNothing \/ (BusyPrioQueues # {} /\ Throttle(PrioHead))
           \/ Environment
           \/ UNCHANGED vars
  BY DEF Next, Dequeue, Sends

LEMMA PortInvNext == PortInv /\ [Next]_vars => PortInv'
<1> SUFFICES ASSUME PortInv, [Next]_vars PROVE PortInv'
  OBVIOUS
<1>1. CASE \E dscp \in Dscps, len \in PktLens : Enqueue(dscp, len)
  BY <1>1, EnqueueFacts
<1>2. CASE Sends
  BY <1>2, TransmitFacts DEF Sends
<1>3. CASE DequeueNothing \/ (BusyPrioQueues # {} /\ Throttle(PrioHead))
  BY <1>3, NullFacts
<1>4. CASE Environment
  BY <1>4, EnvironmentFacts DEF PortInv
<1>5. CASE UNCHANGED vars
  BY <1>5 DEF vars, portVars, kernelVars, configVars, fifoVars, bucketVars, PortInv,
              PortTypeOK, PortAccounting
<1>6. QED
  BY <1>1, <1>2, <1>3, <1>4, <1>5, Steps

LEMMA PortInvAlways == Spec => []PortInv
<1>1. Init => PortInv
  BY PortInitType DEF Init, PortInv
<1>2. QED
  BY <1>1, PortInvNext, PTL DEF Spec
-----------------------------------------------------------------------------
\* Every variable of sch_prio keeps its type: in particular the tokens stay between 0
\* and the bucket, whatever store of a change of the rate a dequeue sees.
THEOREM TypeCorrect == Spec => []TypeOK
<1>1. PortInv => TypeOK
  BY DEF PortInv, TypeOK
<1>2. QED
  BY <1>1, PortInvAlways, PTL

\* The lengths by which sch_prio drops and marks are those of what is queued.
THEOREM AccountingCorrect == Spec => []PortAccounting
<1>1. PortInv => PortAccounting
  BY DEF PortInv
<1>2. QED
  BY <1>1, PortInvAlways, PTL
-----------------------------------------------------------------------------
\* No step but Throttle leaves packets behind without a run, and it arms the watchdog.
LEMMA ArmedStep == PortInv /\ ThrottledIsArmed /\ [Next]_vars => ThrottledIsArmed'
<1> SUFFICES ASSUME PortInv, ThrottledIsArmed, [Next]_vars PROVE ThrottledIsArmed'
  OBVIOUS
<1>1. CASE \/ \E dscp \in Dscps, len \in PktLens : Enqueue(dscp, len)
           \/ WatchdogFire \/ NetifSchedule
  <2>1. run'
    BY <1>1, Zenon DEF Enqueue, WatchdogFire, NetifSchedule
  <2>2. QED
    BY <2>1 DEF ThrottledIsArmed
<1>2. CASE run /\ BusyPrioQueues # {} /\ Transmit(PrioHead)
  <2>1. run'
    BY <1>2 DEF Transmit, Leave
  <2>2. QED
    BY <2>1 DEF ThrottledIsArmed
<1>3. CASE DequeueNothing
  <2>1. BusyPrioQueues' = {}
    BY <1>3 DEF DequeueNothing, ReturnNull, BusyPrioQueues, fifoVars
  <2>2. QED
    BY <2>1 DEF ThrottledIsArmed
<1>4. CASE BusyPrioQueues # {} /\ Throttle(PrioHead)
  <2> DEFINE result == Result(HeadSize(PrioHead))
  <2>1. PrioHead \in Queues /\ fifo[PrioHead] # <<>>
    BY <1>4, PrioHeadType
  <2>2. HeadSize(PrioHead) \in Nat
    BY <2>1, HeadType DEF PortInv
  <2>3. result \in Int /\ result < 0 /\ watchdog' = now - result /\ now \in Nat
    BY <1>4, <2>2, ResultType, ClockTypes DEF PortInv, Throttle, Arm, WakeTime
  <2> HIDE DEF result
  <2>4. watchdog' # NoTimer
    BY <2>3 DEF NoTimer
  <2>5. QED
    BY <2>4 DEF ThrottledIsArmed
<1>5. CASE \/ \E d \in TickSteps : Tick(d)
           \/ \E s \in EcnSchemes : SetEcnScheme(s)
           \/ \E bps \in ChangeRates : ChangeRate(bps)
           \/ Recompute
           \/ UNCHANGED vars
  <2>1. UNCHANGED <<run, watchdog, fifo>>
    BY <1>5 DEF Tick, SetEcnScheme, ChangeRate, Recompute, vars, portVars, kernelVars, fifoVars
  <2>2. QED
    BY <2>1 DEF ThrottledIsArmed, BusyPrioQueues
<1>6. QED
  BY <1>1, <1>2, <1>3, <1>4, <1>5 DEF Next, Dequeue, Environment

\* The packets of a throttled sch_prio do not wait for another event than its watchdog,
\* whatever store of a change of the rate the dequeue saw.
THEOREM ThrottledArmed == Spec => []ThrottledIsArmed
<1>1. Init => ThrottledIsArmed
  <2>1. SUFFICES ASSUME Init PROVE BusyPrioQueues = {}
    BY DEF ThrottledIsArmed
  <2>2. QED
    BY <2>1, AllPrio DEF Init, PortInit, BusyPrioQueues
<1>2. QED
  BY <1>1, ArmedStep, PortInvAlways, PTL DEF Spec
-----------------------------------------------------------------------------
LEMMA StepRefines == PortInv /\ [Next]_vars => [Port!Next]_(Port!vars)
<1> SUFFICES ASSUME PortInv, [Next]_vars PROVE [Port!Next]_(Port!vars)
  OBVIOUS
<1> DEFINE rank == [c \in Queues |-> c]
<1>0. fifo \in [Queues -> Seq(Packets)]
  BY DEF PortInv, PortTypeOK
<1>1. CASE \E dscp \in Dscps, len \in PktLens : Enqueue(dscp, len)
  <2>1. PICK dscp \in Dscps, len \in PktLens : Enqueue(dscp, len)
    BY <1>1
  <2> DEFINE c == Classify(dscp)
  <2>2. c \in Queues /\ wire' = wire
    BY <2>1, EnqueueFacts
  <2>3. CASE UNCHANGED fifoVars
    BY <2>2, <2>3 DEF fifoVars, Port!vars
  <2>4. CASE \E pkt : fifo' = [fifo EXCEPT ![c] = Append(@, pkt)]
    <3>1. PICK pkt : fifo' = [fifo EXCEPT ![c] = Append(@, pkt)]
      BY <2>4
    <3>2. fifo[c] \in Seq(Packets) /\ fifo'[c] = Append(fifo[c], pkt)
      BY <1>0, <2>2, <3>1
    <3>3. pkt \in Port!Range(fifo'[c])
      <4>1. Len(fifo[c]) + 1 \in DOMAIN fifo'[c] /\ fifo'[c][Len(fifo[c]) + 1] = pkt
        BY <3>2
      <4>2. QED
        BY <4>1 DEF Port!Range
    <3>4. rank = IF c \in Port!Waiting THEN rank ELSE [rank EXCEPT ![c] = rank[c]]
      OBVIOUS
    <3>5. Port!Accept(c)
      BY <2>2, <3>1, <3>3, <3>4 DEF Port!Accept
    <3>6. QED
      BY <2>2, <3>5 DEF Port!Next
  <2>5. QED
    BY <2>1, <2>3, <2>4, EnqueueFacts
<1>2. CASE Sends
  <2>1. /\ PrioHead \in Queues /\ fifo[PrioHead] # <<>>
        /\ \A d \in Queues : fifo[d] # <<>> => PrioHead <= d
        /\ fifo' = [fifo EXCEPT ![PrioHead] = Tail(@)]
        /\ Seen(wire') \in {[queue |-> PrioHead, size |-> WireSize(Head(fifo[PrioHead])),
                             ce |-> ce] : ce \in {Head(fifo[PrioHead]).ce, TRUE}}
    BY <1>2, TransmitFacts DEF Sends
  <2>2. PrioHead \in Port!Waiting
    BY <2>1 DEF Port!Waiting
  <2>3. \A d \in Port!Waiting : rank[PrioHead] <= rank[d]
    BY <2>1 DEF Port!Waiting
  <2>4. \E ce \in {Head(fifo[PrioHead]).ce, TRUE} :
            Seen(wire') = [queue |-> PrioHead, size |-> WireSize(Head(fifo[PrioHead])),
                           ce |-> ce]
    BY <2>1
  <2>5. Port!Send(PrioHead)
    BY <2>1, <2>2, <2>3, <2>4 DEF Port!Send, Seen
  <2>6. QED
    BY <2>1, <2>5 DEF Port!Next
<1>3. CASE DequeueNothing \/ (BusyPrioQueues # {} /\ Throttle(PrioHead))
  <2>1. wire' = NoPacket /\ fifo' = fifo
    BY <1>3, NullFacts DEF fifoVars
  <2>2. Port!Rest
    BY <2>1 DEF Port!Rest
  <2>3. QED
    BY <2>2 DEF Port!Next
<1>4. CASE Environment
  <2>1. wire' = wire /\ fifo' = fifo
    BY <1>4, EnvironmentFacts DEF fifoVars, PortInv
  <2>2. QED
    BY <2>1 DEF Port!vars
<1>5. CASE UNCHANGED vars
  BY <1>5 DEF vars, portVars, kernelVars, fifoVars, Port!vars
<1>6. QED
  BY <1>1, <1>2, <1>3, <1>4, <1>5, Steps

\* sch_prio is a port of FIFOs in strict priority: it loses, reorders and unmarks no
\* packet it accepted, and sends from the first queue with packets, also while its rate
\* is replaced.
THEOREM PortImplemented == Spec => ImplementsPort
<1>1. Init => Port!Init
  <2>1. SUFFICES ASSUME Init PROVE Port!Init
    OBVIOUS
  <2>2. fifo = [c \in Queues |-> <<>>] /\ wire = NoPacket
    BY <2>1 DEF Init, PortInit
  <2>3. [c \in Queues |-> c] \in [Queues -> Int]
    BY BufferAssumption DEF Queues
  <2>4. QED
    BY <2>2, <2>3 DEF Port!Init
<1>2. QED
  BY <1>1, StepRefines, PortInvAlways, PTL DEF Spec, ImplementsPort, Port!Spec
-----------------------------------------------------------------------------
\* What has been sent in excess of the rate and what may still be sent in excess of it
\* never add up to more than two buckets: one banked in tokens, and one that the time
\* since the last departure adds to them.
ShapingInv ==
    /\ PortInv
    /\ time_ns <= now
    /\ debt \in Nat /\ debt + tokens <= 2 * BucketNs

\* Sending a packet moves its transmission time, at the rate in use, from the tokens
\* to the debt.
LEMMA SendExcess ==
    ASSUME ShapingInv, Sends, Meter
    PROVE  time_ns' <= now' /\ debt' \in Nat /\ debt' + tokens' <= 2 * BucketNs
<1> DEFINE size    == HeadSize(PrioHead)
           elapsed == now - time_ns
           cost    == L2T(size)
           result  == Result(size)
<1>1. PortTypeOK /\ PrioHead \in Queues /\ fifo[PrioHead] # <<>>
  BY TransmitFacts DEF ShapingInv, PortInv, Sends
<1>2. size \in Nat
  BY <1>1, HeadType
<1>3. /\ cost \in Nat /\ result \in Int
      /\ result = Lesser(elapsed, BucketNs) + tokens - cost
  BY <1>1, <1>2, ResultType
<1>4. /\ result >= 0
      /\ time_ns' = now /\ now' = now /\ qlen' = qlen - 1
      /\ tokens' = Lesser(result, BucketNs)
      /\ wire'.size = size
      /\ rate' = rate
  BY DEF Sends, Transmit, Leave, Bucket, configVars
<1>5. L2T(wire'.size) = cost
  BY <1>4
<1>6. /\ now \in Nat /\ time_ns \in Nat /\ tokens \in Nat /\ BucketNs \in Nat /\ qlen \in Int
      /\ tokens <= BucketNs
      /\ time_ns <= now /\ debt \in Nat /\ debt + tokens <= 2 * BucketNs
  <2>1. now \in Nat /\ time_ns \in Nat /\ tokens \in 0 .. BucketNs /\ BucketNs \in Nat
    BY <1>1, ClockTypes, PrioAssumption
  <2>2. qlen \in Int
    BY <1>1 DEF PortTypeOK
  <2>3. QED
    BY <2>1, <2>2 DEF ShapingInv
<1>7. elapsed \in Nat /\ time_ns' - time_ns = elapsed
  BY <1>4, <1>6
<1>8. debt' = Greater(debt - elapsed, 0) + cost
  BY <1>4, <1>5, <1>6, <1>7 DEF Meter
<1> HIDE DEF size, elapsed, cost, result
<1>9. debt' \in Nat
  BY <1>3, <1>6, <1>7, <1>8 DEF Greater
<1>10. debt' + tokens' <= 2 * BucketNs
  <2>1. tokens' <= result /\ tokens' \in Int
    BY <1>3, <1>4, <1>6 DEF Lesser
  <2>2. Greater(debt - elapsed, 0) + Lesser(elapsed, BucketNs) + tokens <= 2 * BucketNs
    BY <1>6, <1>7 DEF Greater, Lesser
  <2>3. Greater(debt - elapsed, 0) \in Int /\ Lesser(elapsed, BucketNs) \in Int
    BY <1>6, <1>7 DEF Greater, Lesser
  <2>4. QED
    BY <1>3, <1>6, <1>8, <2>1, <2>2, <2>3
<1>11. QED
  BY <1>4, <1>6, <1>9, <1>10

\* Every other step leaves the bucket and the departures alone.
LEMMA OthersExcess ==
    ASSUME ShapingInv, [Next]_vars, ~ Sends, [Meter]_debt
    PROVE  time_ns' <= now' /\ debt' \in Nat /\ debt' + tokens' <= 2 * BucketNs
<1>1. PortInv /\ now \in Nat /\ time_ns \in Nat /\ qlen \in Int
  BY DEF ShapingInv, PortInv, PortTypeOK
<1>2. /\ qlen' \in {qlen, qlen + 1} /\ UNCHANGED bucketVars
      /\ now' \in Nat /\ now <= now'
  <2>1. CASE \E dscp \in Dscps, len \in PktLens : Enqueue(dscp, len)
    BY <1>1, <2>1, EnqueueFacts DEF fifoVars
  <2>2. CASE DequeueNothing \/ (BusyPrioQueues # {} /\ Throttle(PrioHead))
    BY <1>1, <2>2, NullFacts DEF fifoVars
  <2>3. CASE Environment
    <3>1. PortTypeOK /\ PortAccounting
      BY <1>1 DEF PortInv
    <3>2. PortTypeOK' /\ UNCHANGED <<fifoVars, bucketVars>> /\ now <= now'
      BY <2>3, <3>1, EnvironmentFacts
    <3>3. QED
      BY <3>2 DEF fifoVars, PortTypeOK
  <2>4. CASE UNCHANGED vars
    BY <1>1, <2>4 DEF vars, portVars, kernelVars, fifoVars
  <2>5. QED
    BY <2>1, <2>2, <2>3, <2>4, Steps
<1>3. debt' = debt
  BY <1>1, <1>2 DEF Meter
<1>4. QED
  BY <1>1, <1>2, <1>3 DEF ShapingInv, bucketVars

LEMMA ShapingInvAlways == ServiceSpec => []ShapingInv
<1>1. ServiceInit => ShapingInv
  <2>1. SUFFICES ASSUME ServiceInit PROVE ShapingInv
    OBVIOUS
  <2>2. PortInv
    BY <2>1, PortInitType DEF ServiceInit, Init, PortInv
  <2>3. time_ns = now /\ now = 1 /\ tokens = 0 /\ debt = 0 /\ BucketNs \in Nat
    BY <2>1, PrioAssumption DEF ServiceInit, Init, PortInit
  <2>4. QED
    BY <2>2, <2>3 DEF ShapingInv
<1>2. ShapingInv /\ [ServiceNext]_<<vars, debt>> => ShapingInv'
  <2>1. SUFFICES ASSUME ShapingInv, [ServiceNext]_<<vars, debt>> PROVE ShapingInv'
    OBVIOUS
  <2>2. [Next]_vars /\ [Meter]_debt
    BY <2>1 DEF ServiceNext
  <2>3. PortInv'
    BY <2>1, <2>2, PortInvNext DEF ShapingInv
  <2>4. CASE Sends /\ Meter
    BY <2>1, <2>3, <2>4, SendExcess DEF ShapingInv
  <2>5. CASE ~ Sends
    BY <2>1, <2>2, <2>3, <2>5, OthersExcess DEF ShapingInv
  <2>6. CASE UNCHANGED <<vars, debt>>
    <3>1. ~ Sends
      <4>1. SUFFICES ASSUME Sends PROVE FALSE
        OBVIOUS
      <4>2. qlen' = qlen - 1 /\ qlen' = qlen /\ qlen \in Int
        BY <2>1, <2>6, <4>1 DEF Sends, Transmit, Leave, vars, portVars, fifoVars, ShapingInv,
                                PortInv, PortTypeOK
      <4>3. QED
        BY <4>2
    <3>2. QED
      BY <2>5, <3>1
  <2>7. QED
    BY <2>1, <2>4, <2>5, <2>6 DEF ServiceNext
<1>3. QED
  BY <1>1, <1>2, PTL DEF ServiceSpec

\* Over any interval the packets sent by sch_prio take no longer than the length of the
\* interval and twice the bucket, each at the rate in use when it was sent.
THEOREM RateConforms == ServiceSpec => []RateConformance
<1>1. ShapingInv => RateConformance
  <2>1. SUFFICES ASSUME ShapingInv PROVE RateConformance
    OBVIOUS
  <2>2. tokens \in Nat /\ debt \in Nat /\ debt + tokens <= 2 * BucketNs
    BY <2>1, ClockTypes DEF ShapingInv, PortInv
  <2>3. QED
    BY <2>2, PrioAssumption DEF RateConformance
<1>2. QED
  BY <1>1, ShapingInvAlways, PTL
=============================================================================
