------------------------- MODULE DwrrService_proofs -------------------------
(***************************************************************************)
(* Proofs about sch_dwrr, for any number of classes and priorities, any    *)
(* packet sizes and any parameters that satisfy the named assumptions:     *)
(* first the qdisc itself (DwrrQdisc), then what it does for the senders   *)
(* and the link (DwrrService): it implements a port of FIFOs in strict     *)
(* priority (PriorityFifos), it keeps the configured rate, and it marks by *)
(* sojourn time only packets that waited; last, the CoDel marks of a class *)
(* whose clock wraps (CodelSession).                                       *)
(***************************************************************************)
EXTENDS DwrrService, CodelSession, PortLemmas

\* A dequeue in progress serves a priority that has classes to serve, and no more
\* urgent one has: nothing is enqueued while it holds the lock.
InProgress ==
    deq # NoDequeue =>
        /\ deq.prio \in Prios /\ active[deq.prio] # <<>>
        /\ \A p \in Prios : p < deq.prio => active[p] = <<>>

\* The inductive invariant: the active lists are exact only as long as the head
\* a dequeue takes exists, and the head's packet exists only if they are exact.
IInv == TypeOK /\ ActiveListsExact /\ InProgress
-----------------------------------------------------------------------------
\* A transmission time is a natural number of ns (l2t_ns), and so is the bucket.
LEMMA L2TType == \A bytes \in Nat : L2T(bytes) \in Nat
BY LengthToTimeType, PortAssumption DEF L2T

LEMMA BucketNsType == BucketNs \in Nat
BY L2TType, PortAssumption DEF BucketNs

\* The tokens left after a packet are an integer (tbf_schedule).
LEMMA TbfScheduleType ==
    ASSUME NEW size \in Nat, NEW t \in Int, NEW checkpoint \in Int, NEW time \in Int
    PROVE  TbfSchedule(size, t, checkpoint, time) \in Int
BY L2TType, BucketNsType DEF TbfSchedule, Lesser

\* The moving average of two integers is an integer (ewma_round).
LEMMA EwmaRoundType ==
    \A smooth, sample \in Int : EwmaRound(smooth, sample) \in Int
<1>1. \A k \in Int : k \div AlphaUnit \in Int
  BY RoundAssumption
<1>2. SUFFICES ASSUME NEW smooth \in Int, NEW sample \in Int
               PROVE  smooth * RoundAlpha + sample * (AlphaUnit - RoundAlpha) \in Int
  BY <1>1 DEF EwmaRound, S64Ewma
<1>3. RoundAlpha \in Int /\ AlphaUnit - RoundAlpha \in Int
  BY RoundAssumption
<1>4. smooth * RoundAlpha \in Int /\ sample * (AlphaUnit - RoundAlpha) \in Int
  BY <1>3
<1>5. QED
  BY <1>4
-----------------------------------------------------------------------------
\* The recursion of Decay has a solution, of integers: by induction on its length.
IsDecay(f, rt, n) ==
    f = [i \in 0 .. n |-> IF i = 0 THEN rt ELSE EwmaRound(f[i - 1], 0)]

LEMMA DecayExists ==
    ASSUME NEW rt \in Int
    PROVE  \A n \in Nat : \E f \in [0 .. n -> Int] : IsDecay(f, rt, n)
<1> DEFINE Bad == {n \in Nat : ~ \E f \in [0 .. n -> Int] : IsDecay(f, rt, n)}
<1>1. SUFFICES ASSUME Bad # {} PROVE FALSE
  OBVIOUS
<1>2. PICK m \in Bad : \A n \in Bad : m <= n
  BY <1>1, LeastNatural
<1>3. m # 0
  <2>1. SUFFICES ASSUME m = 0 PROVE FALSE
    OBVIOUS
  <2>2. [i \in 0 .. 0 |-> rt] \in [0 .. 0 -> Int]
    OBVIOUS
  <2>3. IsDecay([i \in 0 .. 0 |-> rt], rt, 0)
    BY DEF IsDecay
  <2>4. QED
    BY <2>1, <2>2, <2>3
<1>4. m \in Nat /\ m - 1 \in Nat /\ m - 1 \notin Bad
  BY <1>2, <1>3
<1>5. PICK f \in [0 .. m - 1 -> Int] : IsDecay(f, rt, m - 1)
  BY <1>4
<1> DEFINE g == [i \in 0 .. m |-> IF i < m THEN f[i] ELSE EwmaRound(f[m - 1], 0)]
<1>6. f[m - 1] \in Int /\ EwmaRound(f[m - 1], 0) \in Int
  BY <1>4, <1>5, EwmaRoundType
<1>7. g \in [0 .. m -> Int]
  BY <1>4, <1>5, <1>6
<1>8. \A i \in 0 .. m : g[i] = IF i = 0 THEN rt ELSE EwmaRound(g[i - 1], 0)
  <2>1. TAKE i \in 0 .. m
  <2>2. CASE i < m
    <3>1. i \in 0 .. m - 1
      BY <2>2, <1>4
    <3>2. f[i] = IF i = 0 THEN rt ELSE EwmaRound(f[i - 1], 0)
      BY <3>1, <1>5, <1>4 DEF IsDecay
    <3>3. i # 0 => g[i - 1] = f[i - 1]
      BY <3>1, <1>4
    <3>4. QED
      BY <2>2, <3>2, <3>3
  <2>3. CASE i = m
    BY <2>3, <1>3, <1>4
  <2>4. QED
    BY <2>2, <2>3, <1>4
<1>9. IsDecay(g, rt, m)
  BY <1>8 DEF IsDecay
<1>10. QED
  BY <1>7, <1>9, <1>2

\* The decay of an integer is a function to integers.
LEMMA DecayType ==
    ASSUME NEW rt \in Int
    PROVE  Decay(rt) \in [0 .. MaxIteration -> Int]
<1> DEFINE d == Decay(rt)
           Bad == {n \in Nat : n \in 0 .. MaxIteration /\ d[n] \notin Int}
<1>1. PICK f \in [0 .. MaxIteration -> Int] : IsDecay(f, rt, MaxIteration)
  BY DecayExists, RoundAssumption
<1>2. d = CHOOSE e : IsDecay(e, rt, MaxIteration)
  BY DEF Decay, IsDecay
<1>3. IsDecay(d, rt, MaxIteration)
  BY <1>1, <1>2
<1> HIDE DEF d
<1>4. \A i \in 0 .. MaxIteration :
        d[i] = IF i = 0 THEN rt ELSE EwmaRound(d[i - 1], 0)
  BY <1>3 DEF IsDecay
<1>5. Bad = {}
  <2>1. SUFFICES ASSUME Bad # {} PROVE FALSE
    OBVIOUS
  <2>2. PICK m \in Bad : \A n \in Bad : m <= n
    BY <2>1, LeastNatural
  <2>3. m \in Nat /\ m \in 0 .. MaxIteration /\ d[m] \notin Int
    BY <2>2
  <2>4. m # 0
    BY <2>3, <1>4
  <2>5. m - 1 \in 0 .. MaxIteration /\ m - 1 \in Nat /\ m - 1 \notin Bad
    BY <2>2, <2>3, <2>4, RoundAssumption
  <2>6. d[m - 1] \in Int
    BY <2>5
  <2>7. d[m] = EwmaRound(d[m - 1], 0)
    BY <2>3, <2>4, <1>4
  <2>8. EwmaRound(d[m - 1], 0) \in Int
    <3>1. 0 \in Int
      OBVIOUS
    <3>2. QED
      BY <2>6, <3>1, EwmaRoundType, Zenon
  <2>9. QED
    BY <2>3, <2>7, <2>8
<1>6. DOMAIN d = 0 .. MaxIteration /\ d = [i \in DOMAIN d |-> d[i]]
  BY <1>3 DEF IsDecay
<1>7. \A i \in 0 .. MaxIteration : d[i] \in Int
  BY <1>5, RoundAssumption
<1>8. d \in [0 .. MaxIteration -> Int]
  BY <1>6, <1>7
<1>9. QED
  BY <1>8 DEF d

\* The round time after an idle period is an integer (reset_round).
LEMMA ResetRoundType ==
    \A rt, interval \in Int : ResetRound(rt, interval) \in Int
<1>1. TAKE rt, interval \in Int
<1>2. Decay(rt) \in [0 .. MaxIteration -> Int]
  BY DecayType
<1>3. \A iter \in 0 .. MaxIteration : Decay(rt)[iter] \in Int
  BY <1>2
<1>4. QED
  BY <1>3 DEF ResetRound
-----------------------------------------------------------------------------
\* prio_schedule picks a priority with active classes, if there is one, and none
\* is more urgent.
LEMMA PrioScheduleType ==
    ASSUME ActivePrios # {}
    PROVE  /\ PrioSchedule \in Prios /\ active[PrioSchedule] # <<>>
           /\ \A p \in Prios : p < PrioSchedule => active[p] = <<>>
<1>1. ActivePrios \in SUBSET Nat
  BY PortAssumption, BufferAssumption DEF ActivePrios, Prios
<1>2. \E p \in ActivePrios : \A r \in ActivePrios : p <= r
  BY <1>1, LeastNatural
<1>3. PrioSchedule \in ActivePrios /\ \A r \in ActivePrios : PrioSchedule <= r
  BY <1>2 DEF PrioSchedule
<1>4. \A r \in ActivePrios : ~ (r < PrioSchedule)
  BY <1>1, <1>3
<1>5. QED
  BY <1>3, <1>4 DEF ActivePrios

\* What a dequeue in progress looks at: a class with packets, at the head of its
\* active list, and its first packet.
LEMMA HeadFacts ==
    ASSUME IInv, deq # NoDequeue
    PROVE  /\ deq.prio \in Prios /\ deq.now \in Nat
           /\ active[deq.prio] # <<>>
           /\ HeadClass \in Queues /\ HeadClass \in Range(active[deq.prio])
           /\ fifo[HeadClass] # <<>> /\ prio[HeadClass] = deq.prio
           /\ fifo[HeadClass] \in Seq(Packets)
           /\ HeadPacket \in Packets
           /\ HeadPacket.len \in Nat
           /\ HeadSize \in Nat \ {0}
           /\ HeadResult \in Int
<1>1. /\ deq.prio \in Prios /\ deq.now \in Nat /\ active[deq.prio] # <<>>
      /\ active[deq.prio] \in Seq(Queues) /\ IsInjective(active[deq.prio])
  BY DEF IInv, TypeOK, InProgress, ActiveListsExact
<1>2. HeadClass \in Queues /\ HeadClass \in Range(active[deq.prio])
  BY <1>1, TailList DEF HeadClass
<1>3. fifo[HeadClass] # <<>> /\ prio[HeadClass] = deq.prio
  BY <1>1, <1>2 DEF IInv, ActiveListsExact
<1>4. fifo[HeadClass] \in Seq(Packets)
  BY <1>2 DEF IInv, TypeOK
<1>5. HeadPacket \in Packets
  BY <1>3, <1>4, HeadTailProperties DEF HeadPacket
<1>6. HeadPacket.len \in Nat
  BY <1>5, PortAssumption, BufferAssumption DEF Packets
<1>7. HeadSize \in Nat \ {0}
  BY <1>6, SkbSizeType DEF HeadSize
<1>8. tokens \in Int /\ time_ns \in Int /\ deq.now \in Int /\ HeadSize \in Nat
  BY <1>1, <1>7, BucketNsType DEF IInv, TypeOK
<1>9. HeadResult \in Int
  BY <1>8, TbfScheduleType DEF HeadResult
<1>10. QED
  BY <1>1, <1>2, <1>3, <1>4, <1>5, <1>6, <1>7, <1>9
-----------------------------------------------------------------------------
LEMMA InitInv == Init => IInv
<1>1. SUFFICES ASSUME Init PROVE IInv
  OBVIOUS
<1>2. /\ queue_prio \in [Queues -> Prios]
      /\ queue_quantum \in [Queues -> Nat \ {0}]
  BY <1>1, DwrrAssumption, PortAssumption, BufferAssumption DEF Init
<1>3. CodelInit \in CodelState
  BY WidthsPositive DEF CodelInit, CodelState
<1>4. tokens \in 0 .. BucketNs
  BY <1>1, BucketNsType DEF Init
<1>5. 0 \in Prios
  BY PortAssumption, BufferAssumption DEF Prios
<1>6. <<>> \in Seq(Queues) /\ <<>> \in Seq(Packets)
  OBVIOUS
<1>7. TypeOK
  <2>0. run \in BOOLEAN
    BY <1>1, Zenon DEF Init
  <2>1. /\ now \in Nat /\ watchdog = NoTimer /\ wire = NoPacket
        /\ ecn_scheme \in EcnSchemes /\ sum_len_bytes \in Int /\ qlen \in Int
        /\ time_ns \in Nat /\ deq = NoDequeue
    BY <1>1 DEF Init
  <2>2. /\ fifo \in [Queues -> Seq(Packets)]
        /\ codel \in [Queues -> CodelState]
        /\ active \in [Prios -> Seq(Queues)]
        /\ prio \in [Queues -> Prios]
    BY <1>1, <1>3, <1>5, <1>6 DEF Init
  <2>3. /\ backlog \in [Queues -> Int] /\ len_bytes \in [Queues -> Int]
        /\ deficit \in [Queues -> Nat] /\ quantum \in [Queues -> Nat]
        /\ start_time \in [Queues -> Nat] /\ last_pkt_time \in [Queues -> Nat]
    BY <1>1 DEF Init
  <2>4. /\ prio_len_bytes \in [Prios -> Int] /\ round_time \in [Prios -> Int]
        /\ last_idle_time \in [Prios -> Nat]
    BY <1>1 DEF Init
  <2>5. QED
    BY <1>2, <1>4, <2>1, <2>2, <2>3, <2>4, <2>0 DEF TypeOK
<1>8. ActiveListsExact
  <2>1. IsInjective(<<>>) /\ Range(<<>>) = {}
    BY DEF IsInjective, Range
  <2>2. QED
    BY <1>1, <2>1 DEF Init, ActiveListsExact
<1>9. InProgress
  BY <1>1 DEF Init, InProgress
<1>10. QED
  BY <1>7, <1>8, <1>9 DEF IInv

\* A packet is dropped, or joins its class, which joins an active list if empty.
LEMMA EnqueueInv ==
    ASSUME IInv, NEW dscp \in Dscps, NEW len \in PktLens, Enqueue(dscp, len)
    PROVE  IInv'
<1> DEFINE c == Classify(dscp)
           size == SkbSize(len)
<1>1. c \in Queues
  BY ClassifyType
<1>2. len \in Nat /\ size \in Nat
  BY PortAssumption, BufferAssumption, SkbSizeType
<1>3. deq = NoDequeue /\ deq' = deq
  BY DEF Enqueue
<1>4. /\ UNCHANGED <<now, watchdog, wire, sysctlVars, sentVars>>
      /\ run' = TRUE
  BY DEF Enqueue
<1>5. DecayRound(c) /\ (Drop(c, len) \/ Admit(c, len))
  BY DEF Enqueue
<1> HIDE DEF c, size
<1>6. round_time' \in [Prios -> Int]
  <2>1. queue_prio[c] \in Prios
    BY <1>1 DEF IInv, TypeOK
  <2>2. round_time[queue_prio[c]] \in Int /\ now - last_idle_time[queue_prio[c]] \in Int
    BY <2>1 DEF IInv, TypeOK
  <2>3. ResetRound(round_time[queue_prio[c]], now - last_idle_time[queue_prio[c]]) \in Int
    BY <2>2, ResetRoundType
  <2>4. QED
    BY <1>5, <2>1, <2>3 DEF DecayRound, IInv, TypeOK
<1>7. CASE Drop(c, len)
  <2>1. UNCHANGED <<fifoVars, turnVars>>
    BY <1>7 DEF Drop
  <2>2. TypeOK'
    BY <1>4, <1>3, <1>6, <2>1
       DEF IInv, TypeOK, fifoVars, turnVars, sysctlVars, sentVars
  <2>3. QED
    BY <1>3, <2>1, <2>2 DEF IInv, ActiveListsExact, InProgress, fifoVars, turnVars
<1>8. CASE Admit(c, len)
  <2>1. IF fifo[c] = <<>> THEN Activate(c) ELSE UNCHANGED turnVars
    BY <1>8 DEF Admit
  <2>2. /\ backlog' = [backlog EXCEPT ![c] = @ + len]
        /\ qlen' = qlen + 1
        /\ sum_len_bytes' = sum_len_bytes + size
        /\ prio_len_bytes' = [prio_len_bytes EXCEPT ![prio'[c]] = @ + size]
        /\ len_bytes' = [len_bytes EXCEPT ![c] = @ + size]
    BY <1>8 DEF Admit, size
  <2>3. PICK pkt \in Packets : fifo' = [fifo EXCEPT ![c] = Append(@, pkt)]
    <3> DEFINE mark == ~ DequeueEcn /\ QlenMark(c, len_bytes'[c], sum_len_bytes',
                                         quantum'[c], round_time'[prio'[c]])
               pkt == [len    |-> len,
                       tstamp |-> IF Sojourn THEN now ELSE 0,
                       ce     |-> mark]
    <3>1. fifo' = [fifo EXCEPT ![c] = Append(@, pkt)]
      BY <1>8 DEF Admit
    <3>2. mark \in BOOLEAN /\ now \in Nat
      BY DEF IInv, TypeOK
    <3> HIDE DEF mark
    <3>3. pkt \in Packets
      BY <3>2 DEF Packets
    <3>4. QED
      BY <3>1, <3>3
  <2>4. /\ fifo' \in [Queues -> Seq(Packets)] /\ fifo'[c] # <<>>
        /\ \A d \in Queues \ {c} : fifo'[d] = fifo[d]
    <3>1. fifo[c] \in Seq(Packets) /\ fifo \in [Queues -> Seq(Packets)]
      BY <1>1 DEF IInv, TypeOK
    <3>2. Append(fifo[c], pkt) \in Seq(Packets) /\ Append(fifo[c], pkt) # <<>>
      BY <3>1, AppendProperties
    <3>3. QED
      BY <1>1, <2>3, <3>1, <3>2
  <2>5. /\ prio' \in [Queues -> Prios] /\ deficit' \in [Queues -> Nat]
        /\ quantum' \in [Queues -> Nat] /\ start_time' \in [Queues -> Nat]
        /\ active' \in [Prios -> Seq(Queues)]
    <3>1. CASE fifo[c] = <<>>
      <4>1. queue_prio[c] \in Prios /\ queue_quantum[c] \in Nat /\ now \in Nat
        BY <1>1 DEF IInv, TypeOK
      <4>2. prio' = [prio EXCEPT ![c] = queue_prio[c]] /\ prio'[c] = queue_prio[c]
        BY <1>1, <2>1, <3>1 DEF Activate, IInv, TypeOK
      <4>3. quantum' = [quantum EXCEPT ![c] = queue_quantum[c]]
            /\ quantum'[c] = queue_quantum[c]
        BY <1>1, <2>1, <3>1 DEF Activate, IInv, TypeOK
      <4>4. active[queue_prio[c]] \in Seq(Queues)
        BY <4>1 DEF IInv, TypeOK
      <4>5. Append(active[queue_prio[c]], c) \in Seq(Queues)
        BY <1>1, <4>4, AppendList
      <4>6. prio' \in [Queues -> Prios] /\ quantum' \in [Queues -> Nat]
        BY <4>1, <4>2, <4>3 DEF IInv, TypeOK
      <4>7. deficit' = [deficit EXCEPT ![c] = queue_quantum[c]]
        BY <2>1, <3>1, <4>3 DEF Activate
      <4>8. start_time' = [start_time EXCEPT ![c] = now]
        BY <2>1, <3>1 DEF Activate
      <4>9. deficit' \in [Queues -> Nat] /\ start_time' \in [Queues -> Nat]
        BY <4>1, <4>7, <4>8 DEF IInv, TypeOK
      <4>10. active' = [active EXCEPT ![queue_prio[c]] = Append(@, c)]
        BY <2>1, <3>1, <4>2 DEF Activate
      <4>11. active' \in [Prios -> Seq(Queues)]
        BY <4>1, <4>5, <4>10 DEF IInv, TypeOK
      <4>12. QED
        BY <4>6, <4>9, <4>11
    <3>2. CASE fifo[c] # <<>>
      BY <2>1, <3>2 DEF turnVars, IInv, TypeOK
    <3>3. QED
      BY <3>1, <3>2
  <2>6. prio'[c] \in Prios
    BY <1>1, <2>5
  <2>7. TypeOK'
    <3>1. /\ backlog' \in [Queues -> Int] /\ len_bytes' \in [Queues -> Int]
          /\ prio_len_bytes' \in [Prios -> Int]
          /\ sum_len_bytes' \in Int /\ qlen' \in Int
      <4>1. backlog[c] + len \in Int /\ len_bytes[c] + size \in Int
        BY <1>1, <1>2 DEF IInv, TypeOK
      <4>2. prio_len_bytes[prio'[c]] + size \in Int
        BY <1>2, <2>6 DEF IInv, TypeOK
      <4>3. sum_len_bytes' \in Int /\ qlen' \in Int
        BY <1>2, <2>2 DEF IInv, TypeOK
      <4>4. QED
        BY <1>1, <2>2, <2>6, <4>1, <4>2, <4>3 DEF IInv, TypeOK
    <3>2. run' \in BOOLEAN
      BY <1>4, Zenon
    <3>3. QED
      BY <1>3, <1>4, <1>6, <2>4, <2>5, <3>1, <3>2
         DEF IInv, TypeOK, sysctlVars, sentVars
  <2>8. ActiveListsExact'
    <3>1. CASE fifo[c] = <<>>
      <4>1. /\ queue_prio[c] \in Prios
            /\ prio' = [prio EXCEPT ![c] = queue_prio[c]]
            /\ active' = [active EXCEPT ![queue_prio[c]] = Append(@, c)]
        BY <1>1, <2>1, <3>1 DEF Activate, IInv, TypeOK
      <4>2. SUFFICES ASSUME NEW p \in Prios
                     PROVE  /\ IsInjective(active'[p])
                            /\ Range(active'[p]) =
                                 {d \in Queues : fifo'[d] # <<>> /\ prio'[d] = p}
        BY DEF ActiveListsExact
      <4>3. /\ active[p] \in Seq(Queues) /\ IsInjective(active[p])
            /\ Range(active[p]) = {d \in Queues : fifo[d] # <<>> /\ prio[d] = p}
        BY DEF IInv, TypeOK, ActiveListsExact
      <4>4. c \notin Range(active[p])
        BY <3>1, <4>3
      <4>5. \A d \in Queues \ {c} : prio'[d] = prio[d]
        BY <4>1 DEF IInv, TypeOK
      <4>6. prio'[c] = queue_prio[c]
        BY <1>1, <4>1 DEF IInv, TypeOK
      <4>7. CASE p = queue_prio[c]
        <5>1. active'[p] = Append(active[p], c)
          BY <4>1, <4>7 DEF IInv, TypeOK
        <5>2. IsInjective(active'[p]) /\ Range(active'[p]) = Range(active[p]) \cup {c}
          BY <1>1, <4>3, <4>4, <5>1, AppendList
        <5>3. QED
          BY <1>1, <2>4, <4>3, <4>5, <4>6, <4>7, <5>2
      <4>8. CASE p # queue_prio[c]
        <5>1. active'[p] = active[p]
          BY <4>1, <4>8 DEF IInv, TypeOK
        <5>2. QED
          BY <1>1, <2>4, <4>3, <4>4, <4>5, <4>6, <4>8, <5>1
      <4>9. QED
        BY <4>7, <4>8
    <3>2. CASE fifo[c] # <<>>
      <4>1. active' = active /\ prio' = prio
        BY <2>1, <3>2 DEF turnVars
      <4>2. \A d \in Queues : fifo'[d] # <<>> <=> fifo[d] # <<>>
        BY <2>4, <3>2
      <4>3. QED
        BY <4>1, <4>2 DEF IInv, ActiveListsExact
    <3>3. QED
      BY <3>1, <3>2
  <2>9. QED
    BY <1>3, <2>7, <2>8 DEF IInv, InProgress
<1>9. QED
  BY <1>5, <1>7, <1>8

\* Not enough tokens: only the watchdog, the run and the dequeue change.
LEMMA ThrottleInv == ASSUME IInv, Throttle PROVE IInv'
<1>1. deq # NoDequeue /\ HeadResult < 0
  BY DEF Throttle, InTurn
<1>2. deq.now \in Nat /\ HeadResult \in Int
  BY <1>1, HeadFacts
<1>3. watchdog' \in Nat
  BY <1>1, <1>2 DEF Throttle, WakeTime
<1>4. /\ run' = FALSE /\ deq' = NoDequeue
      /\ UNCHANGED <<now, wire, sysctlVars, fifoVars, turnVars, sentVars, round_time>>
  BY DEF Throttle
<1>5. run' \in BOOLEAN
  BY <1>4, Zenon
<1>6. TypeOK'
  BY <1>3, <1>4, <1>5 DEF IInv, TypeOK, sysctlVars, fifoVars, turnVars, sentVars
<1>7. QED
  BY <1>4, <1>6
     DEF IInv, ActiveListsExact, InProgress, fifoVars, turnVars

\* A packet is sent; its class leaves the active list with its last packet.
LEMMA TransmitInv == ASSUME IInv, Transmit PROVE IInv'
<1> DEFINE c     == HeadClass
           p     == deq.prio
           size  == HeadSize
           left  == len_bytes[c] - size
           empty == LastPacket(c)
<1>1. deq # NoDequeue /\ size <= deficit[c] /\ HeadResult >= 0
  BY DEF Transmit, InTurn
<1>2. /\ p \in Prios /\ deq.now \in Nat /\ active[p] # <<>>
      /\ c \in Queues /\ fifo[c] # <<>> /\ fifo[c] \in Seq(Packets) /\ prio[c] = p
      /\ HeadPacket \in Packets /\ HeadPacket.len \in Nat
      /\ size \in Nat \ {0} /\ HeadResult \in Int
  BY <1>1, HeadFacts
<1>3. /\ fifo' = [fifo EXCEPT ![c] = Tail(@)]
      /\ active' = IF empty THEN [active EXCEPT ![p] = Tail(@)] ELSE active
      /\ deq' = NoDequeue
      /\ UNCHANGED <<now, run, watchdog, sysctlVars, prio, quantum, start_time>>
  BY DEF Transmit
<1>4. /\ backlog' = [backlog EXCEPT ![c] = @ - HeadPacket.len]
      /\ prio_len_bytes' = [prio_len_bytes EXCEPT ![p] = @ - size]
      /\ sum_len_bytes' = sum_len_bytes - size
      /\ qlen' = qlen - 1
      /\ len_bytes' = [len_bytes EXCEPT ![c] = left]
      /\ deficit' = [deficit EXCEPT ![c] = @ - size]
      /\ last_pkt_time' = [last_pkt_time EXCEPT ![c] = deq.now + L2T(size)]
  BY DEF Transmit
<1>5. /\ last_idle_time' = IF prio_len_bytes'[p] = 0
                           THEN [last_idle_time EXCEPT ![p] = deq.now]
                           ELSE last_idle_time
      /\ round_time' = IF empty
                       THEN [round_time EXCEPT ![p] =
                                 EwmaRound(@, last_pkt_time'[c] - start_time[c])]
                       ELSE round_time
      /\ time_ns' = deq.now
      /\ tokens' = Lesser(HeadResult, BucketNs)
      /\ codel' = IF ecn_scheme = "codel"
                  THEN [codel EXCEPT ![c] =
                            CodelMark(@, HeadPacket.tstamp, left, now).class]
                  ELSE codel
  BY DEF Transmit
<1>6. wire' \in [queue : Queues, prio : Prios, size : Nat, at : Nat, ce : BOOLEAN]
  <2> DEFINE ce == HeadPacket.ce \/ DequeueMark(c, HeadPacket, left)
  <2>1. wire' = [queue |-> c, prio |-> p, size |-> size, at |-> deq.now, ce |-> ce]
    BY DEF Transmit
  <2>2. ce \in BOOLEAN
    OBVIOUS
  <2> HIDE DEF ce
  <2>3. QED
    BY <1>2, <2>1, <2>2
<1> HIDE DEF c, p, size, left, empty
<1>7. /\ fifo[c] \in Seq(Packets) /\ Tail(fifo[c]) \in Seq(Packets)
      /\ empty <=> Tail(fifo[c]) = <<>>
  <2>1. Tail(fifo[c]) \in Seq(Packets) /\ Len(Tail(fifo[c])) = Len(fifo[c]) - 1
    BY <1>2, HeadTailProperties
  <2>2. Len(fifo[c]) \in Nat
    BY <1>2, LenProperties
  <2>3. Tail(fifo[c]) = <<>> <=> Len(Tail(fifo[c])) = 0
    BY <2>1, EmptySeq
  <2>4. QED
    BY <1>2, <2>1, <2>2, <2>3 DEF empty, LastPacket
<1>8. /\ active[p] \in Seq(Queues) /\ IsInjective(active[p])
      /\ Head(active[p]) = c /\ Tail(active[p]) \in Seq(Queues)
      /\ IsInjective(Tail(active[p]))
      /\ Range(Tail(active[p])) = Range(active[p]) \ {c}
  <2>1. active[p] \in Seq(Queues) /\ IsInjective(active[p])
    BY <1>2 DEF IInv, TypeOK, ActiveListsExact
  <2>2. Head(active[p]) = c
    BY DEF HeadClass, c, p
  <2>3. QED
    BY <1>2, <2>1, <2>2, TailList
<1>9. fifo' \in [Queues -> Seq(Packets)] /\ active' \in [Prios -> Seq(Queues)]
  BY <1>2, <1>3, <1>7, <1>8 DEF IInv, TypeOK
<1>10. /\ backlog' \in [Queues -> Int] /\ len_bytes' \in [Queues -> Int]
       /\ prio_len_bytes' \in [Prios -> Int]
       /\ sum_len_bytes' \in Int /\ qlen' \in Int
       /\ left \in Int
  <2>1. backlog[c] - HeadPacket.len \in Int /\ left \in Int
    <3>1. backlog[c] \in Int /\ len_bytes[c] \in Int
      BY <1>2 DEF IInv, TypeOK
    <3>2. HeadPacket.len \in Int /\ size \in Int
      BY <1>2
    <3>3. QED
      BY <3>1, <3>2 DEF left
  <2>2. prio_len_bytes[p] - size \in Int
    BY <1>2 DEF IInv, TypeOK
  <2>3. sum_len_bytes' \in Int /\ qlen' \in Int
    BY <1>2, <1>4 DEF IInv, TypeOK
  <2>4. QED
    BY <1>2, <1>4, <2>1, <2>2, <2>3 DEF IInv, TypeOK
<1>11. deficit' \in [Queues -> Nat]
  <2>1. deficit[c] - size \in Nat
    <3>1. deficit[c] \in Nat /\ size \in Nat
      BY <1>2 DEF IInv, TypeOK
    <3>2. QED
      BY <1>1, <3>1
  <2>2. QED
    BY <1>2, <1>4, <2>1 DEF IInv, TypeOK
<1>12. last_pkt_time' \in [Queues -> Nat] /\ last_pkt_time'[c] \in Nat
  <2>1. deq.now + L2T(size) \in Nat
    <3>1. L2T(size) \in Nat /\ deq.now \in Nat
      BY <1>2, L2TType
    <3>2. QED
      BY <3>1
  <2>2. QED
    BY <1>2, <1>4, <2>1 DEF IInv, TypeOK
<1>13. round_time' \in [Prios -> Int]
  <2>1. last_pkt_time'[c] - start_time[c] \in Int /\ round_time[p] \in Int
    BY <1>2, <1>12 DEF IInv, TypeOK
  <2>2. EwmaRound(round_time[p], last_pkt_time'[c] - start_time[c]) \in Int
    BY <2>1, EwmaRoundType
  <2>3. QED
    BY <1>2, <1>5, <2>2 DEF IInv, TypeOK
<1>14. last_idle_time' \in [Prios -> Nat] /\ time_ns' \in Nat
  BY <1>2, <1>5 DEF IInv, TypeOK
<1>15. tokens' \in 0 .. BucketNs
  BY <1>1, <1>2, <1>5, BucketNsType DEF Lesser
<1>16. codel' \in [Queues -> CodelState]
  <2>1. codel[c] \in CodelState /\ HeadPacket.tstamp \in Int /\ now \in Int
    BY <1>2 DEF IInv, TypeOK, Packets
  <2>2. CodelMark(codel[c], HeadPacket.tstamp, left, now).class \in CodelState
    BY <1>10, <2>1, CodelMarkType
  <2>3. QED
    BY <1>2, <1>5, <2>2 DEF IInv, TypeOK
<1>17. TypeOK'
  BY <1>3, <1>6, <1>9, <1>10, <1>11, <1>12, <1>13, <1>14, <1>15, <1>16
     DEF IInv, TypeOK, sysctlVars
<1>18. ActiveListsExact'
  <2>1. SUFFICES ASSUME NEW r \in Prios
                 PROVE  /\ IsInjective(active'[r])
                        /\ Range(active'[r]) =
                             {d \in Queues : fifo'[d] # <<>> /\ prio'[d] = r}
    BY DEF ActiveListsExact
  <2>2. /\ IsInjective(active[r])
        /\ Range(active[r]) = {d \in Queues : fifo[d] # <<>> /\ prio[d] = r}
    BY DEF IInv, ActiveListsExact
  <2>3. /\ prio' = prio /\ fifo'[c] = Tail(fifo[c])
        /\ \A d \in Queues \ {c} : fifo'[d] = fifo[d]
    BY <1>2, <1>3 DEF IInv, TypeOK
  <2>4. CASE empty /\ r = p
    <3>1. active'[r] = Tail(active[r])
      BY <1>3, <2>4 DEF IInv, TypeOK
    <3>2. QED
      BY <1>7, <1>8, <2>2, <2>3, <2>4, <3>1
  <2>5. CASE empty /\ r # p
    <3>1. active'[r] = active[r]
      BY <1>3, <2>5 DEF IInv, TypeOK
    <3>2. QED
      BY <1>2, <2>2, <2>3, <2>5, <3>1
  <2>6. CASE ~ empty
    BY <1>2, <1>3, <1>7, <2>2, <2>3, <2>6
  <2>7. QED
    BY <2>4, <2>5, <2>6
<1>19. QED
  BY <1>3, <1>17, <1>18 DEF IInv, InProgress

\* The head goes to the tail of the same list with one more quantum.
LEMMA RotateInv == ASSUME IInv, Rotate PROVE IInv'
<1> DEFINE c == HeadClass
           p == deq.prio
<1>1. deq # NoDequeue
  BY DEF Rotate
<1>2. /\ p \in Prios /\ active[p] # <<>> /\ c \in Queues
      /\ c \in Range(active[p])
  BY <1>1, HeadFacts
<1>3. /\ round_time' = [round_time EXCEPT ![p] =
                            EwmaRound(@, last_pkt_time[c] - start_time[c])]
      /\ start_time' = [start_time EXCEPT ![c] = last_pkt_time[c]]
      /\ quantum' = [quantum EXCEPT ![c] = queue_quantum[c]]
      /\ active' = [active EXCEPT ![p] = Append(Tail(@), c)]
      /\ deficit' = [deficit EXCEPT ![c] =
                         IF EnableWrr THEN quantum'[c] ELSE deficit[c] + quantum'[c]]
      /\ UNCHANGED <<kernelVars, sysctlVars, fifoVars, prio, sentVars, deq>>
  BY DEF Rotate, Refill
<1>4. Head(active[p]) = c
  BY DEF HeadClass
<1> HIDE DEF c, p
<1>5. round_time' \in [Prios -> Int]
  <2>1. last_pkt_time[c] - start_time[c] \in Int /\ round_time[p] \in Int
    BY <1>2 DEF IInv, TypeOK
  <2>2. EwmaRound(round_time[p], last_pkt_time[c] - start_time[c]) \in Int
    BY <2>1, EwmaRoundType
  <2>3. QED
    BY <1>2, <1>3, <2>2 DEF IInv, TypeOK
<1>6. start_time' \in [Queues -> Nat]
  BY <1>2, <1>3 DEF IInv, TypeOK
<1>7. quantum' \in [Queues -> Nat] /\ quantum'[c] \in Nat
  BY <1>2, <1>3 DEF IInv, TypeOK
<1>8. deficit' \in [Queues -> Nat]
  <2>1. deficit[c] \in Nat /\ deficit[c] + quantum'[c] \in Nat
    <3>1. deficit[c] \in Nat
      BY <1>2 DEF IInv, TypeOK
    <3>2. QED
      BY <1>7, <3>1
  <2>2. QED
    BY <1>2, <1>3, <1>7, <2>1 DEF IInv, TypeOK
<1>9. /\ active[p] \in Seq(Queues) /\ IsInjective(active[p])
      /\ Tail(active[p]) \in Seq(Queues) /\ IsInjective(Tail(active[p]))
      /\ Range(Tail(active[p])) = Range(active[p]) \ {c}
  <2>1. active[p] \in Seq(Queues) /\ IsInjective(active[p])
    BY <1>2 DEF IInv, TypeOK, ActiveListsExact
  <2>2. QED
    BY <1>2, <1>4, <2>1, TailList
<1>10. /\ Append(Tail(active[p]), c) \in Seq(Queues)
       /\ Append(Tail(active[p]), c) # <<>>
       /\ IsInjective(Append(Tail(active[p]), c))
       /\ Range(Append(Tail(active[p]), c)) = Range(active[p])
  <2>1. c \notin Range(Tail(active[p]))
    BY <1>9
  <2>2. (Range(active[p]) \ {c}) \cup {c} = Range(active[p])
    BY <1>2
  <2>3. /\ Append(Tail(active[p]), c) \in Seq(Queues)
        /\ Append(Tail(active[p]), c) # <<>>
        /\ IsInjective(Append(Tail(active[p]), c))
        /\ Range(Append(Tail(active[p]), c)) = Range(Tail(active[p])) \cup {c}
    <3> DEFINE t == Tail(active[p])
    <3>1. t \in Seq(Queues) /\ IsInjective(t) /\ c \notin Range(t)
      BY <1>9, <2>1
    <3> HIDE DEF t
    <3>2. /\ Append(t, c) \in Seq(Queues) /\ Append(t, c) # <<>>
          /\ IsInjective(Append(t, c)) /\ Range(Append(t, c)) = Range(t) \cup {c}
      BY <1>2, <3>1, AppendList
    <3>3. QED
      BY <3>2 DEF t
  <2>4. QED
    BY <1>9, <2>2, <2>3
<1>11. active' \in [Prios -> Seq(Queues)] /\ active'[p] = Append(Tail(active[p]), c)
  BY <1>2, <1>3, <1>10 DEF IInv, TypeOK
<1>12. \A r \in Prios \ {p} : active'[r] = active[r]
  BY <1>2, <1>3 DEF IInv, TypeOK
<1>13. TypeOK'
  BY <1>3, <1>5, <1>6, <1>7, <1>8, <1>11
     DEF IInv, TypeOK, kernelVars, sysctlVars, fifoVars, sentVars
<1>14. ActiveListsExact'
  BY <1>3, <1>10, <1>11, <1>12 DEF IInv, ActiveListsExact, fifoVars
<1>15. InProgress'
  <2>1. active'[p] # <<>> /\ deq' = deq
    BY <1>3, <1>10, <1>11
  <2>2. ASSUME NEW r \in Prios, r < p PROVE active'[r] = <<>>
    <3>1. active[r] = <<>>
      BY <1>1, <2>2 DEF IInv, InProgress, p
    <3>2. r # p
      BY <1>2, <3>1
    <3>3. QED
      BY <1>12, <3>1, <3>2
  <2>3. QED
    BY <1>2, <2>1, <2>2 DEF InProgress, p
<1>16. QED
  BY <1>13, <1>14, <1>15 DEF IInv
-----------------------------------------------------------------------------
\* Every step preserves the inductive invariant.
LEMMA NextInv == IInv /\ [Next]_vars => IInv'
<1>1. SUFFICES ASSUME IInv, [Next]_vars PROVE IInv'
  OBVIOUS
<1>2. ASSUME NEW dscp \in Dscps, NEW len \in PktLens, Enqueue(dscp, len) PROVE IInv'
  BY <1>1, <1>2, EnqueueInv
<1>3. CASE DequeueNothing
  <2>1. run' \in BOOLEAN
    <3>1. run' = FALSE
      BY <1>3 DEF DequeueNothing
    <3>2. QED
      BY <3>1, Zenon
  <2>2. TypeOK'
    BY <1>1, <1>3, <2>1
       DEF IInv, TypeOK, DequeueNothing, sysctlVars, fifoVars, turnVars, sentVars
  <2>3. QED
    BY <1>1, <1>3, <2>2
       DEF IInv, ActiveListsExact, InProgress, DequeueNothing, fifoVars, turnVars
<1>4. CASE DequeueStart
  <2>1. /\ deq' = [prio |-> PrioSchedule, now |-> now] /\ wire' = NoPacket
        /\ UNCHANGED <<now, run, watchdog, sysctlVars, fifoVars, turnVars, sentVars,
                       round_time>>
    BY <1>4 DEF DequeueStart
  <2>2. /\ PrioSchedule \in Prios /\ active[PrioSchedule] # <<>>
        /\ \A p \in Prios : p < PrioSchedule => active[p] = <<>>
    BY <1>4, PrioScheduleType DEF DequeueStart
  <2>3. TypeOK'
    BY <1>1, <2>1, <2>2 DEF IInv, TypeOK, sysctlVars, fifoVars, turnVars, sentVars
  <2>4. QED
    BY <1>1, <2>1, <2>2, <2>3
       DEF IInv, ActiveListsExact, InProgress, fifoVars, turnVars
<1>5. CASE DequeueLoop
  BY <1>1, <1>5, ThrottleInv, TransmitInv, RotateInv DEF DequeueLoop
<1>6. CASE WatchdogFire \/ NetifSchedule
  <2>1. run' \in BOOLEAN
    <3>1. run' = TRUE
      BY <1>6 DEF WatchdogFire, NetifSchedule
    <3>2. QED
      BY <3>1, Zenon
  <2>2. watchdog' \in Nat \cup {NoTimer}
    BY <1>1, <1>6 DEF IInv, TypeOK, WatchdogFire, NetifSchedule
  <2>3. /\ UNCHANGED <<now, wire, sysctlVars, fifoVars, turnVars, sentVars>>
        /\ UNCHANGED <<round_time, deq>>
    BY <1>6 DEF WatchdogFire, NetifSchedule
  <2>4. TypeOK'
    BY <1>1, <2>1, <2>2, <2>3
       DEF IInv, TypeOK, sysctlVars, fifoVars, turnVars, sentVars
  <2>5. QED
    BY <1>1, <2>3, <2>4 DEF IInv, ActiveListsExact, InProgress, fifoVars, turnVars
<1>7. ASSUME NEW d \in TickSteps, Tick(d) PROVE IInv'
  <2>1. now' \in Nat
    BY <1>1, <1>7, PortAssumption, BufferAssumption DEF IInv, TypeOK, Tick
  <2>2. /\ UNCHANGED <<run, watchdog, wire, sysctlVars, fifoVars, turnVars, sentVars>>
        /\ UNCHANGED <<round_time, deq>>
    BY <1>7 DEF Tick
  <2>3. TypeOK'
    BY <1>1, <2>1, <2>2 DEF IInv, TypeOK, sysctlVars, fifoVars, turnVars, sentVars
  <2>4. QED
    BY <1>1, <2>2, <2>3 DEF IInv, ActiveListsExact, InProgress, fifoVars, turnVars
<1>8. CASE Sysctl
  <2>1. UNCHANGED <<kernelVars, fifoVars, turnVars, sentVars, round_time, deq>>
    BY <1>8 DEF Sysctl, SetQueuePrio, SetQueueQuantum, SetEcnScheme
  <2>2. /\ queue_prio' \in [Queues -> Prios]
        /\ queue_quantum' \in [Queues -> Nat \ {0}]
        /\ ecn_scheme' \in EcnSchemes
    <3>1. /\ queue_prio \in [Queues -> Prios]
          /\ queue_quantum \in [Queues -> Nat \ {0}]
          /\ ecn_scheme \in EcnSchemes
      BY <1>1 DEF IInv, TypeOK
    <3>2. ASSUME NEW c \in Queues, NEW p \in PrioChoices[c], SetQueuePrio(c, p)
          PROVE  queue_prio' \in [Queues -> Prios]
                 /\ UNCHANGED <<queue_quantum, ecn_scheme>>
      BY <3>1, <3>2, DwrrAssumption DEF SetQueuePrio
    <3>3. ASSUME NEW c \in Queues, NEW qtm \in QuantumChoices[c],
                 SetQueueQuantum(c, qtm)
          PROVE  queue_quantum' \in [Queues -> Nat \ {0}]
                 /\ UNCHANGED <<queue_prio, ecn_scheme>>
      BY <3>1, <3>3, DwrrAssumption DEF SetQueueQuantum
    <3>4. ASSUME NEW s \in EcnSchemes, SetEcnScheme(s)
          PROVE  ecn_scheme' \in EcnSchemes /\ UNCHANGED <<queue_prio, queue_quantum>>
      BY <3>4 DEF SetEcnScheme
    <3>5. QED
      BY <1>8, <3>1, <3>2, <3>3, <3>4 DEF Sysctl
  <2>3. TypeOK'
    BY <1>1, <2>1, <2>2 DEF IInv, TypeOK, kernelVars, fifoVars, turnVars, sentVars
  <2>4. QED
    BY <1>1, <2>1, <2>3 DEF IInv, ActiveListsExact, InProgress, fifoVars, turnVars
<1>9. CASE UNCHANGED vars
  <2>1. /\ UNCHANGED <<kernelVars, sysctlVars, fifoVars, turnVars, sentVars>>
        /\ UNCHANGED <<round_time, deq>>
    BY <1>9 DEF vars
  <2>2. TypeOK'
    BY <1>1, <2>1
       DEF IInv, TypeOK, kernelVars, sysctlVars, fifoVars, turnVars, sentVars
  <2>3. QED
    BY <1>1, <2>1, <2>2 DEF IInv, ActiveListsExact, InProgress, fifoVars, turnVars
<1>10. QED
  BY <1>1, <1>2, <1>3, <1>4, <1>5, <1>6, <1>7, <1>8, <1>9 DEF Next

\* The inductive invariant holds in every reachable state.
LEMMA Inductive == Spec => []IInv
<1>1. Init => IInv
  BY InitInv
<1>2. IInv /\ [Next]_vars => IInv'
  BY NextInv
<1>3. QED
  BY <1>1, <1>2, PTL DEF Spec

\* The types of all variables, with the signs and bounds in them: no deficit and no
\* token count ever goes below zero, and the tokens never exceed the bucket.
THEOREM TypeCorrect == Spec => []TypeOK
<1>1. IInv => TypeOK
  BY DEF IInv
<1>2. QED
  BY <1>1, Inductive, PTL

\* Whatever the sysctl writes and the packets, the active lists hold exactly the
\* classes with packets, once each, on the list of the priority of the class.
THEOREM ActiveListsCorrect == Spec => []ActiveListsExact
<1>1. IInv => ActiveListsExact
  BY DEF IInv
<1>2. QED
  BY <1>1, Inductive, PTL
-----------------------------------------------------------------------------
\* Only Admit and Transmit change what is queued.
LEMMA FifoSteps ==
    ASSUME [Next]_vars
    PROVE  \/ Transmit
           \/ \E dscp \in Dscps, len \in PktLens :
                  Enqueue(dscp, len) /\ Admit(Classify(dscp), len)
           \/ fifo' = fifo
<1>1. CASE \E dscp \in Dscps, len \in PktLens : Enqueue(dscp, len)
  BY <1>1 DEF Enqueue, Drop, fifoVars
<1>2. CASE DequeueNothing \/ DequeueStart \/ Throttle \/ Rotate
  BY <1>2 DEF DequeueNothing, DequeueStart, Throttle, Rotate, fifoVars
<1>3. CASE WatchdogFire \/ NetifSchedule \/ \E d \in TickSteps : Tick(d)
  BY <1>3 DEF WatchdogFire, NetifSchedule, Tick, fifoVars
<1>4. CASE Sysctl
  BY <1>4 DEF Sysctl, SetQueuePrio, SetQueueQuantum, SetEcnScheme, fifoVars
<1>5. CASE UNCHANGED vars
  BY <1>5 DEF vars, fifoVars
<1>6. QED
  BY <1>1, <1>2, <1>3, <1>4, <1>5 DEF Next, DequeueLoop

\* A packet leaves only when a dequeue transmits the head of the class it serves.
LEMMA DepartureIsTransmit ==
    ASSUME IInv, [Next]_vars, NEW c \in Queues, Len(fifo'[c]) < Len(fifo[c])
    PROVE  Transmit /\ c = HeadClass
<1>1. fifo \in [Queues -> Seq(Packets)] /\ Len(fifo[c]) \in Nat
  <2>1. fifo \in [Queues -> Seq(Packets)] /\ fifo[c] \in Seq(Packets)
    BY DEF IInv, TypeOK
  <2>2. QED
    BY <2>1, LenProperties
<1>2. fifo' # fifo
  BY <1>1
<1>3. ASSUME NEW d \in Queues, NEW len \in PktLens, Admit(d, len) PROVE FALSE
  <2>1. PICK pkt : fifo' = [fifo EXCEPT ![d] = Append(@, pkt)]
    BY <1>3 DEF Admit
  <2>2. c = d
    BY <1>1, <2>1
  <2>3. fifo'[c] = Append(fifo[c], pkt)
    BY <1>1, <2>1, <2>2
  <2>4. Len(fifo'[c]) = Len(fifo[c]) + 1
    BY <2>3
  <2>5. QED
    BY <1>1, <2>4
<1>4. Transmit
  BY <1>2, <1>3, FifoSteps, ClassifyType
<1>5. fifo' = [fifo EXCEPT ![HeadClass] = Tail(@)]
  BY <1>4 DEF Transmit
<1>6. c = HeadClass
  BY <1>1, <1>5
<1>7. QED
  BY <1>4, <1>6

\* A packet leaves only when every more urgent priority is empty.
THEOREM StrictPriorityHolds == Spec => StrictPriority
<1>1. IInv /\ [Next]_vars =>
        [\A c \in Queues : Len(fifo'[c]) < Len(fifo[c]) =>
             \A p \in Prios : p < prio[c] => active[p] = <<>>]_vars
  <2>1. SUFFICES ASSUME IInv, [Next]_vars, NEW c \in Queues,
                        Len(fifo'[c]) < Len(fifo[c]),
                        NEW p \in Prios, p < prio[c]
                 PROVE  active[p] = <<>>
    OBVIOUS
  <2>2. Transmit /\ c = HeadClass
    BY <2>1, DepartureIsTransmit
  <2>3. deq # NoDequeue
    BY <2>2 DEF Transmit, InTurn
  <2>4. prio[c] = deq.prio
    BY <2>1, <2>2, <2>3, HeadFacts
  <2>5. QED
    BY <2>1, <2>3, <2>4 DEF IInv, InProgress
<1>2. QED
  BY <1>1, Inductive, PTL DEF Spec, StrictPriority

\* A class never has more than its quantum and less than one packet to its credit,
\* with or without changes of the quantum while it is active, in DWRR and in WRR.
LEMMA DeficitStep ==
    IInv /\ DeficitBound /\ [Next]_vars => DeficitBound'
<1>1. SUFFICES ASSUME IInv, DeficitBound, [Next]_vars, NEW c \in Queues,
                      fifo'[c] # <<>>
               PROVE  \E len \in PktLens : deficit'[c] < quantum'[c] + SkbSize(len)
  BY DEF DeficitBound
<1>2. /\ deficit \in [Queues -> Nat] /\ quantum \in [Queues -> Nat]
      /\ prio \in [Queues -> Prios] /\ queue_quantum \in [Queues -> Nat]
      /\ fifo \in [Queues -> Seq(Packets)]
  BY <1>1 DEF IInv, TypeOK
<1>3. \A len \in PktLens : SkbSize(len) \in Nat \ {0}
  BY SkbSizeType, PortAssumption, BufferAssumption
<1>4. ASSUME fifo[c] # <<>>, deficit'[c] <= deficit[c], quantum'[c] = quantum[c],
             deficit'[c] \in Nat
      PROVE  \E len \in PktLens : deficit'[c] < quantum'[c] + SkbSize(len)
  <2>1. PICK len \in PktLens : deficit[c] < quantum[c] + SkbSize(len)
    BY <1>1, <1>4 DEF DeficitBound
  <2>2. deficit[c] \in Nat /\ quantum[c] \in Nat /\ SkbSize(len) \in Nat
    BY <1>2, <1>3
  <2>3. deficit'[c] < quantum'[c] + SkbSize(len)
    BY <1>4, <2>1, <2>2
  <2>4. QED
    BY <2>3
<1>5. ASSUME fifo' = fifo, UNCHANGED <<deficit, quantum>>
      PROVE  \E len \in PktLens : deficit'[c] < quantum'[c] + SkbSize(len)
  <2>1. deficit'[c] \in Nat /\ deficit[c] \in Nat
    BY <1>2, <1>5
  <2>2. QED
    BY <1>1, <1>4, <1>5, <2>1
<1>6. ASSUME NEW d \in Queues, NEW len \in PktLens, Admit(d, len)
      PROVE  \E l \in PktLens : deficit'[c] < quantum'[c] + SkbSize(l)
  <2>1. PICK pkt : fifo' = [fifo EXCEPT ![d] = Append(@, pkt)]
    BY <1>6 DEF Admit
  <2>2. CASE fifo[d] = <<>>
    <3>1. /\ quantum' = [quantum EXCEPT ![d] = queue_quantum[d]]
          /\ deficit' = [deficit EXCEPT ![d] = quantum'[d]]
      BY <1>6, <2>2 DEF Admit, Activate
    <3>2. CASE c = d
      <4>1. deficit'[c] = quantum'[c] /\ quantum'[c] \in Nat
        BY <1>2, <3>1, <3>2
      <4>2. deficit'[c] < quantum'[c] + SkbSize(len)
        BY <1>3, <4>1
      <4>3. QED
        BY <4>2
    <3>3. CASE c # d
      <4>1. fifo[c] # <<>> /\ deficit'[c] = deficit[c] /\ quantum'[c] = quantum[c]
        BY <1>1, <1>2, <2>1, <3>1, <3>3
      <4>2. deficit[c] \in Nat
        BY <1>2
      <4>3. QED
        BY <1>4, <4>1, <4>2
    <3>4. QED
      BY <3>2, <3>3
  <2>3. CASE fifo[d] # <<>>
    <3>1. deficit' = deficit /\ quantum' = quantum
      BY <1>6, <2>3 DEF Admit, turnVars
    <3>2. fifo[c] # <<>>
      BY <1>1, <1>2, <2>1, <2>3
    <3>3. deficit[c] \in Nat
      BY <1>2
    <3>4. QED
      BY <1>4, <3>1, <3>2, <3>3
  <2>4. QED
    BY <2>2, <2>3
<1>7. CASE Transmit
  <2>1. deq # NoDequeue /\ HeadSize <= deficit[HeadClass]
    BY <1>7 DEF Transmit, InTurn
  <2>2. HeadClass \in Queues /\ fifo[HeadClass] # <<>> /\ HeadSize \in Nat
    BY <1>1, <2>1, HeadFacts
  <2>3. /\ fifo' = [fifo EXCEPT ![HeadClass] = Tail(@)]
        /\ deficit' = [deficit EXCEPT ![HeadClass] = @ - HeadSize]
        /\ quantum' = quantum
    BY <1>7 DEF Transmit
  <2>4. fifo[c] # <<>>
    BY <1>1, <1>2, <2>2, <2>3
  <2>5. deficit'[c] <= deficit[c] /\ deficit'[c] \in Nat
    <3>1. deficit[c] \in Nat
      BY <1>2
    <3>2. deficit'[c] = IF c = HeadClass THEN deficit[c] - HeadSize ELSE deficit[c]
      BY <1>2, <2>2, <2>3
    <3>3. QED
      BY <2>1, <2>2, <3>1, <3>2
  <2>6. QED
    BY <1>4, <2>3, <2>4, <2>5
<1>8. CASE Rotate
  <2>1. deq # NoDequeue /\ ~ (HeadSize <= deficit[HeadClass])
    BY <1>8 DEF Rotate, InTurn
  <2>2. HeadClass \in Queues /\ HeadSize \in Nat /\ HeadPacket \in Packets
    BY <1>1, <2>1, HeadFacts
  <2>3. /\ fifo' = fifo
        /\ quantum' = [quantum EXCEPT ![HeadClass] = queue_quantum[HeadClass]]
        /\ deficit' = [deficit EXCEPT ![HeadClass] =
                           IF EnableWrr THEN quantum'[HeadClass]
                                        ELSE deficit[HeadClass] + quantum'[HeadClass]]
    BY <1>8 DEF Rotate, Refill, fifoVars
  <2>4. CASE c = HeadClass
    <3>1. HeadPacket.len \in PktLens /\ HeadSize = SkbSize(HeadPacket.len)
      BY <2>2 DEF Packets, HeadSize
    <3>2. deficit[c] \in Nat /\ quantum'[c] \in Nat
      BY <1>2, <2>3, <2>4
    <3>3. deficit'[c] = IF EnableWrr THEN quantum'[c] ELSE deficit[c] + quantum'[c]
      BY <1>2, <2>3, <2>4
    <3>4. deficit[c] < HeadSize
      BY <2>1, <2>2, <2>4, <3>2
    <3>5. deficit'[c] < quantum'[c] + HeadSize
      BY <2>2, <3>2, <3>3, <3>4
    <3>6. QED
      BY <3>1, <3>5
  <2>5. CASE c # HeadClass
    <3>1. fifo[c] # <<>> /\ deficit'[c] = deficit[c] /\ quantum'[c] = quantum[c]
      BY <1>1, <1>2, <2>3, <2>5
    <3>2. deficit[c] \in Nat
      BY <1>2
    <3>3. QED
      BY <1>4, <3>1, <3>2
  <2>6. QED
    BY <2>4, <2>5
<1>9. CASE UNCHANGED <<fifo, deficit, quantum>>
  BY <1>5, <1>9
<1>10. QED
  <2>1. ASSUME NEW dscp \in Dscps, NEW len \in PktLens, Enqueue(dscp, len)
        PROVE  UNCHANGED <<fifo, deficit, quantum>> \/ Admit(Classify(dscp), len)
    BY <2>1 DEF Enqueue, Drop, fifoVars, turnVars
  <2>2. CASE \/ DequeueNothing \/ DequeueStart \/ Throttle \/ WatchdogFire
             \/ NetifSchedule \/ \E d \in TickSteps : Tick(d)
    BY <1>9, <2>2 DEF DequeueNothing, DequeueStart, Throttle, WatchdogFire,
                      NetifSchedule, Tick, fifoVars, turnVars
  <2>3. CASE Sysctl
    BY <1>9, <2>3
       DEF Sysctl, SetQueuePrio, SetQueueQuantum, SetEcnScheme, fifoVars, turnVars
  <2>4. CASE UNCHANGED vars
    BY <1>9, <2>4 DEF vars, fifoVars, turnVars
  <2>5. QED
    BY <1>1, <1>6, <1>7, <1>8, <1>9, <2>1, <2>2, <2>3, <2>4, ClassifyType
       DEF Next, DequeueLoop

\* The bound on how far round robin lets a class run ahead of the others.
THEOREM DeficitBounded == Spec => []DeficitBound
<1>1. Init => DeficitBound
  BY DEF Init, DeficitBound
<1>2. QED
  BY <1>1, DeficitStep, Inductive, PTL DEF Spec
-----------------------------------------------------------------------------
\* What Admit does to what is queued and to the counters.
LEMMA AdmitFacts ==
    ASSUME IInv, NEW c \in Queues, NEW len \in PktLens, Admit(c, len)
    PROVE  /\ \E pkt \in Packets : /\ pkt.len = len
                                   /\ pkt.tstamp = IF Sojourn THEN now ELSE 0
                                   /\ fifo' = [fifo EXCEPT ![c] = Append(@, pkt)]
           /\ backlog' = [backlog EXCEPT ![c] = @ + len]
           /\ qlen' = qlen + 1
           /\ sum_len_bytes' = sum_len_bytes + SkbSize(len)
           /\ len_bytes' = [len_bytes EXCEPT ![c] = @ + SkbSize(len)]
           /\ prio' \in [Queues -> Prios]
           /\ prio_len_bytes' = [prio_len_bytes EXCEPT ![prio'[c]] = @ + SkbSize(len)]
           /\ \A d \in Queues : d # c => prio'[d] = prio[d]
           /\ fifo[c] # <<>> => prio'[c] = prio[c]
<1> DEFINE mark == ~ DequeueEcn /\ QlenMark(c, len_bytes'[c], sum_len_bytes',
                                     quantum'[c], round_time'[prio'[c]])
           pkt == [len |-> len, tstamp |-> IF Sojourn THEN now ELSE 0, ce |-> mark]
<1>1. fifo' = [fifo EXCEPT ![c] = Append(@, pkt)]
  BY DEF Admit
<1>2. mark \in BOOLEAN /\ now \in Nat
  BY DEF IInv, TypeOK
<1> HIDE DEF mark
<1>3. pkt \in Packets
  BY <1>2 DEF Packets
<1>4. pkt.len = len /\ pkt.tstamp = IF Sojourn THEN now ELSE 0
  OBVIOUS
<1>5. IF fifo[c] = <<>> THEN prio' = [prio EXCEPT ![c] = queue_prio[c]] ELSE prio' = prio
  BY DEF Admit, Activate, turnVars
<1>6. prio \in [Queues -> Prios] /\ queue_prio[c] \in Prios
  BY DEF IInv, TypeOK
<1>7. /\ prio' \in [Queues -> Prios]
      /\ \A d \in Queues : d # c => prio'[d] = prio[d]
      /\ fifo[c] # <<>> => prio'[c] = prio[c]
  BY <1>5, <1>6
<1>8. /\ backlog' = [backlog EXCEPT ![c] = @ + len]
      /\ qlen' = qlen + 1
      /\ sum_len_bytes' = sum_len_bytes + SkbSize(len)
      /\ len_bytes' = [len_bytes EXCEPT ![c] = @ + SkbSize(len)]
      /\ prio_len_bytes' = [prio_len_bytes EXCEPT ![prio'[c]] = @ + SkbSize(len)]
  BY DEF Admit
<1> HIDE DEF pkt
<1>9. QED
  BY <1>1, <1>3, <1>4, <1>7, <1>8

\* The counters remain exact when a packet is admitted.
LEMMA AdmitAccounting ==
    ASSUME IInv, AccountingExact, NEW c \in Queues, NEW len \in PktLens, Admit(c, len)
    PROVE  AccountingExact'
<1>1. /\ fifo \in [Queues -> Seq(Packets)] /\ backlog \in [Queues -> Int]
      /\ len_bytes \in [Queues -> Int] /\ prio_len_bytes \in [Prios -> Int]
      /\ prio \in [Queues -> Prios]
  BY DEF IInv, TypeOK
<1>2. PICK pkt \in Packets : pkt.len = len /\ fifo' = [fifo EXCEPT ![c] = Append(@, pkt)]
  BY AdmitFacts
<1>3. /\ backlog' = [backlog EXCEPT ![c] = @ + pkt.len]
      /\ qlen' = qlen + 1
      /\ sum_len_bytes' = sum_len_bytes + SkbSize(pkt.len)
      /\ len_bytes' = [len_bytes EXCEPT ![c] = @ + SkbSize(pkt.len)]
  BY <1>2, AdmitFacts
<1>4. Counted(fifo, backlog, len_bytes, sum_len_bytes, qlen)
  BY DEF AccountingExact
<1>5. Counted(fifo', backlog', len_bytes', sum_len_bytes', qlen')
  BY <1>1, <1>2, <1>3, <1>4, CountedAdmit
<1> DEFINE size == SkbSize(len)
<1>6. size \in Int
  BY <1>2, PktsLen
<1>7. /\ prio' \in [Queues -> Prios]
      /\ len_bytes' = [len_bytes EXCEPT ![c] = @ + size]
      /\ prio_len_bytes' = [prio_len_bytes EXCEPT ![prio'[c]] = @ + size]
      /\ \A d \in Queues : d # c => prio'[d] = prio[d]
      /\ fifo[c] # <<>> => prio'[c] = prio[c]
  BY AdmitFacts
<1> HIDE DEF size
<1>8. prio'[c] \in Prios
  BY <1>7
<1>10. len_bytes[c] = 0 \/ prio'[c] = prio[c]
  <2>1. CASE fifo[c] = <<>>
    BY <1>1, <1>4, <2>1, BytesType DEF Counted
  <2>2. QED
    BY <1>7, <2>1
<1>11. CountedPerPrio(prio, len_bytes, prio_len_bytes)
  BY DEF AccountingExact
<1>12. CountedPerPrio(prio', len_bytes', prio_len_bytes')
  <2>1. CountedPerPrio(prio', [len_bytes EXCEPT ![c] = @ + size],
                       [prio_len_bytes EXCEPT ![prio'[c]] = @ + size])
    BY <1>1, <1>6, <1>7, <1>10, <1>11, PerPrioChange
  <2>2. QED
    BY <1>7, <2>1
<1>13. QED
  BY <1>5, <1>12 DEF AccountingExact

\* And when one leaves.
LEMMA TransmitAccounting ==
    ASSUME IInv, AccountingExact, Transmit
    PROVE  AccountingExact'
<1> DEFINE c    == HeadClass
           len  == HeadPacket.len
           size == HeadSize
<1>1. deq # NoDequeue
  BY DEF Transmit, InTurn
<1>2. /\ c \in Queues /\ fifo[c] # <<>> /\ prio[c] = deq.prio /\ deq.prio \in Prios
      /\ size \in Nat
  BY <1>1, HeadFacts
<1>3. /\ fifo \in [Queues -> Seq(Packets)] /\ backlog \in [Queues -> Int]
      /\ len_bytes \in [Queues -> Int] /\ prio_len_bytes \in [Prios -> Int]
      /\ prio \in [Queues -> Prios] /\ sum_len_bytes \in Int /\ qlen \in Int
  BY DEF IInv, TypeOK
<1>4. /\ fifo' = [fifo EXCEPT ![c] = Tail(@)]
      /\ backlog' = [backlog EXCEPT ![c] = @ - len]
      /\ len_bytes' = [len_bytes EXCEPT ![c] = len_bytes[c] - size]
      /\ sum_len_bytes' = sum_len_bytes - size
      /\ qlen' = qlen - 1
      /\ prio_len_bytes' = [prio_len_bytes EXCEPT ![deq.prio] = @ - size]
      /\ prio' = prio
  BY DEF Transmit
<1>5. size = SkbSize(len) /\ len = Head(fifo[c]).len
  BY DEF HeadSize, HeadPacket
<1> HIDE DEF c, len, size
<1>6. len_bytes' = [len_bytes EXCEPT ![c] = @ - SkbSize(len)]
  BY <1>4, <1>5
<1>7. Counted(fifo, backlog, len_bytes, sum_len_bytes, qlen)
  BY DEF AccountingExact
<1>8. Counted(fifo', backlog', len_bytes', sum_len_bytes', qlen')
  <2>1. Counted([fifo EXCEPT ![c] = Tail(@)], [backlog EXCEPT ![c] = @ - len],
                [len_bytes EXCEPT ![c] = @ - SkbSize(len)],
                sum_len_bytes - SkbSize(len), qlen - 1)
    BY <1>2, <1>3, <1>5, <1>7, CountedSend
  <2>2. QED
    BY <1>4, <1>5, <1>6, <2>1
<1> DEFINE d == 0 - size
<1>9. d \in Int /\ \A k \in Int : k - size = k + d
  BY <1>2
<1> HIDE DEF d
<1>10. /\ len_bytes' = [len_bytes EXCEPT ![c] = @ + d]
       /\ prio_len_bytes' = [prio_len_bytes EXCEPT ![prio[c]] = @ + d]
  <2>1. len_bytes[c] \in Int /\ prio_len_bytes[prio[c]] \in Int
    BY <1>2, <1>3
  <2>2. /\ len_bytes[c] - size = len_bytes[c] + d
        /\ prio_len_bytes[prio[c]] - size = prio_len_bytes[prio[c]] + d
    BY <1>9, <2>1
  <2>3. QED
    BY <1>2, <1>4, <2>2
<1>11. CountedPerPrio(prio, len_bytes, prio_len_bytes)
  BY DEF AccountingExact
<1>12. CountedPerPrio(prio', len_bytes', prio_len_bytes')
  <2>1. CountedPerPrio(prio, [len_bytes EXCEPT ![c] = @ + d],
                       [prio_len_bytes EXCEPT ![prio[c]] = @ + d])
    BY <1>2, <1>3, <1>9, <1>11, PerPrioChange
  <2>2. QED
    BY <1>4, <1>10, <2>1
<1>13. QED
  BY <1>8, <1>12 DEF AccountingExact

\* Nothing else changes what is queued, a counter or a priority.
LEMMA FifosAlone ==
    ASSUME [Next]_vars, ~ Transmit,
           ~ \E dscp \in Dscps, len \in PktLens :
                 Enqueue(dscp, len) /\ Admit(Classify(dscp), len)
    PROVE  UNCHANGED <<fifoVars, prio>>
<1>1. CASE \E dscp \in Dscps, len \in PktLens : Enqueue(dscp, len)
  BY <1>1 DEF Enqueue, Drop, turnVars
<1>2. CASE DequeueNothing \/ DequeueStart \/ Throttle \/ Rotate
  BY <1>2 DEF DequeueNothing, DequeueStart, Throttle, Rotate, turnVars
<1>3. CASE WatchdogFire \/ NetifSchedule \/ \E d \in TickSteps : Tick(d)
  BY <1>3 DEF WatchdogFire, NetifSchedule, Tick, turnVars
<1>4. CASE Sysctl
  BY <1>4 DEF Sysctl, SetQueuePrio, SetQueueQuantum, SetEcnScheme, turnVars
<1>5. CASE UNCHANGED vars
  BY <1>5 DEF vars, turnVars
<1>6. QED
  BY <1>1, <1>2, <1>3, <1>4, <1>5 DEF Next, DequeueLoop

LEMMA AccountingStep == IInv /\ AccountingExact /\ [Next]_vars => AccountingExact'
<1>1. SUFFICES ASSUME IInv, AccountingExact, [Next]_vars PROVE AccountingExact'
  OBVIOUS
<1>2. CASE Transmit
  BY <1>1, <1>2, TransmitAccounting
<1>3. CASE \E dscp \in Dscps, len \in PktLens :
               Enqueue(dscp, len) /\ Admit(Classify(dscp), len)
  BY <1>1, <1>3, AdmitAccounting, ClassifyType
<1>4. CASE UNCHANGED <<fifoVars, prio>>
  BY <1>1, <1>4 DEF AccountingExact, fifoVars
<1>5. QED
  BY <1>1, <1>2, <1>3, <1>4, FifosAlone

\* The counters that buffer management, marking and idle detection read are what is
\* queued, per class, per priority and per port, whatever is dropped or refused and
\* whatever priority the sysctl gives a class meanwhile.
THEOREM AccountingCorrect == Spec => []AccountingExact
<1>1. Init => AccountingExact
  <2>1. SUFFICES ASSUME Init PROVE AccountingExact
    OBVIOUS
  <2>2. prio \in [Queues -> Prios]
    BY <2>1, InitInv DEF IInv, TypeOK
  <2>3. CountedPerPrio(prio, [c \in Queues |-> 0], [p \in Prios |-> 0])
    BY <2>2, PerPrioInit
  <2>4. QED
    BY <2>1, <2>3, CountedInit DEF Init, AccountingExact
<1>2. QED
  BY <1>1, AccountingStep, Inductive, PTL DEF Spec
-----------------------------------------------------------------------------
\* A dequeue in progress is one of a run that is due.
DequeueIsRun == deq # NoDequeue => run

ArmedInv == ThrottledIsArmed /\ DequeueIsRun

\* The watchdog that Throttle arms expires when the bucket, if it is large enough,
\* has the tokens for the packet that is next.
LEMMA ThrottleArms == ASSUME IInv, Throttle PROVE ThrottledIsArmed'
<1> DEFINE size == HeadSize
<1>1. deq # NoDequeue /\ size <= deficit[HeadClass] /\ HeadResult < 0
  BY DEF Throttle, InTurn
<1>2. /\ watchdog' = deq.now - HeadResult
      /\ active' = active /\ fifo' = fifo /\ deficit' = deficit
      /\ tokens' = tokens /\ time_ns' = time_ns
  BY DEF Throttle, WakeTime, fifoVars, turnVars, sentVars
<1>3. /\ deq.prio \in Prios /\ active[deq.prio] # <<>> /\ deq.now \in Nat
      /\ size \in Nat /\ HeadResult \in Int
  BY <1>1, HeadFacts
<1>4. PrioSchedule = deq.prio
  <2>1. deq.prio \in ActivePrios
    BY <1>3 DEF ActivePrios
  <2>2. \A p \in Prios : p < deq.prio => active[p] = <<>>
    BY <1>1 DEF IInv, InProgress
  <2>3. /\ PrioSchedule \in Prios /\ active[PrioSchedule] # <<>>
        /\ \A p \in Prios : p < PrioSchedule => active[p] = <<>>
    BY <2>1, PrioScheduleType
  <2>4. ~ (deq.prio < PrioSchedule) /\ ~ (PrioSchedule < deq.prio)
    BY <1>3, <2>2, <2>3
  <2>5. PrioSchedule \in Int /\ deq.prio \in Int
    BY <1>3, <2>3, PortAssumption DEF Prios
  <2>6. QED
    BY <2>4, <2>5
<1>5. PrioSchedule' = deq.prio
  BY <1>2, <1>4 DEF PrioSchedule, ActivePrios
<1>6. /\ Head(active'[PrioSchedule']) = HeadClass
      /\ SkbSize(Head(fifo'[HeadClass]).len) = size
  BY <1>2, <1>5 DEF HeadClass, HeadSize, HeadPacket
<1>7. watchdog' # NoTimer
  BY <1>2, <1>1, <1>3 DEF NoTimer
<1>8. ASSUME L2T(size) <= BucketNs PROVE TbfSchedule(size, tokens', time_ns', watchdog') >= 0
  <2> DEFINE cost == L2T(size)
  <2>1. cost \in Nat /\ BucketNs \in Nat /\ tokens \in Nat /\ time_ns \in Nat
    <3>1. cost \in Nat
      BY <1>3, L2TType
    <3>2. tokens \in 0 .. BucketNs /\ time_ns \in Nat
      BY DEF IInv, TypeOK
    <3>3. QED
      BY <3>1, <3>2, BucketNsType
  <2>2. HeadResult = Lesser(deq.now - time_ns, BucketNs) + tokens - cost
    BY DEF HeadResult, TbfSchedule
  <2>3. TbfSchedule(size, tokens', time_ns', watchdog') =
            Lesser(deq.now - HeadResult - time_ns, BucketNs) + tokens - cost
    BY <1>2 DEF TbfSchedule
  <2>4. cost <= BucketNs
    BY <1>8
  <2> HIDE DEF cost
  <2>5. QED
    BY <1>1, <1>3, <2>1, <2>2, <2>3, <2>4 DEF Lesser
<1> HIDE DEF size
<1>9. QED
  BY <1>1, <1>2, <1>6, <1>7, <1>8 DEF ThrottledIsArmed

LEMMA ArmedStep == IInv /\ ArmedInv /\ [Next]_vars => ArmedInv'
<1>1. SUFFICES ASSUME IInv, ArmedInv, [Next]_vars PROVE ArmedInv'
  OBVIOUS
<1> USE <1>1
<1>2. CASE \E dscp \in Dscps, len \in PktLens : Enqueue(dscp, len)
  BY <1>2, Zenon DEF Enqueue, ArmedInv, ThrottledIsArmed, DequeueIsRun
<1>3. CASE DequeueNothing
  <2>1. ActivePrios' = {} /\ deq' = NoDequeue
    BY <1>3 DEF DequeueNothing, ActivePrios, turnVars
  <2>2. QED
    BY <2>1 DEF ArmedInv, ThrottledIsArmed, DequeueIsRun
<1>4. CASE DequeueStart \/ Transmit \/ Rotate
  <2>1. run' = run /\ run
    BY <1>4, Zenon DEF DequeueStart, Transmit, Rotate, InTurn, kernelVars, ArmedInv, DequeueIsRun
  <2>2. QED
    BY <2>1, Zenon DEF ArmedInv, ThrottledIsArmed, DequeueIsRun
<1>5. CASE Throttle
  <2>1. deq' = NoDequeue
    BY <1>5 DEF Throttle
  <2>2. QED
    BY <1>5, <2>1, ThrottleArms DEF ArmedInv, DequeueIsRun
<1>6. CASE WatchdogFire \/ NetifSchedule
  BY <1>6, Zenon DEF WatchdogFire, NetifSchedule, ArmedInv, ThrottledIsArmed, DequeueIsRun
<1>7. CASE \/ \E d \in TickSteps : Tick(d)
           \/ Sysctl
           \/ UNCHANGED vars
  <2>1. UNCHANGED <<run, watchdog, fifo, turnVars, tokens, time_ns, deq>>
    BY <1>7 DEF Tick, Sysctl, SetQueuePrio, SetQueueQuantum, SetEcnScheme, vars,
                kernelVars, fifoVars, sentVars
  <2>2. QED
    BY <2>1 DEF ArmedInv, ThrottledIsArmed, DequeueIsRun, ActivePrios, PrioSchedule, turnVars
<1>8. QED
  BY <1>2, <1>3, <1>4, <1>5, <1>6, <1>7 DEF Next, DequeueLoop

\* A qdisc that holds packets and is not about to be run has armed its watchdog, for a
\* time at which the packet that is next can be paid for: no packets wait forever, and
\* no run that the watchdog schedules is in vain.
THEOREM ThrottledArmed == Spec => []ThrottledIsArmed
<1>1. Init => ArmedInv
  <2>1. SUFFICES ASSUME Init PROVE ArmedInv
    OBVIOUS
  <2>2. ActivePrios = {} /\ deq = NoDequeue
    BY <2>1 DEF Init, ActivePrios
  <2>3. QED
    BY <2>2 DEF ArmedInv, ThrottledIsArmed, DequeueIsRun
<1>2. ArmedInv => ThrottledIsArmed
  BY DEF ArmedInv
<1>3. QED
  BY <1>1, <1>2, ArmedStep, Inductive, PTL DEF Spec
-----------------------------------------------------------------------------
\* The threshold of MQ-ECN is at most the port's, whatever the estimates.
LEMMA MqEcnThreshBounds ==
    ASSUME NEW qtm \in Nat, NEW rt \in Int
    PROVE  MqEcnThresh(qtm, rt) \in Nat /\ MqEcnThresh(qtm, rt) <= PortThresh
<1> DEFINE x    == IF rt > 0 THEN (qtm * RateScale) \div rt ELSE RateBps
           rate == EstimateRate(qtm, rt)
<1>1. x \in Nat
  <2>1. qtm * RateScale \in Nat
    BY DwrrAssumption
  <2>2. \A i \in Nat, j \in Nat \ {0} : i \div j \in Nat
    OBVIOUS
  <2>3. QED
    BY <2>1, <2>2, DwrrAssumption
<1>2. rate \in Nat /\ rate <= RateBps
  <2>1. rate = Lesser(x, RateBps)
    BY DEF EstimateRate
  <2> HIDE DEF x, rate
  <2>2. QED
    BY <1>1, <2>1, DwrrAssumption DEF Lesser
<1> HIDE DEF rate
<1>3. (rate * PortThresh) \div RateBps \in Nat /\ (rate * PortThresh) \div RateBps <= PortThresh
  BY <1>2, ShareBounds, DwrrAssumption, BufferAssumption
<1>4. QED
  BY <1>3 DEF MqEcnThresh, rate

\* What an arriving packet is marked for.
LEMMA AdmitMarks ==
    ASSUME IInv, NEW c \in Queues, NEW len \in PktLens, Admit(c, len),
           ecn_scheme = "mq_ecn", ~ DequeueEcn, len_bytes'[c] > PortThresh,
           quantum'[c] \in Nat, round_time'[prio'[c]] \in Int
    PROVE  fifo'[c][Len(fifo'[c])].ce
<1> DEFINE mark == ~ DequeueEcn /\ QlenMark(c, len_bytes'[c], sum_len_bytes',
                                     quantum'[c], round_time'[prio'[c]])
           pkt  == [len |-> len, tstamp |-> IF Sojourn THEN now ELSE 0, ce |-> mark]
           t    == MqEcnThresh(quantum'[c], round_time'[prio'[c]])
<1>1. fifo' = [fifo EXCEPT ![c] = Append(@, pkt)]
  BY DEF Admit
<1>2. t \in Nat /\ t <= PortThresh
  BY MqEcnThreshBounds
<1> HIDE DEF t
<1>3. len_bytes \in [Queues -> Int] /\ fifo \in [Queues -> Seq(Packets)]
  BY DEF IInv, TypeOK
<1>4. len_bytes'[c] \in Int
  <2>1. len_bytes' = [len_bytes EXCEPT ![c] = @ + SkbSize(len)]
    BY DEF Admit
  <2>2. SkbSize(len) \in Int
    BY SkbSizeType, BufferAssumption
  <2>3. QED
    BY <1>3, <2>1, <2>2
<1>5. len_bytes'[c] > t
  BY <1>2, <1>4, BufferAssumption
<1>6. QlenMark(c, len_bytes'[c], sum_len_bytes', quantum'[c], round_time'[prio'[c]])
  BY <1>5 DEF QlenMark, t
<1>7. mark
  BY <1>6
<1> HIDE DEF mark
<1>8. pkt.ce = mark
  OBVIOUS
<1> HIDE DEF pkt
<1>9. fifo'[c] = Append(fifo[c], pkt)
  BY <1>1, <1>3
<1>10. fifo'[c][Len(fifo'[c])] = pkt
  <2>1. fifo[c] \in Seq(Packets)
    BY <1>3
  <2>2. Append(fifo[c], pkt)[Len(fifo[c]) + 1] = pkt /\ Len(Append(fifo[c], pkt)) = Len(fifo[c]) + 1
    BY <2>1
  <2>3. QED
    BY <1>9, <2>2
<1>11. QED
  BY <1>7, <1>8, <1>10

\* With more than the port's threshold queued in its class, a packet that arrives under
\* MQ-ECN is marked, whatever round time and quantum the threshold is taken from.
THEOREM NeverLaxer == Spec => MqEcnNeverLaxer
<1>1. IInv /\ IInv' /\ [Next]_vars =>
        [\A c \in Queues : /\ Len(fifo'[c]) > Len(fifo[c])
                           /\ ecn_scheme = "mq_ecn" /\ ~ DequeueEcn
                           /\ len_bytes'[c] > PortThresh
                           => fifo'[c][Len(fifo'[c])].ce]_vars
  <2>1. SUFFICES ASSUME IInv, IInv', [Next]_vars, NEW c \in Queues,
                        Len(fifo'[c]) > Len(fifo[c]),
                        ecn_scheme = "mq_ecn", ~ DequeueEcn,
                        len_bytes'[c] > PortThresh
                 PROVE  fifo'[c][Len(fifo'[c])].ce
    OBVIOUS
  <2>2. fifo \in [Queues -> Seq(Packets)] /\ fifo[c] \in Seq(Packets) /\ Len(fifo[c]) \in Nat
    <3>1. fifo \in [Queues -> Seq(Packets)] /\ fifo[c] \in Seq(Packets)
      BY <2>1 DEF IInv, TypeOK
    <3>2. QED
      BY <3>1, LenProperties
  <2>3. ~ Transmit
    <3>1. SUFFICES ASSUME Transmit PROVE FALSE
      OBVIOUS
    <3>2. deq # NoDequeue /\ fifo' = [fifo EXCEPT ![HeadClass] = Tail(@)]
      BY <3>1 DEF Transmit, InTurn
    <3>3. fifo[HeadClass] # <<>> /\ HeadClass \in Queues
      BY <2>1, <3>2, HeadFacts
    <3>4. c = HeadClass
      BY <2>1, <2>2, <3>2
    <3>5. fifo'[c] = Tail(fifo[c]) /\ fifo[c] # <<>>
      BY <2>2, <3>2, <3>3, <3>4
    <3>6. Len(fifo'[c]) = Len(fifo[c]) - 1
      BY <2>2, <3>5, HeadTailProperties
    <3>7. QED
      BY <2>1, <2>2, <3>6
  <2>4. PICK d \in Queues, len \in PktLens : Admit(d, len)
    BY <2>1, <2>2, <2>3, FifoSteps, ClassifyType
  <2>5. d = c
    <3>1. PICK pkt : fifo' = [fifo EXCEPT ![d] = Append(@, pkt)]
      BY <2>4 DEF Admit
    <3>2. QED
      BY <2>1, <2>2, <3>1
  <2>6. quantum'[c] \in Nat /\ round_time'[prio'[c]] \in Int
    BY <2>1 DEF IInv, TypeOK
  <2>7. QED
    BY <2>1, <2>4, <2>5, <2>6, AdmitMarks
<1>2. QED
  BY <1>1, Inductive, PTL DEF Spec, MqEcnNeverLaxer
-----------------------------------------------------------------------------
\* Admitting a packet is Accept: the class keeps its rank unless it was empty.
LEMMA AdmitAccepts ==
    ASSUME IInv, NEW c \in Queues, NEW len \in PktLens, Admit(c, len), UNCHANGED wire
    PROVE  Port!Accept(c)
<1>1. /\ fifo \in [Queues -> Seq(Packets)] /\ fifo[c] \in Seq(Packets)
      /\ prio \in [Queues -> Prios]
  BY DEF IInv, TypeOK
<1>2. PICK pkt : fifo' = [fifo EXCEPT ![c] = Append(@, pkt)]
  BY DEF Admit
<1>3. fifo'[c] = Append(fifo[c], pkt)
  BY <1>1, <1>2
<1>4. pkt \in Range(fifo'[c])
  <2>1. Len(fifo[c]) + 1 \in DOMAIN fifo'[c] /\ fifo'[c][Len(fifo[c]) + 1] = pkt
    BY <1>1, <1>3
  <2>2. QED
    BY <2>1 DEF Range
<1>5. IF fifo[c] = <<>> THEN prio' = [prio EXCEPT ![c] = queue_prio[c]] ELSE prio' = prio
  BY DEF Admit, Activate, turnVars
<1>6. prio' = IF c \in Port!Waiting THEN prio ELSE [prio EXCEPT ![c] = prio'[c]]
  BY <1>1, <1>5 DEF Port!Waiting
<1>7. QED
  BY <1>2, <1>4, <1>6 DEF Port!Accept, Port!Range, Range

\* Sending is Send: no class with packets has a smaller rank than the head class.
LEMMA TransmitSends ==
    ASSUME IInv, Transmit
    PROVE  Port!Send(HeadClass)
<1> DEFINE c == HeadClass
           ce == HeadPacket.ce \/ DequeueMark(c, HeadPacket, len_bytes[c] - HeadSize)
<1>1. deq # NoDequeue
  BY DEF Transmit, InTurn
<1>2. c \in Queues /\ fifo[c] # <<>> /\ prio[c] = deq.prio /\ HeadPacket \in Packets
  BY <1>1, HeadFacts
<1>3. c \in Port!Waiting
  BY <1>2 DEF Port!Waiting
<1>4. ASSUME NEW d \in Port!Waiting PROVE prio[c] <= prio[d]
  <2>1. d \in Queues /\ fifo[d] # <<>>
    BY <1>4 DEF Port!Waiting
  <2>2. prio[d] \in Prios /\ prio[c] \in Prios /\ active[prio[d]] \in Seq(Queues)
    BY <1>2, <2>1 DEF IInv, TypeOK
  <2>3. d \in Range(active[prio[d]])
    BY <2>1, <2>2 DEF IInv, ActiveListsExact
  <2>4. active[prio[d]] # <<>>
    BY <2>2, <2>3 DEF Range
  <2>5. ~ (prio[d] < prio[c])
    BY <1>1, <1>2, <2>2, <2>4 DEF IInv, InProgress
  <2>6. QED
    BY <2>2, <2>5 DEF Prios
<1>5. fifo' = [fifo EXCEPT ![c] = Tail(@)] /\ prio' = prio
  BY DEF Transmit
<1>6. wire' = [queue |-> c, prio |-> deq.prio, size |-> HeadSize, at |-> deq.now, ce |-> ce]
  BY DEF Transmit
<1>7. Seen(wire') = [queue |-> c, size |-> HeadSize, ce |-> ce]
  <2> HIDE DEF c, ce
  <2>1. QED
    BY <1>6 DEF Seen
<1>8. ce \in {HeadPacket.ce, TRUE}
  <2>1. HeadPacket.ce \in BOOLEAN
    BY <1>2 DEF Packets
  <2>2. QED
    BY <2>1
<1>9. HeadSize = WireSize(Head(fifo[c])) /\ HeadPacket.ce = Head(fifo[c]).ce
  BY DEF HeadSize, HeadPacket, WireSize
<1>10. QED
  <2> HIDE DEF c, ce
  <2>1. \E mark \in {Head(fifo[c]).ce, TRUE} :
            Seen(wire') = [queue |-> c, size |-> WireSize(Head(fifo[c])), ce |-> mark]
    BY <1>7, <1>8, <1>9
  <2>2. Port!Send(c)
    BY <1>3, <1>4, <1>5, <2>1 DEF Port!Send, Seen
  <2>3. QED
    BY <2>2 DEF c

\* Nothing else touches a FIFO, a rank or the wire, except to find nothing to send.
LEMMA OthersRest ==
    ASSUME [Next]_vars, ~ Transmit,
           \A dscp \in Dscps, len \in PktLens : ~ Enqueue(dscp, len)
    PROVE  UNCHANGED <<fifo, prio>> /\ wire' \in {wire, NoPacket}
<1>1. CASE DequeueNothing \/ DequeueStart \/ Throttle \/ Rotate
  BY <1>1 DEF DequeueNothing, DequeueStart, Throttle, Rotate, fifoVars, turnVars, kernelVars
<1>2. CASE WatchdogFire \/ NetifSchedule \/ \E d \in TickSteps : Tick(d)
  BY <1>2 DEF WatchdogFire, NetifSchedule, Tick, fifoVars, turnVars
<1>3. CASE Sysctl
  BY <1>3 DEF Sysctl, SetQueuePrio, SetQueueQuantum, SetEcnScheme, fifoVars, turnVars,
              kernelVars
<1>4. CASE UNCHANGED vars
  BY <1>4 DEF vars, fifoVars, turnVars, kernelVars
<1>5. QED
  BY <1>1, <1>2, <1>3, <1>4 DEF Next, DequeueLoop

LEMMA StepRefines == IInv /\ [Next]_vars => [Port!Next]_(Port!vars)
<1>1. SUFFICES ASSUME IInv, [Next]_vars PROVE [Port!Next]_(Port!vars)
  OBVIOUS
<1>2. CASE Transmit
  <2>1. Port!Send(HeadClass) /\ HeadClass \in Queues
    BY <1>1, <1>2, TransmitSends, HeadFacts DEF Transmit, InTurn
  <2>2. QED
    BY <2>1 DEF Port!Next
<1>3. ASSUME NEW dscp \in Dscps, NEW len \in PktLens, Enqueue(dscp, len)
      PROVE  [Port!Next]_(Port!vars)
  <2> DEFINE c == Classify(dscp)
  <2>1. c \in Queues /\ wire' = wire
    BY <1>3, ClassifyType DEF Enqueue
  <2>2. CASE Drop(c, len)
    BY <2>1, <2>2 DEF Drop, fifoVars, turnVars, Port!vars
  <2>3. CASE Admit(c, len)
    <3>1. Port!Accept(c)
      BY <1>1, <2>1, <2>3, AdmitAccepts
    <3>2. QED
      BY <2>1, <3>1 DEF Port!Next
  <2>4. QED
    BY <1>3, <2>2, <2>3 DEF Enqueue
<1>4. ASSUME ~ Transmit, \A dscp \in Dscps, len \in PktLens : ~ Enqueue(dscp, len)
      PROVE  [Port!Next]_(Port!vars)
  <2>1. UNCHANGED <<fifo, prio>> /\ wire' \in {wire, NoPacket}
    BY <1>1, <1>4, OthersRest
  <2>2. CASE wire' = wire
    BY <2>1, <2>2 DEF Port!vars
  <2>3. CASE wire' = NoPacket
    BY <2>1, <2>3 DEF Port!Next, Port!Rest
  <2>4. QED
    BY <2>1, <2>2, <2>3
<1>5. QED
  BY <1>2, <1>3, <1>4

\* sch_dwrr is a port of FIFOs in strict priority: whatever the rotations of its
\* lists, its bucket and the writes to its parameters do, it loses, reorders and
\* unmarks no packet it accepted, and no packet overtakes one of a smaller rank.
THEOREM PortImplemented == Spec => ImplementsPort
<1>1. Init => Port!Init
  <2>1. SUFFICES ASSUME Init PROVE Port!Init
    OBVIOUS
  <2>2. fifo = [c \in Queues |-> <<>>] /\ wire = NoPacket
    BY <2>1 DEF Init
  <2>3. prio \in [Queues -> Int]
    BY <2>1 DEF Init
  <2>4. QED
    BY <2>2, <2>3 DEF Port!Init
<1>2. QED
  BY <1>1, StepRefines, Inductive, PTL DEF Spec, ImplementsPort, Port!Spec
-----------------------------------------------------------------------------
\* The checkpoint of the bucket is in the past of the dequeue in progress.
Clocks ==
    /\ time_ns <= now
    /\ deq # NoDequeue => time_ns <= deq.now /\ deq.now <= now

\* What has been sent in excess of the rate and what may still be sent in excess
\* of it never add up to more than two buckets: one banked in tokens, and one
\* that the time since the checkpoint adds to them.
Excess == debt \in Nat /\ debt + tokens <= 2 * BucketNs

ShapingInv == IInv /\ Clocks /\ Excess
-----------------------------------------------------------------------------
\* Sending a packet moves its transmission time from the tokens to the debt.
LEMMA TransmitExcess ==
    ASSUME ShapingInv, Transmit, Pay
    PROVE  Clocks' /\ Excess'
<1> DEFINE elapsed == deq.now - time_ns
           cost    == L2T(HeadSize)
<1>1. deq # NoDequeue /\ HeadResult >= 0
  BY DEF Transmit, InTurn
<1>2. /\ deq.now \in Nat /\ HeadSize \in Nat /\ HeadResult \in Int
  BY <1>1, HeadFacts DEF ShapingInv
<1>3. cost \in Nat /\ BucketNs \in Nat
  BY <1>2, L2TType, BucketNsType
<1>4. /\ tokens \in Nat /\ tokens <= BucketNs
      /\ time_ns \in Nat /\ now \in Nat /\ qlen \in Int
  BY <1>3 DEF ShapingInv, IInv, TypeOK
<1>5. elapsed \in Nat /\ deq.now <= now
  BY <1>1, <1>2, <1>4 DEF ShapingInv, Clocks
<1>6. /\ time_ns' = deq.now /\ now' = now /\ deq' = NoDequeue
      /\ tokens' = Lesser(HeadResult, BucketNs)
      /\ wire'.size = HeadSize
      /\ qlen' = qlen - 1
  BY DEF Transmit
<1>7. debt' = Greater(debt - elapsed, 0) + cost
  BY <1>4, <1>6 DEF Pay
<1>8. HeadResult = Lesser(elapsed, BucketNs) + tokens - cost
  BY DEF HeadResult, TbfSchedule
<1> HIDE DEF elapsed, cost
<1>9. debt \in Nat /\ debt + tokens <= 2 * BucketNs
  BY DEF ShapingInv, Excess
<1>10. debt' \in Nat
  BY <1>3, <1>5, <1>7, <1>9 DEF Greater
<1>11. debt' + tokens' <= 2 * BucketNs
  <2>1. tokens' <= HeadResult /\ tokens' \in Int
    BY <1>2, <1>3, <1>6 DEF Lesser
  <2>2. Greater(debt - elapsed, 0) + Lesser(elapsed, BucketNs) + tokens <= 2 * BucketNs
    BY <1>3, <1>4, <1>5, <1>9 DEF Greater, Lesser
  <2>3. Greater(debt - elapsed, 0) \in Int /\ Lesser(elapsed, BucketNs) \in Int
    BY <1>3, <1>5, <1>9 DEF Greater, Lesser
  <2>4. QED
    BY <1>3, <1>4, <1>7, <1>8, <2>1, <2>2, <2>3
<1>12. Clocks'
  BY <1>5, <1>6 DEF Clocks
<1>13. QED
  BY <1>10, <1>11, <1>12 DEF Excess

\* Every other step leaves the bucket and the departures alone.
LEMMA OtherStepsExcess ==
    ASSUME ShapingInv, [Next]_vars, ~ Transmit, [Pay]_debt
    PROVE  Clocks' /\ Excess'
<1>1. /\ now \in Nat /\ time_ns \in Nat /\ qlen \in Int
  BY DEF ShapingInv, IInv, TypeOK
<1>2. /\ qlen' \in {qlen, qlen + 1} /\ time_ns' = time_ns /\ tokens' = tokens
      /\ now' \in Nat /\ now <= now'
      /\ \/ deq' = deq
         \/ deq' = NoDequeue
         \/ deq' = [prio |-> PrioSchedule, now |-> now]
  <2>1. CASE \E dscp \in Dscps, len \in PktLens : Enqueue(dscp, len)
    BY <1>1, <2>1 DEF Enqueue, Drop, Admit, fifoVars, sentVars
  <2>2. CASE DequeueNothing \/ DequeueStart
    BY <1>1, <2>2 DEF DequeueNothing, DequeueStart, fifoVars, sentVars
  <2>3. CASE Throttle \/ Rotate
    BY <1>1, <2>3 DEF Throttle, Rotate, kernelVars, fifoVars, sentVars
  <2>4. CASE WatchdogFire \/ NetifSchedule
    BY <1>1, <2>4 DEF WatchdogFire, NetifSchedule, fifoVars, sentVars
  <2>5. CASE \E d \in TickSteps : Tick(d)
    BY <1>1, <2>5, PortAssumption, BufferAssumption DEF Tick, fifoVars, sentVars
  <2>6. CASE Sysctl
    BY <1>1, <2>6 DEF Sysctl, SetQueuePrio, SetQueueQuantum, SetEcnScheme,
                      kernelVars, fifoVars, sentVars
  <2>7. CASE UNCHANGED vars
    BY <1>1, <2>7 DEF vars, kernelVars, fifoVars, sentVars
  <2>8. QED
    BY <2>1, <2>2, <2>3, <2>4, <2>5, <2>6, <2>7 DEF Next, DequeueLoop
<1>3. debt' = debt
  BY <1>1, <1>2 DEF Pay
<1>4. Excess'
  BY <1>2, <1>3, BucketNsType DEF ShapingInv, Excess
<1>5. Clocks'
  <2>1. time_ns' <= now'
    BY <1>1, <1>2 DEF ShapingInv, Clocks
  <2>2. ASSUME deq' # NoDequeue PROVE time_ns' <= deq'.now /\ deq'.now <= now'
    <3>1. CASE deq' = deq
      <4>1. deq.now \in Nat
        BY <2>2, <3>1 DEF ShapingInv, IInv, TypeOK
      <4>2. QED
        BY <1>1, <1>2, <2>2, <3>1, <4>1 DEF ShapingInv, Clocks
    <3>2. CASE deq' = [prio |-> PrioSchedule, now |-> now]
      BY <1>1, <1>2, <3>2 DEF ShapingInv, Clocks
    <3>3. QED
      BY <1>2, <2>2, <3>1, <3>2
  <2>3. QED
    BY <2>1, <2>2 DEF Clocks
<1>6. QED
  BY <1>4, <1>5

\* The invariant of the token bucket holds in every reachable state.
LEMMA ShapingInductive == ServiceSpec => []ShapingInv
<1>1. ServiceInit => ShapingInv
  <2>1. SUFFICES ASSUME ServiceInit PROVE ShapingInv
    OBVIOUS
  <2>2. IInv
    BY <2>1, InitInv DEF ServiceInit
  <2>3. Clocks /\ Excess
    BY <2>1, BucketNsType DEF ServiceInit, Init, Clocks, Excess
  <2>4. QED
    BY <2>2, <2>3 DEF ShapingInv
<1>2. ShapingInv /\ [ServiceNext]_serviceVars => ShapingInv'
  <2>1. SUFFICES ASSUME ShapingInv, [ServiceNext]_serviceVars PROVE ShapingInv'
    OBVIOUS
  <2>2. [Next]_vars /\ [Pay]_debt
    BY <2>1 DEF ServiceNext, serviceVars
  <2>3. IInv'
    BY <2>1, <2>2, NextInv DEF ShapingInv
  <2>4. CASE Transmit /\ Pay
    BY <2>1, <2>3, <2>4, TransmitExcess DEF ShapingInv
  <2>5. CASE ~ Transmit
    BY <2>1, <2>2, <2>3, <2>5, OtherStepsExcess DEF ShapingInv
  <2>6. CASE UNCHANGED serviceVars
    <3>1. ~ Transmit
      <4>1. SUFFICES ASSUME Transmit PROVE FALSE
        OBVIOUS
      <4>2. qlen' = qlen - 1 /\ qlen' = qlen /\ qlen \in Int
        BY <2>1, <2>6, <4>1 DEF serviceVars, Transmit, vars, fifoVars, ShapingInv, IInv, TypeOK
      <4>3. QED
        BY <4>2
    <3>2. QED
      BY <2>5, <3>1
  <2>7. QED
    BY <2>1, <2>4, <2>5, <2>6 DEF ServiceNext
<1>3. QED
  BY <1>1, <1>2, PTL DEF ServiceSpec

\* Over any interval the packets sent by sch_dwrr take no longer at the configured
\* rate than the length of the interval and twice the bucket.
THEOREM RateConforms == ServiceSpec => []RateConformance
<1>1. ShapingInv => RateConformance
  <2>1. SUFFICES ASSUME ShapingInv PROVE RateConformance
    OBVIOUS
  <2>2. tokens \in Nat /\ debt \in Nat /\ debt + tokens <= 2 * BucketNs
    BY <2>1, BucketNsType DEF ShapingInv, IInv, TypeOK, Excess
  <2>3. QED
    BY <2>2, BucketNsType DEF RateConformance
<1>2. QED
  BY <1>1, ShapingInductive, PTL
-----------------------------------------------------------------------------
\* What is recorded of the arrivals is in step with the FIFOs and, where the scheme
\* reads them, with the time stamps of the packets.
InStep ==
    /\ arrived \in [Queues -> Seq(Nat)]
    /\ \A c \in Queues : Len(arrived[c]) = Len(fifo[c])

Stamped ==
    ecn_scheme \in BySojourn =>
        \A c \in Queues : \A i \in 1 .. Len(fifo[c]) : fifo[c][i].tstamp = arrived[c][i]

SojournInv == IInv /\ InStep /\ Stamped

\* A packet is stamped with the time it arrives.
LEMMA AdmitStamps ==
    ASSUME SojournInv, NEW c \in Queues, NEW len \in PktLens, Admit(c, len),
           RecordArrivals, ecn_scheme' = ecn_scheme
    PROVE  InStep' /\ Stamped'
<1>1. PICK pkt \in Packets : /\ pkt.tstamp = IF Sojourn THEN now ELSE 0
                            /\ fifo' = [fifo EXCEPT ![c] = Append(@, pkt)]
  BY AdmitFacts DEF SojournInv
<1>2. /\ fifo \in [Queues -> Seq(Packets)] /\ now \in Nat
      /\ arrived \in [Queues -> Seq(Nat)] /\ \A d \in Queues : Len(arrived[d]) = Len(fifo[d])
  BY DEF SojournInv, IInv, TypeOK, InStep
<1>3. \A d \in Queues : fifo[d] \in Seq(Packets) /\ arrived[d] \in Seq(Nat)
  BY <1>2
<1>4. \A d \in Queues : Len(fifo[d]) \in Nat
  BY <1>3, LenProperties
<1>5. fifo'[c] = Append(fifo[c], pkt) /\ \A d \in Queues : d # c => fifo'[d] = fifo[d]
  BY <1>1, <1>2
<1>6. Len(fifo'[c]) = Len(fifo[c]) + 1
  BY <1>3, <1>5, AppendProperties
<1>7. Entered(c) /\ \A d \in Queues : d # c => ~ Entered(d) /\ ~ Left(d)
  BY <1>4, <1>5, <1>6 DEF Entered, Left
<1>8. arrived' = [arrived EXCEPT ![c] = Append(@, now)]
  BY <1>2, <1>7 DEF RecordArrivals
<1>9. arrived'[c] = Append(arrived[c], now) /\ \A d \in Queues : d # c => arrived'[d] = arrived[d]
  BY <1>2, <1>8
<1>10. arrived'[c] \in Seq(Nat) /\ Len(arrived'[c]) = Len(arrived[c]) + 1
  BY <1>2, <1>3, <1>9, AppendProperties
<1>11. InStep'
  BY <1>2, <1>5, <1>6, <1>8, <1>9, <1>10 DEF InStep
<1>12. ASSUME ecn_scheme \in BySojourn, NEW d \in Queues, NEW i \in 1 .. Len(fifo'[d])
       PROVE  fifo'[d][i].tstamp = arrived'[d][i]
  <2>1. \A j \in 1 .. Len(fifo[d]) : fifo[d][j].tstamp = arrived[d][j]
    BY <1>12 DEF SojournInv, Stamped
  <2>2. CASE d # c
    BY <1>5, <1>9, <1>12, <2>1, <2>2
  <2>3. CASE d = c /\ i <= Len(fifo[c])
    <3>1. i \in 1 .. Len(fifo[c])
      BY <1>4, <1>6, <1>12, <2>3
    <3>2. fifo'[c][i] = fifo[c][i] /\ arrived'[c][i] = arrived[c][i]
      BY <1>2, <1>3, <1>5, <1>9, <3>1, AppendProperties
    <3>3. QED
      BY <2>1, <2>3, <3>1, <3>2
  <2>4. CASE d = c /\ i = Len(fifo[c]) + 1
    <3>1. fifo'[c][i] = pkt /\ arrived'[c][i] = now
      BY <1>2, <1>3, <1>5, <1>9, <2>4, AppendProperties
    <3>2. Sojourn
      BY <1>12 DEF Sojourn, BySojourn
    <3>3. QED
      BY <1>1, <2>4, <3>1, <3>2
  <2>5. QED
    BY <1>4, <1>6, <1>12, <2>2, <2>3, <2>4
<1>13. QED
  BY <1>11, <1>12 DEF Stamped

\* A packet leaves together with the record of its arrival.
LEMMA TransmitStamps ==
    ASSUME SojournInv, Transmit, RecordArrivals, ecn_scheme' = ecn_scheme
    PROVE  InStep' /\ Stamped'
<1> DEFINE c == HeadClass
<1>1. deq # NoDequeue /\ fifo' = [fifo EXCEPT ![c] = Tail(@)]
  BY DEF Transmit, InTurn
<1>2. c \in Queues /\ fifo[c] # <<>>
  BY <1>1, HeadFacts DEF SojournInv
<1> HIDE DEF c
<1>3. /\ fifo \in [Queues -> Seq(Packets)]
      /\ arrived \in [Queues -> Seq(Nat)] /\ \A d \in Queues : Len(arrived[d]) = Len(fifo[d])
  BY DEF SojournInv, IInv, TypeOK, InStep
<1>4. \A d \in Queues : fifo[d] \in Seq(Packets) /\ arrived[d] \in Seq(Nat)
  BY <1>3
<1>5. \A d \in Queues : Len(fifo[d]) \in Nat
  BY <1>4, LenProperties
<1>6. fifo'[c] = Tail(fifo[c]) /\ \A d \in Queues : d # c => fifo'[d] = fifo[d]
  BY <1>1, <1>2, <1>3
<1>7. /\ Len(fifo'[c]) = Len(fifo[c]) - 1
      /\ \A i \in 1 .. Len(fifo[c]) - 1 : fifo'[c][i] = fifo[c][i + 1]
  BY <1>2, <1>4, <1>6, HeadTailProperties
<1>8. Left(c) /\ ~ Entered(c) /\ \A d \in Queues : d # c => ~ Entered(d) /\ ~ Left(d)
  BY <1>2, <1>5, <1>6, <1>7 DEF Entered, Left
<1>9. arrived' = [arrived EXCEPT ![c] = Tail(@)]
  BY <1>3, <1>8 DEF RecordArrivals
<1>10. arrived'[c] = Tail(arrived[c]) /\ \A d \in Queues : d # c => arrived'[d] = arrived[d]
  BY <1>2, <1>3, <1>9
<1>11. arrived[c] # <<>>
  <2>1. Len(fifo[c]) # 0
    BY <1>2, <1>4, EmptySeq
  <2>2. QED
    BY <1>2, <1>3, <2>1
<1>12. /\ arrived'[c] \in Seq(Nat) /\ Len(arrived'[c]) = Len(arrived[c]) - 1
       /\ \A i \in 1 .. Len(arrived[c]) - 1 : arrived'[c][i] = arrived[c][i + 1]
  BY <1>2, <1>4, <1>10, <1>11, HeadTailProperties
<1>13. InStep'
  BY <1>2, <1>3, <1>6, <1>7, <1>9, <1>10, <1>12 DEF InStep
<1>14. ASSUME ecn_scheme \in BySojourn, NEW d \in Queues, NEW i \in 1 .. Len(fifo'[d])
       PROVE  fifo'[d][i].tstamp = arrived'[d][i]
  <2>1. \A j \in 1 .. Len(fifo[d]) : fifo[d][j].tstamp = arrived[d][j]
    BY <1>14 DEF SojournInv, Stamped
  <2>2. CASE d # c
    BY <1>6, <1>10, <1>14, <2>1, <2>2
  <2>3. CASE d = c
    <3>1. i \in 1 .. Len(fifo[c]) - 1 /\ i + 1 \in 1 .. Len(fifo[c])
      BY <1>2, <1>5, <1>7, <1>14, <2>3
    <3>2. fifo'[c][i] = fifo[c][i + 1] /\ arrived'[c][i] = arrived[c][i + 1]
      BY <1>2, <1>3, <1>7, <1>12, <3>1
    <3>3. QED
      BY <2>1, <2>3, <3>1, <3>2
  <2>4. QED
    BY <2>2, <2>3
<1>15. QED
  BY <1>13, <1>14 DEF Stamped

LEMMA SojournStep ==
    SojournInv /\ [ServiceNext /\ KeepsKind]_serviceVars => SojournInv'
<1>1. SUFFICES ASSUME SojournInv, [ServiceNext /\ KeepsKind]_serviceVars PROVE SojournInv'
  OBVIOUS
<1>2. CASE UNCHANGED serviceVars
  BY <1>1, <1>2, NextInv
     DEF SojournInv, InStep, Stamped, serviceVars, vars, fifoVars, sysctlVars
<1>3. ASSUME Next, RecordArrivals, KeepsKind PROVE SojournInv'
  <2>1. IInv'
    BY <1>1, <1>3, NextInv DEF SojournInv
  <2>2. CASE Transmit
    <3>1. ecn_scheme' = ecn_scheme
      BY <2>2 DEF Transmit, sysctlVars
    <3>2. QED
      BY <1>1, <1>3, <2>1, <2>2, <3>1, TransmitStamps DEF SojournInv
  <2>3. CASE \E dscp \in Dscps, len \in PktLens :
                 Enqueue(dscp, len) /\ Admit(Classify(dscp), len)
    <3>1. PICK dscp \in Dscps, len \in PktLens :
                 Enqueue(dscp, len) /\ Admit(Classify(dscp), len)
      BY <2>3
    <3>2. ecn_scheme' = ecn_scheme /\ Classify(dscp) \in Queues
      BY <3>1, ClassifyType DEF Enqueue, sysctlVars
    <3>3. QED
      BY <1>1, <1>3, <2>1, <3>1, <3>2, AdmitStamps DEF SojournInv
  <2>4. CASE fifo' = fifo
    <3>1. arrived \in [Queues -> Seq(Nat)] /\ fifo \in [Queues -> Seq(Packets)]
      BY <1>1 DEF SojournInv, IInv, TypeOK, InStep
    <3>2. \A c \in Queues : ~ Entered(c) /\ ~ Left(c)
      <4>1. ASSUME NEW c \in Queues PROVE Len(fifo[c]) \in Nat
        BY <3>1, LenProperties
      <4>2. QED
        BY <2>4, <4>1 DEF Entered, Left
    <3>3. arrived' = arrived
      BY <1>3, <3>1, <3>2 DEF RecordArrivals
    <3>4. InStep' /\ Stamped'
      BY <1>1, <1>3, <2>4, <3>3 DEF SojournInv, InStep, Stamped, KeepsKind
    <3>5. QED
      BY <2>1, <3>4 DEF SojournInv
  <2>5. QED
    BY <1>3, <2>2, <2>3, <2>4, FifoSteps
<1>4. QED
  BY <1>1, <1>2, <1>3 DEF ServiceNext

\* CoDel and TCN mark a packet only for its sojourn time.
LEMMA MarkedForDelay ==
    ASSUME IInv, Transmit, ecn_scheme \in BySojourn, wire'.ce, ~ HeadPacket.ce
    PROVE  LET delay == CodelTime(now - HeadPacket.tstamp)
           IN  IF ecn_scheme = "tcn" THEN delay > TcnThresh ELSE delay >= CodelTarget
<1> DEFINE c     == HeadClass
           left  == len_bytes[c] - HeadSize
           mark  == DequeueMark(c, HeadPacket, left)
           delay == CodelTime(now - HeadPacket.tstamp)
<1>1. wire' = [queue |-> c, prio |-> deq.prio, size |-> HeadSize, at |-> deq.now,
               ce |-> HeadPacket.ce \/ mark]
  BY DEF Transmit
<1> HIDE DEF mark
<1>2. mark
  <2>1. wire'.ce = (HeadPacket.ce \/ mark)
    BY <1>1
  <2>2. QED
    BY <2>1
<1>3. delay \in CodelTimes
  <2>1. deq # NoDequeue
    BY DEF Transmit, InTurn
  <2>2. HeadPacket \in Packets /\ now \in Nat
    BY <2>1, HeadFacts DEF IInv, TypeOK
  <2>3. HeadPacket.tstamp \in Nat
    BY <2>2 DEF Packets
  <2>4. now - HeadPacket.tstamp \in Int
    BY <2>2, <2>3
  <2>5. QED
    BY <2>4, CodelTimeType
<1>4. CASE ecn_scheme = "tcn"
  <2>1. CodelAfter(delay, TcnThresh)
    BY <1>2, <1>4 DEF mark, DequeueMark, TcnMark
  <2> HIDE DEF delay
  <2>2. TcnThresh \in Nat /\ 2 * TcnThresh < U32
    BY DwrrAssumption
  <2>3. delay > TcnThresh
    BY <1>3, <2>1, <2>2, DelayAbove
  <2>4. QED
    BY <1>4, <2>3 DEF delay
<1>5. CASE ecn_scheme = "codel"
  <2>1. CodelMark(codel[c], HeadPacket.tstamp, left, now).ce
    BY <1>2, <1>5 DEF mark, DequeueMark
  <2>2. ShouldMark(codel[c], delay, left, CodelTime(now))
    BY <2>1 DEF CodelMark
  <2>3. ~ CodelAfter(CodelTarget, delay)
    BY <2>2 DEF ShouldMark, BelowTarget
  <2> HIDE DEF delay
  <2>4. CodelTarget \in Nat /\ 2 * CodelTarget < U32
    BY CodelAssumption DEF U32
  <2>5. delay >= CodelTarget
    BY <1>3, <2>3, <2>4, DelayAbove
  <2>6. QED
    BY <1>5, <2>5 DEF delay
<1>6. QED
  BY <1>4, <1>5 DEF BySojourn

\* A packet that TCN or CoDel marks has waited as long as they say, counted from its
\* arrival and not from what its stamp may hold: as long as the scheme is not switched
\* between those that set the stamps and those that do not.
THEOREM SojournMarksCorrect == TimedService => SojournMarksTrue
<1>1. ServiceInit => SojournInv
  <2>1. SUFFICES ASSUME ServiceInit PROVE SojournInv
    OBVIOUS
  <2>2. IInv
    BY <2>1, InitInv DEF ServiceInit
  <2>3. fifo = [c \in Queues |-> <<>>] /\ arrived = [c \in Queues |-> <<>>]
    BY <2>1 DEF ServiceInit, Init
  <2>4. QED
    BY <2>2, <2>3 DEF SojournInv, InStep, Stamped
<1>2. SojournInv /\ [ServiceNext /\ KeepsKind]_serviceVars =>
        [\A c \in Queues :
             ecn_scheme \in BySojourn /\ Left(c) /\ wire'.ce /\ ~ Head(fifo[c]).ce =>
                 LET delay == CodelTime(now - Head(arrived[c]))
                 IN  IF ecn_scheme = "tcn" THEN delay > TcnThresh
                                           ELSE delay >= CodelTarget]_serviceVars
  <2>1. SUFFICES ASSUME SojournInv, ServiceNext, NEW c \in Queues,
                        ecn_scheme \in BySojourn, Left(c), wire'.ce, ~ Head(fifo[c]).ce
                 PROVE  LET delay == CodelTime(now - Head(arrived[c]))
                        IN  IF ecn_scheme = "tcn" THEN delay > TcnThresh
                                                  ELSE delay >= CodelTarget
    OBVIOUS
  <2>2. Transmit /\ c = HeadClass
    BY <2>1, DepartureIsTransmit DEF ServiceNext, Left, SojournInv
  <2>3. HeadPacket = Head(fifo[c])
    BY <2>2 DEF HeadPacket
  <2>4. Head(arrived[c]) = HeadPacket.tstamp
    <3>1. deq # NoDequeue
      BY <2>2 DEF Transmit, InTurn
    <3>2. fifo[c] \in Seq(Packets) /\ fifo[c] # <<>>
      BY <2>1, <2>2, <3>1, HeadFacts DEF SojournInv
    <3>3. arrived[c] \in Seq(Nat) /\ Len(arrived[c]) = Len(fifo[c])
      BY <2>1 DEF SojournInv, InStep
    <3>4. 1 \in 1 .. Len(fifo[c]) /\ Head(fifo[c]) = fifo[c][1] /\ Head(arrived[c]) = arrived[c][1]
      BY <3>2, <3>3
    <3>5. QED
      BY <2>1, <2>3, <3>4 DEF SojournInv, Stamped
  <2>5. QED
    BY <2>1, <2>2, <2>3, <2>4, MarkedForDelay DEF SojournInv
<1>3. QED
  BY <1>1, <1>2, SojournStep, PTL DEF TimedService, SojournMarksTrue
-----------------------------------------------------------------------------
(***************************************************************************)
(* The root of the control law: one Newton iteration keeps it positive and *)
(* not above 1 / sqrt(count), in fixed point and without overflow.         *)
(***************************************************************************)
\* Facts of arithmetic, each for itself: the provers find them only apart.
LEMMA TimesMonotone ==
    \A a, b, c \in Nat : a <= b => a * c <= b * c
OBVIOUS

LEMMA TimesStrict ==
    \A a, b, c \in Nat : a < b /\ c > 0 => a * c < b * c
OBVIOUS

LEMMA TimesNat == \A a, b \in Nat : a * b \in Nat
OBVIOUS

LEMMA TimesCancel ==
    \A a, b, c \in Nat : a * c <= b * c /\ c > 0 => a <= b
<1>1. SUFFICES ASSUME NEW a \in Nat, NEW b \in Nat, NEW c \in Nat, a * c <= b * c, c > 0, b < a
               PROVE  FALSE
  OBVIOUS
<1>2. b * c < a * c
  BY <1>1, TimesStrict
<1>3. b * c \in Nat /\ a * c \in Nat
  BY TimesNat
<1>4. QED
  BY <1>1, <1>2, <1>3

\* The quotient of naturals.
LEMMA Quotient ==
    ASSUME NEW a \in Nat, NEW b \in Nat \ {0}
    PROVE  /\ a \div b \in Nat
           /\ (a \div b) * b <= a
           /\ a < (a \div b) * b + b
OBVIOUS

LEMMA QuotientAtLeast ==
    ASSUME NEW a \in Nat, NEW b \in Nat \ {0}, NEW k \in Nat, k * b <= a
    PROVE  k <= a \div b
<1> DEFINE q == a \div b
<1>1. q \in Nat /\ a < q * b + b
  BY Quotient
<1> HIDE DEF q
<1>2. SUFFICES ASSUME q + 1 <= k PROVE FALSE
  BY <1>1 DEF q
<1>3. (q + 1) * b <= k * b
  BY <1>1, <1>2, TimesMonotone
<1>4. (q + 1) * b = q * b + b /\ k * b \in Nat /\ q * b \in Nat
  BY <1>1, TimesNat
<1>5. QED
  BY <1>1, <1>3, <1>4

LEMMA QuotientExact ==
    ASSUME NEW k \in Nat, NEW b \in Nat \ {0}
    PROVE  (k * b) \div b = k
<1> DEFINE a == k * b
           q == a \div b
<1>1. a \in Nat
  BY TimesNat
<1> HIDE DEF a
<1>2. q \in Nat /\ q * b <= a /\ k <= q
  BY <1>1, Quotient, QuotientAtLeast DEF a
<1> HIDE DEF q
<1>3. q <= k
  BY <1>2, TimesCancel DEF a
<1>4. QED
  BY <1>2, <1>3 DEF q, a

\* The map of the iteration, y = count * root ^ 2 in units of u: its value is at most u.
LEMMA NewtonBound ==
    ASSUME NEW u \in Nat, NEW y \in Nat, NEW d \in Nat, y + d = 3 * u
    PROVE  d * d * y <= 4 * u * u * u
<1>1. CASE y <= u
  <2>1. PICK e \in Nat : u = y + e
    <3>1. u - y \in Nat /\ u = y + (u - y)
      BY <1>1
    <3>2. QED
      BY <3>1
  <2>2. d = 2 * y + 3 * e
    BY <2>1
  <2>3. 4 * u * u * u = d * d * y + (3 * y + 4 * e) * e * e
    BY <2>1, <2>2
  <2>4. (3 * y + 4 * e) * e * e \in Nat
    BY <2>1, TimesNat
  <2>5. d * d * y \in Nat
    BY TimesNat
  <2>6. QED
    BY <2>3, <2>4, <2>5
<1>2. CASE u < y
  <2>1. PICK e \in Nat : y = u + e
    <3>1. y - u \in Nat /\ y = u + (y - u)
      BY <1>2
    <3>2. QED
      BY <3>1
  <2>2. d + e = 2 * u
    BY <2>1
  <2>3. u + d + d + e \in Nat /\ 4 * u - y = u + d
    BY <2>1, <2>2
  <2>4. 4 * u * u * u = d * d * y + (u + d) * e * e
    <3>1. d = 2 * u - e
      BY <2>1, <2>2
    <3>2. QED
      BY <2>1, <3>1
  <2>5. (u + d) * e * e \in Nat /\ d * d * y \in Nat
    BY <2>1, TimesNat
  <2>6. QED
    BY <2>4, <2>5
<1>3. QED
  BY <1>1, <1>2

\* What the fixed-point computation of codel_Newton_step comes to, when nothing in it
\* overflows: d stands for 3 - count * root ^ 2, in units of U32.
LEMMA NewtonValue ==
    ASSUME NEW n \in CodelTimes, NEW r \in 1 .. SqrtUnit - 1, NEW d \in Nat,
           n * r * r + d = 3 * U32
    PROVE  NewtonStep(n, r) =
             ((((d \div 4) * (r * SqrtUnit)) \div (U32 \div 2)) \div SqrtUnit) % SqrtUnit
<1> DEFINE s == SqrtUnit
           u == U32
           invsqrt  == r * s
           invsqrt2 == (invsqrt * invsqrt) \div u
           val      == ((3 * u - n * invsqrt2) % U64) \div 4
<1>1. s \in Nat \ {0} /\ u \in Nat \ {0} /\ u = s * s /\ U64 = u * u /\ s > 1
  BY WidthsPositive, CodelAssumption DEF U32, U64
<1>2. n \in Nat /\ r \in Nat /\ r < s
  BY <1>1, ReducedFits
<1> HIDE DEF s, u
<1>3. u >= 4
  <2>1. 2 * s <= s * s /\ 2 * 2 <= s * 2
    BY <1>1, TimesMonotone
  <2>2. QED
    BY <1>1, <2>1
<1>4. invsqrt2 = r * r
  <2>1. invsqrt * invsqrt = (r * r) * u
    BY <1>1, <1>2
  <2>2. r * r \in Nat
    BY <1>2, TimesNat
  <2>3. ((r * r) * u) \div u = r * r
    BY <1>1, <2>2, QuotientExact
  <2>4. QED
    BY <2>1, <2>3
<1> HIDE DEF invsqrt2
<1>5. 3 * u - n * invsqrt2 = d
  <2>1. n * invsqrt2 = n * r * r
    BY <1>2, <1>4
  <2>2. n * r * r \in Nat
    BY <1>2, TimesNat
  <2>3. n * r * r + d = 3 * u
    BY DEF u
  <2>4. QED
    BY <1>1, <2>1, <2>2, <2>3
<1>6. d <= 3 * u
  <2>1. n * r * r \in Nat
    BY <1>2, TimesNat
  <2>2. n * r * r + d = 3 * u
    BY DEF u
  <2>3. QED
    BY <1>1, <2>1, <2>2
<1>7. U64 \in Nat \ {0} /\ 4 * u <= U64
  BY <1>1, <1>3, TimesMonotone, TimesNat, WidthsPositive
<1>8. d % U64 = d
  <2>1. d \in 0 .. U64 - 1
    BY <1>1, <1>6, <1>7
  <2>2. QED
    BY <1>7, <2>1, Remainders
<1>9. val = d \div 4
  BY <1>5, <1>8
<1> HIDE DEF val
<1>10. (val * invsqrt) % U64 = val * invsqrt
  <2> DEFINE e == d \div 4
  <2>1. e \in Nat /\ e * 4 <= d
    BY Quotient
  <2> HIDE DEF e
  <2>2. e < u
    BY <1>1, <1>6, <2>1
  <2>3. invsqrt \in Nat /\ invsqrt < u
    BY <1>1, <1>2, TimesNat, TimesStrict
  <2> HIDE DEF invsqrt
  <2>4. e * invsqrt \in Nat /\ e * invsqrt <= u * invsqrt
    BY <1>1, <2>1, <2>2, <2>3, TimesMonotone, TimesNat
  <2>5. u * invsqrt \in Nat /\ u * invsqrt = invsqrt * u /\ invsqrt * u < u * u
    BY <1>1, <2>3, TimesNat, TimesStrict
  <2>6. e * invsqrt \in 0 .. U64 - 1
    BY <1>1, <1>7, <2>4, <2>5
  <2>7. (e * invsqrt) % U64 = e * invsqrt
    BY <1>7, <2>6, Remainders
  <2>8. QED
    BY <1>9, <2>7 DEF e
<1>11. NewtonStep(n, r) = ((((val * invsqrt) % U64) \div (u \div 2)) \div s) % s
  BY DEF NewtonStep, val, invsqrt2, invsqrt, u, s
<1>12. QED
  BY <1>9, <1>10, <1>11 DEF u, s, invsqrt

\* From a root that is positive and at most 1 / sqrt(count - 1), the iteration for count
\* gives one that is positive and at most 1 / sqrt(count).
LEMMA NewtonRoot ==
    ASSUME NEW n \in CodelTimes, n > 1, NEW r \in 1 .. SqrtUnit - 1,
           n * r * r <= U32 + r * r
    PROVE  NewtonStep(n, r) > 0 /\ n * NewtonStep(n, r) * NewtonStep(n, r) <= U32
<1> DEFINE s == SqrtUnit
           u == U32
           y == n * r * r
           d == 3 * u - y
           e == d \div 4
           q == (e * (r * s)) \div (u \div 2)
           t == q \div s
<1>1. /\ s \in Nat \ {0} /\ u \in Nat \ {0} /\ u = s * s /\ s > 1
      /\ n \in Nat /\ n < u /\ r \in Nat /\ 1 <= r /\ r <= s - 1
  BY WidthsPositive, CodelAssumption, ReducedFits DEF U32, CodelTimes
<1>2. PICK h \in Nat \ {0} : s = 2 * h
  <2>1. s % 2 = 0
    BY CodelAssumption
  <2> HIDE DEF s
  <2>2. s = 2 * (s \div 2) /\ s \div 2 \in Nat \ {0}
    BY <1>1, <2>1
  <2>3. QED
    BY <2>2
<1>3. y \in Nat /\ r * r \in Nat /\ r * r + s <= s * r + 1 /\ s * r + s <= u
  <2> HIDE DEF s, u
  <2>1. y \in Nat /\ r * r \in Nat /\ s * r \in Nat /\ r * s = s * r
    BY <1>1, TimesNat
  <2>2. (r + 1) * s <= s * s /\ (r + 1) * s = r * s + s
    BY <1>1, TimesMonotone
  <2>3. (s - 1 - r) * (r - 1) \in Nat
    <3>1. s - 1 - r \in Nat /\ r - 1 \in Nat
      BY <1>1
    <3>2. QED
      BY <3>1, TimesNat
  <2>4. (s - 1 - r) * (r - 1) = s * r - s - r * r + 1
    BY <1>1
  <2>5. QED
    BY <1>1, <2>1, <2>2, <2>3, <2>4
<1>4. y <= u + r * r
  BY <1>1 DEF y, u
<1> HIDE DEF s, u, y
<1>5. d \in Nat /\ y + d = 3 * u
  BY <1>1, <1>3, <1>4
<1> HIDE DEF d
<1>6. u \div 2 = h * s /\ h * s \in Nat \ {0}
  <2>1. u = (h * s) * 2 /\ h * s \in Nat
    BY <1>1, <1>2, TimesNat
  <2>2. h * s \in Nat \ {0}
    BY <1>1, <2>1
  <2> DEFINE k == h * s
  <2> HIDE DEF k
  <2>3. k \in Nat /\ u = k * 2 => u \div 2 = k
    OBVIOUS
  <2>4. QED
    BY <2>1, <2>2, <2>3 DEF k
<1>7. e \in Nat /\ e * 4 <= d /\ d < e * 4 + 4
  BY <1>5, Quotient
<1> HIDE DEF e
<1>8. e * (r * s) \in Nat
  BY <1>1, <1>7, TimesNat
<1>9. q \in Nat /\ q * (h * s) <= e * (r * s)
  BY <1>6, <1>8, Quotient
<1>10. ASSUME s * (h * s) <= e * (r * s)
       PROVE  s <= q
  BY <1>1, <1>6, <1>8, <1>10, QuotientAtLeast
<1> HIDE DEF q
<1>11. t \in Nat /\ t * s <= q /\ (s <= q => 1 <= t)
  <2>1. t \in Nat /\ t * s <= q
    BY <1>1, <1>9, Quotient
  <2>2. ASSUME s <= q PROVE 1 <= t
    BY <1>1, <1>9, <2>2, QuotientAtLeast
  <2>3. QED
    BY <2>1, <2>2
<1> HIDE DEF t
<1>12. t * u <= 2 * (e * r)
  <2>1. (t * s) * (h * s) <= q * (h * s)
    BY <1>1, <1>6, <1>9, <1>11, TimesMonotone, TimesNat
  <2>2. (t * s) * (h * s) \in Nat /\ q * (h * s) \in Nat
    BY <1>1, <1>6, <1>9, <1>11, TimesNat
  <2>3. (t * s) * (h * s) <= e * (r * s)
    BY <1>8, <1>9, <2>1, <2>2
  <2>4. (t * s) * (h * s) = (t * (s * h)) * s /\ e * (r * s) = (e * r) * s
    BY <1>1, <1>2, <1>7, <1>11
  <2>5. t * (s * h) \in Nat /\ e * r \in Nat
    BY <1>1, <1>2, <1>7, <1>11, TimesNat
  <2>6. t * (s * h) <= e * r
    BY <1>1, <2>3, <2>4, <2>5, TimesCancel
  <2>7. t * u = 2 * (t * (s * h))
    BY <1>1, <1>2, <1>11
  <2>8. QED
    BY <2>5, <2>6, <2>7
<1>13. 2 * (t * u) <= d * r
  <2>1. (e * 4) * r <= d * r
    BY <1>1, <1>5, <1>7, TimesMonotone
  <2>2. (e * 4) * r = 4 * (e * r) /\ e * r \in Nat /\ t * u \in Nat /\ d * r \in Nat
    BY <1>1, <1>5, <1>7, <1>11, TimesNat
  <2>3. QED
    BY <1>12, <2>1, <2>2
<1>14. n * t * t <= u
  <2> DEFINE a == 2 * (t * u)
             b == d * r
  <2>1. a \in Nat /\ b \in Nat /\ a <= b
    BY <1>1, <1>5, <1>11, <1>13, TimesNat
  <2>2. a * a <= b * b
    <3> HIDE DEF a, b
    <3>1. a * a <= b * a /\ a * b <= b * b /\ a * b = b * a
      BY <2>1, TimesMonotone
    <3>2. a * a \in Nat /\ b * b \in Nat /\ a * b \in Nat
      BY <2>1, TimesNat
    <3>3. QED
      BY <3>1, <3>2
  <2>3. (a * a) * n <= (b * b) * n
    <3>1. a * a \in Nat /\ b * b \in Nat
      BY <2>1, TimesNat
    <3>2. QED
      BY <1>1, <2>2, <3>1, TimesMonotone
  <2>4. (b * b) * n = d * d * y
    BY <1>1, <1>5 DEF y
  <2>5. (a * a) * n = (n * t * t) * (4 * u * u)
    BY <1>1, <1>11
  <2>6. d * d * y <= u * (4 * u * u)
    <3>1. d * d * y <= 4 * u * u * u
      BY <1>1, <1>3, <1>5, NewtonBound
    <3>2. 4 * u * u * u = u * (4 * u * u)
      BY <1>1
    <3>3. QED
      BY <3>1, <3>2
  <2>7. /\ n * t * t \in Nat /\ 4 * u * u \in Nat /\ 4 * u * u > 0
        /\ d * d * y \in Nat /\ u * (4 * u * u) \in Nat /\ (n * t * t) * (4 * u * u) \in Nat
    <3>1. n * t * t \in Nat /\ d * d * y \in Nat
      BY <1>1, <1>3, <1>5, <1>11, TimesNat
    <3>2. 4 * u \in Nat \ {0} /\ 4 * u * u \in Nat \ {0}
      BY <1>1
    <3>3. QED
      BY <1>1, <3>1, <3>2, TimesNat
  <2>8. (n * t * t) * (4 * u * u) <= u * (4 * u * u)
    BY <2>3, <2>4, <2>5, <2>6, <2>7
  <2>9. QED
    BY <1>1, <2>7, <2>8, TimesCancel
<1>15. t < s
  <2>1. SUFFICES ASSUME s <= t PROVE FALSE
    BY <1>1, <1>11
  <2>2. s * s <= t * s /\ s * t <= t * t /\ s * t = t * s
    BY <1>1, <1>11, <2>1, TimesMonotone
  <2>3. t * t \in Nat /\ t * s \in Nat
    BY <1>1, <1>11, TimesNat
  <2>4. 2 * (t * t) <= n * (t * t)
    BY <1>1, <2>3, TimesMonotone
  <2>5. n * (t * t) = n * t * t /\ n * (t * t) \in Nat
    BY <1>1, <1>11, <2>3, TimesNat
  <2>6. QED
    BY <1>1, <1>14, <2>2, <2>3, <2>4, <2>5
<1>16. t > 0
  <2>1. e * r \in Nat /\ 2 * (h * s) = u /\ h * s \in Nat
    BY <1>1, <1>2, <1>7, TimesNat
  <2>2. u <= 2 * (e * r)
    <3>1. CASE r = 1
      <4>1. y = n /\ e * r = e
        BY <1>1, <1>7, <3>1 DEF y
      <4>2. 2 * u < d
        BY <1>1, <1>5, <4>1
      <4>3. PICK g \in Nat : u = 4 * g
        <5>1. u = 4 * (h * h) /\ h * h \in Nat
          BY <1>1, <1>2, TimesNat
        <5>2. QED
          BY <5>1
      <4>4. QED
        BY <1>5, <1>7, <4>1, <4>2, <4>3
    <3>2. CASE r >= 2
      <4>1. s >= 3
        BY <1>1, <3>2
      <4>2. r * r + 2 * s <= u + 1
        <5>1. s * r \in Nat
          BY <1>1, TimesNat
        <5>2. QED
          BY <1>1, <1>3, <5>1
      <4>3. u <= e * 4
        BY <1>1, <1>3, <1>4, <1>5, <1>7, <4>1, <4>2
      <4>4. 2 * e <= r * e /\ r * e = e * r
        BY <1>1, <1>7, <3>2, TimesMonotone
      <4>5. QED
        BY <1>1, <1>7, <2>1, <4>3, <4>4
    <3>3. QED
      BY <1>1, <3>1, <3>2
  <2>3. (h * s) * s <= (e * r) * s
    BY <1>1, <2>1, <2>2, TimesMonotone
  <2>4. (h * s) * s = s * (h * s) /\ (e * r) * s = e * (r * s)
    BY <1>1, <1>2, <1>7
  <2>5. QED
    BY <1>1, <1>10, <1>11, <2>3, <2>4
<1>17. NewtonStep(n, r) = t
  <2>1. NewtonStep(n, r) = t % s
    <3>1. n * r * r + d = 3 * U32
      BY <1>5 DEF y, u
    <3>2. NewtonStep(n, r) =
             ((((d \div 4) * (r * SqrtUnit)) \div (U32 \div 2)) \div SqrtUnit) % SqrtUnit
      BY <1>5, <3>1, NewtonValue
    <3>3. QED
      BY <3>2 DEF t, q, e, u, s
  <2>2. t \in 0 .. s - 1
    BY <1>1, <1>11, <1>15
  <2>3. QED
    BY <1>1, <2>1, <2>2, Remainders
<1>18. QED
  BY <1>14, <1>16, <1>17 DEF u

\* The root of a class: positive and at most 1 / sqrt(count) as soon as it has marked.
Rooted(c) ==
    /\ c.lastcount <= c.count
    /\ c.marking => c.count > 0
    /\ c.count > 0 => c.rec_inv_sqrt > 0 /\ c.count * c.rec_inv_sqrt * c.rec_inv_sqrt <= U32

LEMMA FullRootFits == FullRoot > 0 /\ 1 * FullRoot * FullRoot <= U32
<1> DEFINE s == SqrtUnit
<1>1. s \in Nat /\ s > 1 /\ U32 = s * s
  BY CodelAssumption DEF U32
<1>2. (s - 1) * (s - 1) <= s * s
  <2> HIDE DEF s
  <2>1. s * s = (s - 1) * (s - 1) + 2 * s - 1
    BY <1>1
  <2>2. (s - 1) * (s - 1) \in Int
    BY <1>1
  <2>3. QED
    BY <1>1, <2>1, <2>2
<1>3. QED
  BY <1>1, <1>2 DEF FullRoot

\* Every mark leaves the class rooted, as long as the count does not go round.
LEMMA CodelMarkRoot ==
    ASSUME NEW c \in CodelState, Rooted(c),
           NEW tstamp \in Int, NEW len \in Int, NEW now_ns \in Int
    PROVE  LET result == CodelMark(c, tstamp, len, now_ns)
           IN  /\ result.ce => result.class.marking
               /\ Rooted(result.class) \/ (c.count # 0 /\ result.class.count = 0)
<1> DEFINE instant == CodelTime(now_ns)
           delay   == CodelTime(now_ns - tstamp)
           mark    == ShouldMark(c, delay, len, instant)
           seen    == Observe(c, delay, len, instant)
           again   == c.marking /\ mark /\ CodelAfterEq(instant, c.mark_next)
           start   == ~ c.marking /\ mark
           class1  == CodelMark(c, tstamp, len, now_ns).class
           ce      == CodelMark(c, tstamp, len, now_ns).ce
<1>1. /\ seen.count = c.count /\ seen.lastcount = c.lastcount /\ seen.marking = c.marking
      /\ seen.rec_inv_sqrt = c.rec_inv_sqrt
      /\ DOMAIN seen = {"count", "lastcount", "marking", "rec_inv_sqrt",
                        "first_above_time", "mark_next", "ldelay"}
  BY DEF Observe, CodelState
<1>2. /\ class1 = IF again THEN MarkAgain(seen)
                  ELSE IF start THEN StartMarking(seen, instant)
                  ELSE [seen EXCEPT !.marking = mark]
      /\ ce = (again \/ start)
  BY DEF CodelMark
<1>3. /\ c.count \in Nat /\ c.count < U32 /\ c.lastcount \in Nat /\ c.marking \in BOOLEAN
      /\ c.count \in CodelTimes
      /\ c.rec_inv_sqrt \in 0 .. SqrtUnit - 1 /\ U32 \in Nat \ {0}
      /\ SqrtUnit \in Nat
  BY WidthsPositive DEF CodelState, CodelTimes
<1>4. /\ c.lastcount <= c.count
      /\ c.marking => c.count > 0
      /\ c.count > 0 => c.rec_inv_sqrt > 0 /\ c.count * c.rec_inv_sqrt * c.rec_inv_sqrt <= U32
  BY DEF Rooted
<1> HIDE DEF instant, delay, seen, class1, ce, mark
<1>5. CASE again
  <2> DEFINE n == (c.count + 1) % U32
             r == NewtonStep(n, c.rec_inv_sqrt)
             k == c.rec_inv_sqrt
  <2>1. /\ class1.count = n /\ class1.lastcount = c.lastcount /\ class1.marking
        /\ class1.rec_inv_sqrt = r
    <3>1. class1 = MarkAgain(seen)
      BY <1>2, <1>5
    <3>2. /\ MarkAgain(seen).count = n /\ MarkAgain(seen).lastcount = c.lastcount
          /\ MarkAgain(seen).marking = c.marking /\ MarkAgain(seen).rec_inv_sqrt = r
      BY <1>1 DEF MarkAgain
    <3>3. QED
      BY <1>5, <3>1, <3>2
  <2>2. c.count > 0
    BY <1>4, <1>5
  <2>3. CASE c.count + 1 = U32
    <3>1. n = 0
      <4>1. c.count + 1 \in Int /\ U32 <= c.count + 1 /\ c.count + 1 < 2 * U32
        BY <1>3, <2>3
      <4>2. n = c.count + 1 - U32
        BY <1>3, <4>1, Wrapped
      <4>3. QED
        BY <1>3, <2>3, <4>2
    <3>2. QED
      BY <2>1, <2>2, <3>1 DEF class1
  <2>4. CASE c.count + 1 # U32
    <3>1. n = c.count + 1 /\ n \in CodelTimes /\ n > 1
      <4>1. c.count + 1 \in 0 .. U32 - 1
        BY <1>3, <2>4
      <4>2. n = c.count + 1
        BY <1>3, <4>1, Wrapped
      <4>3. QED
        BY <2>2, <1>3, <4>1, <4>2 DEF CodelTimes
    <3> HIDE DEF n
    <3>2. k \in 1 .. SqrtUnit - 1 /\ k \in Nat
      BY <1>3, <1>4, <2>2
    <3>3. n * k * k <= U32 + k * k
      <4>1. n * k * k = c.count * k * k + k * k
        BY <1>3, <3>1, <3>2
      <4>2. c.count * k * k \in Nat /\ k * k \in Nat /\ c.count * k * k <= U32
        BY <1>3, <1>4, <2>2, <3>2, TimesNat
      <4>3. QED
        BY <1>3, <4>1, <4>2
    <3> HIDE DEF k
    <3>4. NewtonStep(n, k) > 0 /\ n * NewtonStep(n, k) * NewtonStep(n, k) <= U32
      BY <3>1, <3>2, <3>3, NewtonRoot
    <3>5. r = NewtonStep(n, k)
      BY DEF k
    <3> HIDE DEF r
    <3>6. Rooted(class1)
      BY <1>3, <1>4, <2>1, <3>1, <3>4, <3>5 DEF Rooted
    <3>7. QED
      BY <2>1, <3>6 DEF class1
  <2>5. QED
    BY <2>3, <2>4
<1>6. CASE ~ again /\ start
  <2> DEFINE delta  == (c.count - c.lastcount) % U32
             resume == /\ delta > 1
                       /\ CodelAfter((CodelInterval * 16) % U32, (instant - seen.mark_next) % U32)
             n == IF resume THEN delta ELSE 1
             r == IF resume THEN NewtonStep(delta, c.rec_inv_sqrt) ELSE FullRoot
             k == c.rec_inv_sqrt
  <2>1. /\ class1.count = n /\ class1.lastcount = n /\ class1.marking
        /\ class1.rec_inv_sqrt = r
    <3>1. class1 = StartMarking(seen, instant)
      BY <1>2, <1>6
    <3>2. /\ StartMarking(seen, instant).count = n /\ StartMarking(seen, instant).lastcount = n
          /\ StartMarking(seen, instant).marking /\ StartMarking(seen, instant).rec_inv_sqrt = r
      BY <1>1 DEF StartMarking
    <3>3. QED
      BY <3>1, <3>2
  <2>2. delta = c.count - c.lastcount /\ delta \in CodelTimes /\ delta \in Nat
    <3>1. c.count - c.lastcount \in 0 .. U32 - 1
      BY <1>3, <1>4
    <3>2. delta = c.count - c.lastcount
      BY <1>3, <3>1, Wrapped
    <3>3. QED
      BY <3>1, <3>2 DEF CodelTimes
  <2> HIDE DEF delta
  <2>3. n > 0 /\ r > 0 /\ n * r * r <= U32
    <3>1. CASE resume
      <4>1. delta > 1 /\ c.count > 0 /\ delta <= c.count
        BY <1>3, <2>2, <3>1
      <4>2. k \in 1 .. SqrtUnit - 1 /\ k \in Nat
        BY <1>3, <1>4, <4>1
      <4>3. delta * k * k <= U32 + k * k
        <5>1. k * k \in Nat /\ c.count * k * k \in Nat /\ delta * k * k \in Nat
          BY <1>3, <2>2, <4>2, TimesNat
        <5>2. delta * (k * k) <= c.count * (k * k)
          BY <1>3, <2>2, <4>1, <5>1, TimesMonotone
        <5>3. delta * (k * k) = delta * k * k /\ c.count * (k * k) = c.count * k * k
          BY <1>3, <2>2, <4>2
        <5>4. c.count * k * k <= U32
          BY <1>4, <4>1
        <5>5. QED
          BY <1>3, <5>1, <5>2, <5>3, <5>4
      <4> HIDE DEF k
      <4>4. NewtonStep(delta, k) > 0 /\ delta * NewtonStep(delta, k) * NewtonStep(delta, k) <= U32
        BY <2>2, <4>1, <4>2, <4>3, NewtonRoot
      <4>5. n = delta /\ r = NewtonStep(delta, k)
        BY <3>1 DEF k
      <4> HIDE DEF n, r
      <4>6. QED
        BY <2>2, <4>1, <4>4, <4>5
    <3>2. CASE ~ resume
      <4>1. n = 1 /\ r = FullRoot
        BY <3>2
      <4>2. QED
        BY <4>1, FullRootFits
    <3>3. QED
      BY <3>1, <3>2
  <2>4. n \in Nat
    BY <2>2
  <2> HIDE DEF n, r
  <2>5. Rooted(class1)
    BY <2>1, <2>3, <2>4 DEF Rooted
  <2>6. QED
    BY <2>1, <2>5 DEF class1
<1>7. CASE ~ again /\ ~ start
  <2>1. class1 = [seen EXCEPT !.marking = mark] /\ ~ ce
    <3> HIDE DEF again, start
    <3>1. ce = (again \/ start) /\ class1 = [seen EXCEPT !.marking = mark]
      BY <1>2, <1>7
    <3>2. QED
      BY <1>7, <3>1, Zenon
  <2>2. /\ class1.count = c.count /\ class1.lastcount = c.lastcount
        /\ class1.rec_inv_sqrt = c.rec_inv_sqrt /\ class1.marking = mark
    BY <1>1, <2>1
  <2>3. mark => c.marking
    BY <1>7
  <2>4. Rooted(class1)
    BY <1>4, <2>2, <2>3 DEF Rooted
  <2>5. QED
    BY <2>1, <2>4 DEF class1, ce
<1>8. QED
  BY <1>5, <1>6, <1>7

-----------------------------------------------------------------------------
(***************************************************************************)
(* CoDel marks only a persistent queue, whatever the widths of its clock   *)
(* and of its fields and however often they wrap (CodelSession).           *)
(***************************************************************************)
SessionType ==
    /\ clock \in Nat /\ cls \in CodelState /\ lastArrival \in Nat
    /\ aboveSince \in Nat \cup {NotAbove} /\ marked \in BOOLEAN /\ wrapped \in BOOLEAN

\* first_above_time is an interval after a dequeue since when, and before, the queue
\* was above the target; it is zero, that is unset, also when the clock wraps to zero
\* just then, and the wait is then the longer.
WaitsSince ==
    cls.first_above_time # 0 =>
        /\ aboveSince # NotAbove
        /\ \E t \in Nat : /\ aboveSince <= t /\ t <= clock
                          /\ cls.first_above_time = (CodelTime(t) + CodelInterval) % U32

SessionInv ==
    /\ SessionType
    /\ aboveSince # NotAbove => aboveSince <= clock
    /\ WaitsSince
    /\ ~ wrapped => Rooted(cls)
    /\ MarksOnlyPersistentQueue

\* CoDel's comparisons on the wrapping clock err on one side only: a delay that is
\* below the target is always seen to be.
LEMMA NotAboveIsSeen ==
    ASSUME NEW delay \in Nat, NEW left, ~ Above(delay, left), left \in Nat
    PROVE  BelowTarget(CodelTime(delay), left)
<1> DEFINE w == U32
           u == CodelUnit
           d == delay \div u
<1>1. w \in Nat \ {0} /\ u \in Nat \ {0} /\ CodelTarget \in Nat /\ 2 * CodelTarget < w
  BY WidthsPositive, CodelAssumption DEF U32
<1>2. CASE left <= MaxPktBytes
  BY <1>2 DEF BelowTarget
<1>3. CASE delay < CodelTarget * u
  <2> HIDE DEF w, u
  <2>1. d \in Nat /\ u * d <= delay
    BY <1>1
  <2> HIDE DEF d
  <2>2. d < CodelTarget
    <3>1. SUFFICES ASSUME CodelTarget <= d PROVE FALSE
      BY <1>1, <2>1
    <3>2. u * CodelTarget <= u * d
      BY <1>1, <2>1, <3>1
    <3>3. u * CodelTarget = CodelTarget * u /\ u * d \in Int /\ CodelTarget * u \in Int
      BY <1>1, <2>1
    <3>4. QED
      BY <1>3, <2>1, <3>2, <3>3
  <2>3. d % w = d
    BY <1>1, <2>1, <2>2, Remainders
  <2>4. (CodelTarget - d) % w = CodelTarget - d
    <3> DEFINE k == CodelTarget - d
    <3>1. k \in Int /\ k \in 0 .. w - 1
      BY <1>1, <2>1, <2>2
    <3> HIDE DEF k
    <3>2. k % w = k
      BY <1>1, <3>1, Remainders
    <3>3. QED
      BY <3>2 DEF k
  <2>5. CodelTime(delay) = d
    BY <2>3 DEF CodelTime, w, u, d
  <2>6. CodelAfter(CodelTarget, d)
    BY <1>1, <2>1, <2>2, <2>4 DEF CodelAfter, w
  <2>7. QED
    BY <2>5, <2>6 DEF BelowTarget
<1>4. QED
  <2>1. MaxPktBytes \in Nat /\ CodelTarget * u \in Int
    BY <1>1, CodelAssumption
  <2>2. QED
    BY <1>2, <1>3, <2>1 DEF Above

LEMMA SessionDequeueInv ==
    ASSUME SessionInv, NEW delay \in Delays, NEW left \in Lefts, SessionDequeue(delay, left)
    PROVE  SessionInv'
<1> DEFINE result == CodelMark(cls, clock - delay, left, clock)
           below  == BelowTarget(CodelTime(delay), left)
           fat    == cls.first_above_time
           fat1   == cls'.first_above_time
<1>1. /\ clock \in Nat /\ cls \in CodelState /\ lastArrival \in Nat
      /\ aboveSince \in Nat \cup {NotAbove} /\ delay \in Nat /\ left \in Nat
  BY SessionAssumption DEF SessionInv, SessionType
<1>2. /\ lastArrival <= clock - delay /\ lastArrival' = clock - delay /\ clock' = clock
      /\ cls' = result.class /\ marked' = result.ce
      /\ aboveSince' = IF ~ Above(delay, left) THEN NotAbove
                       ELSE IF aboveSince = NotAbove THEN clock ELSE aboveSince
  BY DEF SessionDequeue
<1>3. result.class \in CodelState /\ result.ce \in BOOLEAN
  <2>1. clock - delay \in Int /\ left \in Int /\ clock \in Int
    BY <1>1
  <2>2. QED
    BY <1>1, <2>1, CodelMarkType
<1>4. clock - (clock - delay) = delay
  BY <1>1
<1>5. /\ fat1 = IF below THEN 0 ELSE IF fat = 0 THEN (CodelTime(clock) + CodelInterval) % U32 ELSE fat
      /\ marked' => ShouldMark(cls, CodelTime(delay), left, CodelTime(clock))
  BY <1>1, <1>2, <1>4, CodelMarkAbove
<1> HIDE DEF result
<1>6. SessionType'
  <2>1. lastArrival' \in Nat
    BY <1>1, <1>2
  <2>2. aboveSince' \in Nat \cup {NotAbove}
    BY <1>1, <1>2
  <2>3. marked' \in BOOLEAN
    BY <1>2, <1>3, Zenon
  <2>4. wrapped' \in BOOLEAN
    BY Zenon DEF SessionDequeue
  <2>5. QED
    BY <1>1, <1>2, <1>3, <2>1, <2>2, <2>3, <2>4 DEF SessionType
<1>7. aboveSince' # NotAbove => aboveSince' <= clock'
  BY <1>1, <1>2 DEF SessionInv
<1>8. ~ below => Above(delay, left)
  BY <1>1, NotAboveIsSeen
<1> HIDE DEF below, fat, fat1
<1>9. fat # 0 => /\ aboveSince # NotAbove
                 /\ \E t \in Nat : /\ aboveSince <= t /\ t <= clock
                                   /\ fat = (CodelTime(t) + CodelInterval) % U32
  BY DEF SessionInv, WaitsSince, fat
<1>10. ASSUME fat1 # 0
       PROVE  /\ aboveSince' # NotAbove
              /\ \E t \in Nat : /\ aboveSince' <= t /\ t <= clock
                                /\ fat1 = (CodelTime(t) + CodelInterval) % U32
  <2>1. ~ below /\ Above(delay, left)
    BY <1>5, <1>8, <1>10
  <2>2. aboveSince' = IF aboveSince = NotAbove THEN clock ELSE aboveSince
    BY <1>2, <2>1
  <2>3. CASE fat = 0
    <3>1. fat1 = (CodelTime(clock) + CodelInterval) % U32
      BY <1>5, <2>1, <2>3
    <3>2. aboveSince' # NotAbove /\ aboveSince' <= clock
      BY <1>1, <2>2 DEF SessionInv, NotAbove
    <3>3. QED
      BY <1>1, <3>1, <3>2
  <2>4. CASE fat # 0
    BY <1>5, <1>9, <2>1, <2>2, <2>4
  <2>5. QED
    BY <2>3, <2>4
<1>11. WaitsSince'
  BY <1>2, <1>10 DEF WaitsSince, fat1
<1>12. ASSUME marked'
       PROVE  aboveSince' # NotAbove /\ clock - aboveSince' > CodelInterval * CodelUnit
  <2>1. ~ below /\ fat # 0 /\ CodelAfter(CodelTime(clock), fat)
    BY <1>5, <1>12 DEF ShouldMark, below, fat
  <2>2. Above(delay, left) /\ aboveSince # NotAbove /\ aboveSince' = aboveSince
    BY <1>2, <1>8, <1>9, <2>1
  <2>3. PICK t \in Nat : /\ aboveSince <= t /\ t <= clock
                         /\ fat = (CodelTime(t) + CodelInterval) % U32
    BY <1>9, <2>1
  <2>4. clock - t > CodelInterval * CodelUnit
    BY <1>1, <2>1, <2>3, IntervalPassed
  <2>5. CodelInterval * CodelUnit \in Int
    BY CodelAssumption
  <2>6. QED
    BY <1>1, <2>2, <2>3, <2>4, <2>5
<1>13. MarksOnlyPersistentQueue'
  BY <1>2, <1>12 DEF MarksOnlyPersistentQueue
<1>14. ~ wrapped' => Rooted(cls')
  <2>1. wrapped' <=> wrapped \/ (cls.count # 0 /\ result.class.count = 0)
    BY Zenon DEF SessionDequeue, result
  <2>2. SUFFICES ASSUME ~ wrapped' PROVE Rooted(cls')
    OBVIOUS
  <2>3. Rooted(cls) /\ ~ (cls.count # 0 /\ result.class.count = 0)
    BY <2>1, <2>2 DEF SessionInv
  <2>4. clock - delay \in Int /\ left \in Int /\ clock \in Int
    BY <1>1
  <2>5. Rooted(result.class) \/ (cls.count # 0 /\ result.class.count = 0)
    BY <1>1, <2>3, <2>4, CodelMarkRoot DEF result
  <2>6. QED
    BY <1>2, <2>3, <2>5
<1>15. QED
  BY <1>6, <1>7, <1>11, <1>13, <1>14 DEF SessionInv

LEMMA SessionPassInv ==
    ASSUME SessionInv, NEW d \in Steps, Pass(d)
    PROVE  SessionInv'
<1>1. clock \in Nat /\ d \in Nat /\ clock' = clock + d /\ aboveSince \in Nat \cup {NotAbove}
  BY SessionAssumption DEF Pass, SessionInv, SessionType
<1>2. UNCHANGED <<cls, lastArrival, aboveSince, marked, wrapped>>
  BY DEF Pass
<1>3. clock' \in Nat /\ clock <= clock'
  BY <1>1
<1>4. SessionType'
  BY <1>2, <1>3 DEF SessionInv, SessionType
<1>5. aboveSince' # NotAbove => aboveSince' <= clock'
  BY <1>1, <1>2, <1>3 DEF SessionInv
<1>6. WaitsSince'
  BY <1>1, <1>2, <1>3 DEF SessionInv, WaitsSince
<1>7. MarksOnlyPersistentQueue'
  <2>1. CodelInterval * CodelUnit \in Int
    BY CodelAssumption
  <2> DEFINE wait == CodelInterval * CodelUnit
  <2> HIDE DEF wait
  <2>2. marked => aboveSince # NotAbove /\ clock - aboveSince > wait
    BY DEF SessionInv, MarksOnlyPersistentQueue, wait
  <2>3. aboveSince # NotAbove /\ clock - aboveSince > wait => clock' - aboveSince > wait
    BY <1>1, <1>3, <2>1 DEF wait
  <2>4. QED
    BY <1>2, <2>2, <2>3 DEF MarksOnlyPersistentQueue, wait
<1>8. QED
  BY <1>2, <1>4, <1>5, <1>6, <1>7 DEF SessionInv

LEMMA SessionInductive == SessionSpec => []SessionInv
<1>1. SessionInit => SessionInv
  <2>1. SUFFICES ASSUME SessionInit PROVE SessionInv
    OBVIOUS
  <2>2. CodelInit \in CodelState
    BY WidthsPositive DEF CodelInit, CodelState
  <2>3. CodelInit.first_above_time = 0
    BY DEF CodelInit
  <2>4. Rooted(CodelInit)
    BY DEF CodelInit, Rooted
  <2>5. QED
    BY <2>1, <2>2, <2>3, <2>4
       DEF SessionInit, SessionInv, SessionType, WaitsSince, MarksOnlyPersistentQueue
<1>2. SessionInv /\ [SessionNext]_sessionVars => SessionInv'
  <2>1. SUFFICES ASSUME SessionInv, [SessionNext]_sessionVars PROVE SessionInv'
    OBVIOUS
  <2>2. CASE UNCHANGED sessionVars
    BY <2>1, <2>2
       DEF SessionInv, SessionType, WaitsSince, MarksOnlyPersistentQueue, sessionVars
  <2>3. CASE SessionNext
    BY <2>1, <2>3, SessionDequeueInv, SessionPassInv DEF SessionNext
  <2>4. QED
    BY <2>1, <2>2, <2>3
<1>3. QED
  BY <1>1, <1>2, PTL DEF SessionSpec

\* CoDel marks a packet only when every packet dequeued for more than an interval has
\* waited at least the target with a full packet behind it, for any target and interval
\* of less than half the clock, and although the clock and its sums wrap.
THEOREM MarksPersistentOnly == SessionSpec => []MarksOnlyPersistentQueue
<1>1. SessionInv => MarksOnlyPersistentQueue
  BY DEF SessionInv
<1>2. QED
  BY <1>1, SessionInductive, PTL

\* Every mark sets the next one at most an interval ahead of the clock or leaves it
\* overdue, at any width of the clock, the count and the root and however they wrap; and
\* until the count goes round, over any number of marks and resumed periods, the root of
\* the control law stays above zero and at or below 1 / sqrt(count): no underflow or
\* overflow of the Newton iteration puts the marks off or makes every packet one.
THEOREM MarksKeepComing == SessionSpec => NextMarkWithinInterval
<1>1. ASSUME SessionInv, SessionInv', [SessionNext]_sessionVars, sessionVars' # sessionVars,
             clock' = clock, marked'
      PROVE  LET ahead == (cls'.mark_next - CodelTime(clock)) % U32
                 root  == cls'.rec_inv_sqrt
             IN  /\ ahead <= CodelInterval \/ 2 * ahead > U32
                 /\ ~ wrapped' => root > 0 /\ cls'.count * root * root <= U32
  <2>1. clock \in Nat /\ cls \in CodelState
    BY <1>1 DEF SessionInv, SessionType
  <2>2. CASE \E delay \in Delays, left \in Lefts : SessionDequeue(delay, left)
    <3>1. PICK delay \in Delays, left \in Lefts : SessionDequeue(delay, left)
      BY <2>2
    <3>2. clock - delay \in Int /\ left \in Int /\ clock \in Int
      BY <2>1, SessionAssumption
    <3> DEFINE result == CodelMark(cls, clock - delay, left, clock)
    <3>3. cls' = result.class /\ result.ce
      BY <1>1, <3>1 DEF SessionDequeue
    <3>4. LET ahead == (result.class.mark_next - CodelTime(clock)) % U32
          IN  ahead <= CodelInterval \/ 2 * ahead > U32
      BY <2>1, <3>2, <3>3, CodelMarkNext
    <3>5. ASSUME ~ wrapped'
          PROVE  cls'.rec_inv_sqrt > 0 /\ cls'.count * cls'.rec_inv_sqrt * cls'.rec_inv_sqrt <= U32
      <4>1. ~ wrapped
        BY <3>1, <3>5, Zenon DEF SessionDequeue
      <4>2. Rooted(cls) /\ Rooted(cls')
        BY <1>1, <3>5, <4>1 DEF SessionInv
      <4>3. result.ce => result.class.marking
        BY <2>1, <3>2, <4>2, CodelMarkRoot
      <4> HIDE DEF result
      <4>4. cls'.marking
        BY <3>3, <4>3
      <4>5. QED
        BY <4>2, <4>4 DEF Rooted
    <3> HIDE DEF result
    <3>6. QED
      BY <3>3, <3>4, <3>5
  <2>3. CASE \E d \in Steps : Pass(d)
    <3>1. PICK d \in Steps : Pass(d)
      BY <2>3
    <3>2. /\ d \in Nat /\ clock' = clock + d
          /\ UNCHANGED <<cls, lastArrival, aboveSince, marked, wrapped>>
      BY <3>1, SessionAssumption DEF Pass
    <3>3. UNCHANGED sessionVars
      BY <1>1, <3>2 DEF sessionVars
    <3>4. QED
      BY <1>1, <3>3
  <2>4. QED
    BY <1>1, <2>2, <2>3 DEF SessionNext
<1>2. SessionInv /\ SessionInv' /\ [SessionNext]_sessionVars =>
        [clock' = clock /\ marked' =>
             LET ahead == (cls'.mark_next - CodelTime(clock)) % U32
                 root  == cls'.rec_inv_sqrt
             IN  /\ ahead <= CodelInterval \/ 2 * ahead > U32
                 /\ ~ wrapped' => root > 0 /\ cls'.count * root * root <= U32]_sessionVars
  BY <1>1
<1>3. QED
  BY <1>2, SessionInductive, PTL DEF SessionSpec, NextMarkWithinInterval
=============================================================================
