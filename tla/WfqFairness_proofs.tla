------------------------- MODULE WfqFairness_proofs -------------------------
(***************************************************************************)
(* Proofs about sch_wfq, for any number of classes and priorities, any     *)
(* packets and any writes to its parameters: its counters are exact, the   *)
(* finish times of a priority stay together on the circle of virtual       *)
(* times, the classes of a priority are served in proportion to their      *)
(* weights, and the qdisc implements a port of FIFOs in strict priority    *)
(* (PriorityFifos).                                                        *)
(***************************************************************************)
EXTENDS WfqFairness, PortLemmas

\* The virtual time one large packet of every class takes.
Span == NumQueues * MaxShare
-----------------------------------------------------------------------------
\* Times and token counts (l2t_ns, tbf_schedule).
LEMMA L2TType == \A bytes \in Nat : L2T(bytes) \in Nat
BY LengthToTimeType, PortAssumption DEF L2T

LEMMA BucketNsType == BucketNs \in Nat
BY L2TType, PortAssumption DEF BucketNs

LEMMA TbfScheduleType ==
    ASSUME NEW size \in Nat, NEW t \in Int, NEW checkpoint \in Int, NEW time \in Int
    PROVE  TbfSchedule(size, t, checkpoint, time) \in Int
BY L2TType, BucketNsType DEF TbfSchedule, Lesser

LEMMA MaxShareFacts ==
    ASSUME NEW len \in PktLens, NEW c \in Queues, NEW w \in WeightChoices[c]
    PROVE  /\ Share(SkbSize(len), w) \in Nat /\ 1 <= Share(SkbSize(len), w)
           /\ MaxShare \in Nat \ {0} /\ Share(SkbSize(len), w) <= MaxShare
<1> DEFINE W == UNION {WeightChoices[q] : q \in Queues}
<1>1. W \in SUBSET (1 .. MinPktBytes) /\ w \in W
  BY WfqAssumption
<1>2. MaxShare = LargestShare(W)
  BY DEF MaxShare, LargestShare
<1> HIDE DEF W
<1>3. QED
  BY <1>1, <1>2, LargestShareFacts, WfqAssumption

\* What the range of virtual times leaves room for.
WeightsConfigured == \A c \in Queues : queue_weight[c] \in WeightChoices[c]

LEMMA SpanFacts ==
    ASSUME WeightsConfigured
    PROVE  /\ MaxShare \in Nat \ {0} /\ TimeWrap \in Nat \ {0}
           /\ Span \in Nat /\ MaxShare <= Span /\ (NumQueues - 1) * MaxShare = Span - MaxShare
           /\ 2 * MaxShare < TimeWrap /\ 2 * Span <= TimeWrap /\ Span < TimeWrap
<1>1. PICK len \in PktLens : TRUE
  BY WfqAssumption
<1>2. 0 \in Queues
  BY BufferAssumption DEF Queues
<1>3. MaxShare \in Nat \ {0}
  BY <1>1, <1>2, MaxShareFacts DEF WeightsConfigured
<1>4. NumQueues \in Nat \ {0} /\ NumQueues - 1 \in Nat
  BY BufferAssumption
<1>5. (NumQueues - 1) * MaxShare \in Nat /\ Span = (NumQueues - 1) * MaxShare + MaxShare
  BY <1>3, <1>4 DEF Span
<1>6. 2 * NumQueues * MaxShare = 2 * Span
  BY <1>3, <1>4 DEF Span
<1>7. QED
  BY <1>3, <1>5, <1>6, WfqAssumption, WrapAssumption
-----------------------------------------------------------------------------
\* The search of dequeue ends with a contender that lags most, as long as the lags are
\* less than half the range of virtual times.
LEMMA HeadClassFacts ==
    ASSUME Contenders # {}, NEW v \in VirtualTimes,
           \A c \in Contenders : /\ head_fin_time[c] \in VirtualTimes
                                 /\ 2 * Lag(v, head_fin_time[c]) < TimeWrap
    PROVE  /\ HeadClass \in Contenders
           /\ \A d \in Contenders : Lag(v, head_fin_time[d]) <= Lag(v, head_fin_time[HeadClass])
<1> DEFINE Is(f) == f = [c \in Queues \cup {-1} |->
                            IF c = -1 THEN -1
                            ELSE IF /\ c \in Contenders
                                    /\ f[c - 1] = -1
                                         \/ TimeBefore(head_fin_time[c], head_fin_time[f[c - 1]])
                                 THEN c ELSE f[c - 1]]
           best == CHOOSE f : Is(f)
<1>1. NumQueues \in Nat \ {0} /\ NumQueues >= 0 /\ Contenders \in SUBSET (0 .. NumQueues - 1)
  BY BufferAssumption DEF Contenders, Queues
<1>2. HeadClass = best[NumQueues - 1]
  BY DEF HeadClass
<1>3. Queues = 0 .. NumQueues - 1 /\ 0 - 1 = -1
  BY DEF Queues
<1>4. ASSUME NEW f PROVE Is(f) <=> IsSearch(f, 0, NumQueues, Contenders, head_fin_time)
  BY <1>3 DEF IsSearch, Better
<1>5. \E f : IsSearch(f, 0, NumQueues, Contenders, head_fin_time)
  BY <1>1, SearchExists
<1>6. \E f : Is(f)
  BY <1>4, <1>5
<1> HIDE DEF Is
<1>7. Is(best)
  BY <1>6
<1> HIDE DEF best
<1>8. IsSearch(best, 0, NumQueues, Contenders, head_fin_time)
  BY <1>4, <1>7
<1>9. QED
  BY <1>1, <1>2, <1>8, SearchFinds
-----------------------------------------------------------------------------
(***************************************************************************)
(* The inductive invariant: the finish times of a priority are ordered     *)
(* only if the class dequeue takes lags most, which it does only if the    *)
(* counters by which it finds the contenders are exact.                    *)
(***************************************************************************)
Lags(p) == [c \in Queues |-> Lag(virtual_time[p], head_fin_time[c])]

TagsOrdered == \A p \in Prios : Ordered(Backlogged(p), Lags(p), MaxShare)

IInv == TypeOK /\ WeightsConfigured /\ AccountingExact /\ TagsOrdered

LEMMA BackloggedFinite ==
    ASSUME NEW p
    PROVE  /\ IsFiniteSet(Backlogged(p)) /\ Backlogged(p) \subseteq Queues
           /\ Cardinality(Backlogged(p)) \in Nat /\ Cardinality(Backlogged(p)) <= NumQueues
<1>1. NumQueues \in Nat \ {0}
  BY BufferAssumption
<1>2. IsFiniteSet(Queues) /\ Cardinality(Queues) = NumQueues
  BY <1>1, FS_Interval DEF Queues
<1>3. Backlogged(p) \in SUBSET Queues
  BY DEF Backlogged
<1>4. IsFiniteSet(Backlogged(p)) /\ Cardinality(Backlogged(p)) <= NumQueues
  BY <1>2, <1>3, FS_Subset
<1>5. QED
  BY <1>3, <1>4, FS_CardinalityType

\* Lags are naturals, and those of classes with packets leave room for one more packet
\* in half the range of virtual times.
LEMMA LagLimits ==
    ASSUME IInv, NEW p \in Prios
    PROVE  /\ Lags(p) \in [Queues -> Nat] /\ virtual_time[p] \in VirtualTimes
           /\ head_fin_time \in [Queues -> VirtualTimes]
           /\ \A c \in Backlogged(p) : /\ c \in Queues
                                       /\ Lags(p)[c] + MaxShare <= Span
                                       /\ 2 * Lags(p)[c] < TimeWrap
                                       /\ Lags(p)[c] <= (Cardinality(Backlogged(p)) - 1) * MaxShare
<1>1. virtual_time[p] \in VirtualTimes /\ head_fin_time \in [Queues -> VirtualTimes]
  BY DEF IInv, TypeOK
<1>2. Lags(p) \in [Queues -> Nat]
  BY <1>1, LagValue DEF Lags, VirtualTimes
<1>3. ASSUME NEW c \in Backlogged(p)
      PROVE  /\ c \in Queues
             /\ Lags(p)[c] + MaxShare <= Span
             /\ 2 * Lags(p)[c] < TimeWrap
             /\ Lags(p)[c] <= (Cardinality(Backlogged(p)) - 1) * MaxShare
  <2> DEFINE B == Backlogged(p)
             L == Lags(p)
             m == Cardinality(B) - 1
             n == NumQueues - 1
  <2>1. IsFiniteSet(B) /\ B \subseteq Queues /\ Cardinality(B) \in Nat /\ Cardinality(B) <= NumQueues
    BY BackloggedFinite
  <2>2. \A d \in B : L[d] \in Nat
    BY <1>2, <2>1
  <2>3. Ordered(B, L, MaxShare)
    BY DEF IInv, TagsOrdered
  <2>4. /\ MaxShare \in Nat \ {0} /\ Span \in Nat /\ n * MaxShare = Span - MaxShare
        /\ 2 * Span <= TimeWrap /\ TimeWrap \in Nat
    BY SpanFacts DEF IInv
  <2>5. c \in B /\ L[c] \in Nat
    BY <1>3, <2>2
  <2> HIDE DEF B, L
  <2>6. Cardinality(B) \in Nat \ {0} /\ L[c] <= m * MaxShare
    BY <2>1, <2>2, <2>3, <2>4, <2>5, LagBound
  <2>7. m \in Nat /\ n \in Nat /\ m <= n
    BY <2>1, <2>6, BufferAssumption
  <2>8. m * MaxShare <= n * MaxShare /\ m * MaxShare \in Nat
    <3> HIDE DEF m, n
    <3>1. QED
      BY <2>4, <2>7, Products
  <2> HIDE DEF m, n
  <2>9. L[c] + MaxShare <= Span /\ 2 * L[c] < TimeWrap
    BY <2>4, <2>5, <2>6, <2>8
  <2>10. QED
    BY <2>1, <2>5, <2>6, <2>9 DEF B, L, m
<1>4. QED
  BY <1>1, <1>2, <1>3

\* The priorities with bytes counted are those with packets.
LEMMA BusyIff ==
    ASSUME IInv, NEW p \in Prios
    PROVE  /\ prio_len_bytes[p] \in Nat
           /\ prio_len_bytes[p] > 0 <=> Backlogged(p) # {}
           /\ \A c \in Queues : len_bytes[c] # 0 <=> fifo[c] # <<>>
<1> DEFINE f == [c \in Queues |-> IF prio[c] = p THEN len_bytes[c] ELSE 0]
<1>1. fifo \in [Queues -> Seq(Packets)] /\ prio_len_bytes \in [Prios -> Int]
  BY DEF IInv, TypeOK
<1>2. \A c \in Queues : len_bytes[c] = WireBytes(fifo[c])
  BY DEF IInv, AccountingExact, Counted
<1>3. \A c \in Queues : /\ len_bytes[c] \in Nat
                        /\ fifo[c] = <<>> => len_bytes[c] = 0
                        /\ fifo[c] # <<>> => len_bytes[c] > 0
  BY <1>1, <1>2, BytesType
<1>4. prio_len_bytes[p] = Total(f)
  BY <1>1 DEF IInv, AccountingExact, CountedPerPrio
<1>5. \A c \in Queues : prio[c] = p => f[c] = len_bytes[c]
  OBVIOUS
<1>6. \A c \in Queues : prio[c] # p => f[c] = 0
  OBVIOUS
<1>7. f \in [Queues -> Nat] /\ f \in [Queues -> Int]
  <2>1. f = [c \in Queues |-> f[c]]
    OBVIOUS
  <2>2. \A c \in Queues : f[c] \in Nat
    <3> HIDE DEF f
    <3>1. QED
      BY <1>3, <1>5, <1>6
  <2> HIDE DEF f
  <2>3. QED
    BY <2>1, <2>2
<1> HIDE DEF f
<1>8. Total(f) \in Nat /\ \A c \in Queues : f[c] <= Total(f)
  BY <1>7, TotalType
<1>9. ASSUME Backlogged(p) = {} PROVE Total(f) = 0
  <2>1. \A c \in Queues : f[c] = 0
    BY <1>3, <1>5, <1>6, <1>9 DEF Backlogged
  <2>2. QED
    BY <1>7, <2>1, TotalZero
<1>10. ASSUME Backlogged(p) # {} PROVE Total(f) > 0
  <2>1. PICK c \in Queues : fifo[c] # <<>> /\ prio[c] = p
    BY <1>10 DEF Backlogged
  <2>2. f[c] > 0 /\ f[c] \in Nat
    BY <1>3, <1>5, <2>1
  <2>3. QED
    BY <1>8, <2>1, <2>2
<1>11. \A c \in Queues : len_bytes[c] # 0 <=> fifo[c] # <<>>
  BY <1>3
<1>12. prio_len_bytes[p] > 0 <=> Backlogged(p) # {}
  BY <1>4, <1>9, <1>10
<1>13. QED
  BY <1>4, <1>8, <1>11, <1>12

\* dequeue takes the most urgent priority with packets, and in it a class that lags
\* most.
LEMMA HeadFacts ==
    ASSUME IInv, BusyPrios # {}
    PROVE  /\ PrioSchedule \in Prios
           /\ \A q \in Prios : q < PrioSchedule => Backlogged(q) = {}
           /\ HeadClass \in Backlogged(PrioSchedule) /\ HeadClass \in Queues
           /\ fifo[HeadClass] # <<>> /\ prio[HeadClass] = PrioSchedule
           /\ \A d \in Backlogged(PrioSchedule) :
                  Lags(PrioSchedule)[d] <= Lags(PrioSchedule)[HeadClass]
           /\ fifo[HeadClass] \in Seq(Packets)
           /\ Head(fifo[HeadClass]) \in Packets /\ Head(fifo[HeadClass]).len \in PktLens
           /\ SkbSize(Head(fifo[HeadClass]).len) \in Nat \ {0}
           /\ HeadResult(HeadClass) \in Int
<1> DEFINE p == PrioSchedule
           c == HeadClass
<1>1. BusyPrios \in SUBSET Nat /\ BusyPrios \subseteq Prios
  BY PortAssumption DEF BusyPrios, Prios
<1>2. \E q \in BusyPrios : \A r \in BusyPrios : q <= r
  BY <1>1, LeastNatural
<1>3. p \in BusyPrios /\ \A r \in BusyPrios : p <= r
  BY <1>2 DEF PrioSchedule
<1>4. p \in Prios /\ p \in Nat /\ \A r \in Prios : r \in Int
  BY <1>1, <1>3, PortAssumption DEF Prios
<1>5. ASSUME NEW q \in Prios, q < p PROVE Backlogged(q) = {}
  <2>1. q \notin BusyPrios
    BY <1>3, <1>4, <1>5
  <2>2. ~ (prio_len_bytes[q] > 0)
    BY <1>5, <2>1 DEF BusyPrios
  <2>3. QED
    BY <1>5, <2>2, BusyIff
<1>6. Contenders = Backlogged(p)
  BY <1>4, BusyIff DEF Contenders, Backlogged
<1>7. Contenders # {}
  BY <1>3, <1>4, <1>6, BusyIff DEF BusyPrios
<1> HIDE DEF p, c
<1>8. /\ virtual_time[p] \in VirtualTimes
      /\ \A d \in Contenders : /\ d \in Queues
                               /\ head_fin_time[d] \in VirtualTimes
                               /\ 2 * Lag(virtual_time[p], head_fin_time[d]) < TimeWrap
                               /\ Lags(p)[d] = Lag(virtual_time[p], head_fin_time[d])
  BY <1>4, <1>6, LagLimits DEF Lags
<1>9. /\ HeadClass \in Contenders
      /\ \A d \in Contenders :
             Lag(virtual_time[p], head_fin_time[d]) <= Lag(virtual_time[p], head_fin_time[HeadClass])
  BY <1>7, <1>8, HeadClassFacts
<1>10. c \in Backlogged(p) /\ c \in Queues /\ \A d \in Backlogged(p) : Lags(p)[d] <= Lags(p)[c]
  BY <1>6, <1>8, <1>9 DEF c
<1>11. fifo[c] # <<>> /\ prio[c] = p
  BY <1>10 DEF Backlogged
<1>12. fifo[c] \in Seq(Packets)
  BY <1>10 DEF IInv, TypeOK
<1>13. Head(fifo[c]) \in Packets
  BY <1>11, <1>12, HeadTailProperties
<1>14. Head(fifo[c]).len \in PktLens /\ SkbSize(Head(fifo[c]).len) \in Nat \ {0}
  BY <1>13, PktsLen DEF Packets
<1>15. HeadResult(c) \in Int
  <2>1. tokens \in Int /\ time_ns \in Int /\ now \in Int
    BY BucketNsType DEF IInv, TypeOK
  <2>2. QED
    BY <1>14, <2>1, TbfScheduleType DEF HeadResult
<1>16. QED
  BY <1>4, <1>5, <1>10, <1>11, <1>12, <1>13, <1>14, <1>15 DEF p, c
-----------------------------------------------------------------------------
\* What Admit does to what is queued, to the counters and to the priorities.
LEMMA AdmitFacts ==
    ASSUME IInv, NEW c \in Queues, NEW len \in PktLens, Admit(c, len)
    PROVE  /\ \E pkt \in Packets : /\ pkt.len = len
                                   /\ fifo' = [fifo EXCEPT ![c] = Append(@, pkt)]
           /\ backlog' = [backlog EXCEPT ![c] = @ + len]
           /\ qlen' = qlen + 1
           /\ sum_len_bytes' = sum_len_bytes + SkbSize(len)
           /\ len_bytes' = [len_bytes EXCEPT ![c] = @ + SkbSize(len)]
           /\ prio' \in [Queues -> Prios]
           /\ prio_len_bytes' = [prio_len_bytes EXCEPT ![prio'[c]] = @ + SkbSize(len)]
           /\ \A d \in Queues : d # c => prio'[d] = prio[d]
           /\ fifo[c] # <<>> => prio'[c] = prio[c]
<1> DEFINE mark == ~ DequeueEcn /\ QlenMark(c, len_bytes'[c], sum_len_bytes')
           pkt == [len |-> len, tstamp |-> IF Sojourn THEN now ELSE 0, ce |-> mark]
<1>1. fifo' = [fifo EXCEPT ![c] = Append(@, pkt)]
  BY DEF Admit
<1>2. mark \in BOOLEAN /\ now \in Nat
  BY DEF IInv, TypeOK
<1> HIDE DEF mark
<1>3. pkt \in Packets
  BY <1>2 DEF Packets
<1>4. pkt.len = len
  OBVIOUS
<1>5. IF fifo[c] = <<>> THEN prio' = [prio EXCEPT ![c] = queue_prio[c]] ELSE prio' = prio
  BY DEF Admit, Activate, tagVars
<1>6. prio \in [Queues -> Prios] /\ queue_prio[c] \in Prios
  BY DEF IInv, TypeOK
<1>7. /\ prio' \in [Queues -> Prios]
      /\ \A d \in Queues : d # c => prio'[d] = prio[d]
      /\ fifo[c] # <<>> => prio'[c] = prio[c]
  BY <1>5, <1>6
<1>8. /\ backlog' = [backlog EXCEPT ![c] = @ + len]
      /\ qlen' = qlen + 1
      /\ sum_len_bytes' = sum_len_bytes + SkbSize(len)
      /\ len_bytes' = [len_bytes EXCEPT ![c] = @ + SkbSize(len)]
      /\ prio_len_bytes' = [prio_len_bytes EXCEPT ![prio'[c]] = @ + SkbSize(len)]
  BY DEF Admit, CountedPrio
<1> HIDE DEF pkt
<1>9. QED
  BY <1>1, <1>3, <1>4, <1>7, <1>8

\* The packets of the classes after an admission.
LEMMA AdmitFifos ==
    ASSUME IInv, NEW c \in Queues, NEW len \in PktLens, Admit(c, len)
    PROVE  /\ fifo' \in [Queues -> Seq(Packets)] /\ fifo'[c] # <<>>
           /\ \A d \in Queues : d # c => fifo'[d] = fifo[d]
           /\ Len(fifo'[c]) = Len(fifo[c]) + 1
           /\ fifo[c] # <<>> => Head(fifo'[c]) = Head(fifo[c])
           /\ fifo[c] = <<>> => Head(fifo'[c]).len = len
<1>1. fifo \in [Queues -> Seq(Packets)] /\ fifo[c] \in Seq(Packets)
  BY DEF IInv, TypeOK
<1>2. PICK pkt \in Packets : pkt.len = len /\ fifo' = [fifo EXCEPT ![c] = Append(@, pkt)]
  BY AdmitFacts
<1>3. fifo'[c] = Append(fifo[c], pkt) /\ \A d \in Queues : d # c => fifo'[d] = fifo[d]
  BY <1>1, <1>2
<1> DEFINE s == fifo[c]
           t == Append(s, pkt)
<1>4. /\ t \in Seq(Packets) /\ Len(t) = Len(s) + 1 /\ Len(s) \in Nat
      /\ t # <<>>
      /\ \A i \in 1 .. Len(s) : t[i] = s[i]
      /\ t[Len(s) + 1] = pkt
  BY <1>1, AppendProperties, LenProperties
<1>5. s \in Seq(Packets) /\ (s = <<>> <=> Len(s) = 0)
  BY <1>1, EmptySeq
<1> HIDE DEF s, t
<1>6. s # <<>> => Head(t) = Head(s)
  BY <1>4, <1>5
<1>7. s = <<>> => Head(t) = pkt
  BY <1>4, <1>5
<1>8. fifo' \in [Queues -> Seq(Packets)]
  BY <1>1, <1>2, <1>4 DEF s, t
<1>9. QED
  BY <1>2, <1>3, <1>4, <1>6, <1>7, <1>8 DEF s, t

LEMMA AdmitAccounting ==
    ASSUME IInv, NEW c \in Queues, NEW len \in PktLens, Admit(c, len)
    PROVE  AccountingExact'
<1>1. /\ fifo \in [Queues -> Seq(Packets)] /\ backlog \in [Queues -> Int]
      /\ len_bytes \in [Queues -> Int] /\ prio_len_bytes \in [Prios -> Int]
      /\ prio \in [Queues -> Prios]
  BY DEF IInv, TypeOK
<1>2. PICK pkt \in Packets : pkt.len = len /\ fifo' = [fifo EXCEPT ![c] = Append(@, pkt)]
  BY AdmitFacts
<1>3. /\ backlog' = [backlog EXCEPT ![c] = @ + pkt.len]
      /\ qlen' = qlen + 1
      /\ sum_len_bytes' = sum_len_bytes + SkbSize(pkt.len)
      /\ len_bytes' = [len_bytes EXCEPT ![c] = @ + SkbSize(pkt.len)]
  BY <1>2, AdmitFacts
<1>4. Counted(fifo, backlog, len_bytes, sum_len_bytes, qlen)
  BY DEF IInv, AccountingExact
<1>5. Counted(fifo', backlog', len_bytes', sum_len_bytes', qlen')
  BY <1>1, <1>2, <1>3, <1>4, CountedAdmit
<1> DEFINE size == SkbSize(len)
<1>6. size \in Int
  BY <1>2, PktsLen
<1>7. /\ prio' \in [Queues -> Prios]
      /\ len_bytes' = [len_bytes EXCEPT ![c] = @ + size]
      /\ prio_len_bytes' = [prio_len_bytes EXCEPT ![prio'[c]] = @ + size]
      /\ \A d \in Queues : d # c => prio'[d] = prio[d]
      /\ fifo[c] # <<>> => prio'[c] = prio[c]
  BY AdmitFacts
<1> HIDE DEF size
<1>8. prio'[c] \in Prios
  BY <1>7
<1>9. len_bytes[c] = 0 \/ prio'[c] = prio[c]
  <2>1. CASE fifo[c] = <<>>
    BY <1>1, <1>4, <2>1, BytesType DEF Counted
  <2>2. QED
    BY <1>7, <2>1
<1>10. CountedPerPrio(prio, len_bytes, prio_len_bytes)
  BY DEF IInv, AccountingExact
<1>11. CountedPerPrio(prio', len_bytes', prio_len_bytes')
  <2>1. CountedPerPrio(prio', [len_bytes EXCEPT ![c] = @ + size],
                       [prio_len_bytes EXCEPT ![prio'[c]] = @ + size])
    BY <1>1, <1>6, <1>7, <1>9, <1>10, PerPrioChange
  <2>2. QED
    BY <1>7, <2>1
<1>12. QED
  BY <1>5, <1>11 DEF AccountingExact

\* What it does to the finish times: a class that was empty joins its priority.
LEMMA AdmitTagFacts ==
    ASSUME IInv, NEW c \in Queues, NEW len \in PktLens, Admit(c, len)
    PROVE  /\ head_fin_time' \in [Queues -> VirtualTimes]
           /\ virtual_time' \in [Prios -> VirtualTimes]
           /\ fifo[c] # <<>> => UNCHANGED <<prio, head_fin_time, virtual_time>>
           /\ fifo[c] = <<>> =>
                 LET p == queue_prio[c]
                     s == Share(SkbSize(len), queue_weight[c])
                     h == (virtual_time[p] + s) % TimeWrap
                 IN  /\ p \in Prios /\ prio'[c] = p
                     /\ s \in Nat /\ 0 < s /\ s <= MaxShare
                     /\ h \in VirtualTimes /\ head_fin_time'[c] = h /\ virtual_time'[p] = h
                     /\ \A d \in Queues : d # c => head_fin_time'[d] = head_fin_time[d]
                     /\ \A q \in Prios : q # p => virtual_time'[q] = virtual_time[q]
<1>1. /\ head_fin_time \in [Queues -> VirtualTimes] /\ virtual_time \in [Prios -> VirtualTimes]
      /\ prio \in [Queues -> Prios] /\ queue_prio[c] \in Prios
      /\ queue_weight[c] \in WeightChoices[c]
  BY DEF IInv, TypeOK, WeightsConfigured
<1>2. CASE fifo[c] # <<>>
  <2>1. UNCHANGED <<prio, head_fin_time, virtual_time>>
    BY <1>2 DEF Admit, tagVars
  <2>2. QED
    BY <1>1, <1>2, <2>1
<1>3. CASE fifo[c] = <<>>
  <2> DEFINE p == queue_prio[c]
             s == Share(SkbSize(len), queue_weight[c])
             h == (virtual_time[p] + s) % TimeWrap
  <2>1. Activate(c, SkbSize(len))
    BY <1>3 DEF Admit
  <2>2. /\ prio' = [prio EXCEPT ![c] = p]
        /\ head_fin_time' = [head_fin_time EXCEPT ![c] = h]
        /\ virtual_time' = [virtual_time EXCEPT ![p] = head_fin_time'[c]]
    BY <2>1 DEF Activate, FinishTime
  <2>3. s \in Nat /\ 1 <= s /\ s <= MaxShare /\ MaxShare \in Nat \ {0}
    BY <1>1, MaxShareFacts
  <2>4. s < TimeWrap
    BY <2>3, SpanFacts DEF IInv
  <2>5. virtual_time[p] \in VirtualTimes
    BY <1>1
  <2> HIDE DEF p, s
  <2>6. h \in VirtualTimes
    BY <2>3, <2>4, <2>5, SumValue
  <2> HIDE DEF h
  <2>7. head_fin_time'[c] = h /\ prio'[c] = p /\ p \in Prios
    BY <1>1, <2>2 DEF p
  <2>8. virtual_time' = [virtual_time EXCEPT ![p] = h]
    BY <2>2, <2>7
  <2>9. /\ virtual_time'[p] = h
        /\ \A d \in Queues : d # c => head_fin_time'[d] = head_fin_time[d]
        /\ \A q \in Prios : q # p => virtual_time'[q] = virtual_time[q]
    BY <1>1, <2>2, <2>7, <2>8
  <2>10. /\ head_fin_time' \in [Queues -> VirtualTimes]
         /\ virtual_time' \in [Prios -> VirtualTimes]
    BY <1>1, <2>2, <2>6, <2>7, <2>8
  <2>11. 0 < s
    BY <2>3
  <2>12. QED
    BY <1>3, <2>3, <2>6, <2>7, <2>9, <2>10, <2>11 DEF h, s, p
<1>4. QED
  BY <1>2, <1>3

\* The finish times stay in order when a packet is admitted.
LEMMA AdmitTags ==
    ASSUME IInv, NEW c \in Queues, NEW len \in PktLens, Admit(c, len)
    PROVE  TagsOrdered'
<1>1. /\ fifo'[c] # <<>>
      /\ \A d \in Queues : d # c => fifo'[d] = fifo[d] /\ prio'[d] = prio[d]
  BY AdmitFifos, AdmitFacts
<1>2. CASE fifo[c] # <<>>
  <2>1. UNCHANGED <<prio, head_fin_time, virtual_time>>
    BY <1>2, AdmitTagFacts
  <2>2. ASSUME NEW q \in Prios PROVE Ordered(Backlogged(q)', Lags(q)', MaxShare)
    <3>1. Backlogged(q)' = Backlogged(q)
      BY <1>1, <1>2, <2>1 DEF Backlogged
    <3>2. Lags(q)' = Lags(q)
      BY <2>1 DEF Lags
    <3>3. QED
      BY <3>1, <3>2 DEF IInv, TagsOrdered
  <2>3. QED
    BY <2>2 DEF TagsOrdered
<1>3. CASE fifo[c] = <<>>
  <2>0. PICK p \in Prios : p = queue_prio[c]
    BY DEF IInv, TypeOK
  <2> DEFINE s == Share(SkbSize(len), queue_weight[c])
             h == (virtual_time[p] + s) % TimeWrap
  <2>1. /\ p \in Prios /\ prio'[c] = p
        /\ s \in Nat /\ 0 < s /\ s <= MaxShare
        /\ h \in VirtualTimes /\ head_fin_time'[c] = h /\ virtual_time'[p] = h
        /\ \A d \in Queues : d # c => head_fin_time'[d] = head_fin_time[d]
        /\ \A q \in Prios : q # p => virtual_time'[q] = virtual_time[q]
    BY <1>3, <2>0, AdmitTagFacts
  <2> HIDE DEF s
  <2>2. ASSUME NEW q \in Prios PROVE c \notin Backlogged(q)
    BY <1>3 DEF Backlogged
  <2>3. ASSUME NEW q \in Prios, q # p PROVE Ordered(Backlogged(q)', Lags(q)', MaxShare)
    <3>1. Backlogged(q)' = Backlogged(q)
      BY <1>1, <1>3, <2>1, <2>3 DEF Backlogged
    <3>2. \A d \in Backlogged(q) : Lags(q)'[d] = Lags(q)[d]
      BY <2>1, <2>2, <2>3 DEF Lags, Backlogged
    <3>3. Ordered(Backlogged(q), Lags(q), MaxShare)
      BY DEF IInv, TagsOrdered
    <3>4. QED
      BY <3>1, <3>2, <3>3, SameLags
  <2>4. Ordered(Backlogged(p)', Lags(p)', MaxShare)
    <3> DEFINE B  == Backlogged(p)
               L  == Lags(p)
               L1 == Lags(p)'
    <3>1. Backlogged(p)' = B \cup {c} /\ c \notin B
      BY <1>1, <1>3, <2>1 DEF Backlogged
    <3>2. IsFiniteSet(B) /\ B \subseteq Queues
      BY BackloggedFinite
    <3>3. /\ MaxShare \in Nat /\ Span < TimeWrap /\ Span \in Nat /\ TimeWrap \in Nat
      BY SpanFacts DEF IInv
    <3>4. /\ virtual_time[p] \in VirtualTimes /\ L \in [Queues -> Nat]
          /\ \A d \in B : L[d] + MaxShare <= Span
          /\ \A d \in Queues : head_fin_time[d] \in VirtualTimes
      BY <2>1, LagLimits
    <3>5. \A d \in B : L[d] \in Nat
      BY <3>2, <3>4
    <3>6. L1[c] = 0
      <4>1. L1[c] = Lag(h, h) /\ s < TimeWrap
        BY <2>1, <3>3, SpanFacts DEF Lags, IInv
      <4>2. QED
        BY <2>1, <3>4, <4>1, JoinLags
    <3>7. ASSUME NEW d \in B PROVE L1[d] = L[d] + s
      <4>1. d \in Queues /\ d # c
        BY <3>1, <3>2
      <4>2. L1[d] = Lag(h, head_fin_time[d]) /\ L[d] = Lag(virtual_time[p], head_fin_time[d])
        BY <2>1, <4>1 DEF Lags
      <4>3. L[d] + s < TimeWrap
        BY <2>1, <3>3, <3>4, <3>5
      <4>4. QED
        BY <2>1, <3>4, <4>1, <4>2, <4>3, LagForward
    <3>8. Ordered(B, L, MaxShare)
      BY <2>1 DEF IInv, TagsOrdered
    <3> HIDE DEF B, L, L1, h
    <3>9. Ordered(B \cup {c}, L1, MaxShare)
      BY <2>1, <3>1, <3>2, <3>3, <3>5, <3>6, <3>7, <3>8, FirstJoins
    <3>10. QED
      BY <3>1, <3>9 DEF L1
  <2>5. QED
    BY <2>3, <2>4 DEF TagsOrdered
<1>4. QED
  BY <1>2, <1>3
-----------------------------------------------------------------------------
\* What Transmit does, without the finish times.
Sending == run /\ BusyPrios # {} /\ Transmit(HeadClass)

LEMMA TransmitFacts ==
    ASSUME IInv, Sending
    PROVE  LET c == HeadClass
               s == fifo[c]
           IN  /\ fifo' = [fifo EXCEPT ![c] = Tail(@)] /\ fifo' \in [Queues -> Seq(Packets)]
               /\ fifo'[c] = Tail(s) /\ \A d \in Queues : d # c => fifo'[d] = fifo[d]
               /\ Len(fifo'[c]) = Len(s) - 1 /\ Len(s) \in Nat
               /\ fifo'[c] # <<>> => /\ s[2] \in Packets /\ s[2].len \in PktLens
                                     /\ s[2] = Head(fifo'[c])
               /\ prio' = prio /\ AccountingExact'
               /\ len_bytes[c] - SkbSize(Head(s).len) > 0 <=> fifo'[c] # <<>>
<1> DEFINE c    == HeadClass
           len  == Head(fifo[c]).len
           size == SkbSize(len)
<1>1. /\ c \in Queues /\ fifo[c] # <<>> /\ prio[c] = PrioSchedule /\ PrioSchedule \in Prios
      /\ fifo[c] \in Seq(Packets) /\ len \in PktLens /\ size \in Nat
  BY HeadFacts DEF Sending
<1>2. /\ fifo \in [Queues -> Seq(Packets)] /\ backlog \in [Queues -> Int]
      /\ len_bytes \in [Queues -> Int] /\ prio_len_bytes \in [Prios -> Int]
      /\ prio \in [Queues -> Prios] /\ sum_len_bytes \in Int /\ qlen \in Int
  BY DEF IInv, TypeOK
<1>3. /\ fifo' = [fifo EXCEPT ![c] = Tail(@)]
      /\ backlog' = [backlog EXCEPT ![c] = @ - len]
      /\ len_bytes' = [len_bytes EXCEPT ![c] = len_bytes[c] - size]
      /\ sum_len_bytes' = sum_len_bytes - size
      /\ qlen' = qlen - 1
      /\ prio_len_bytes' = [prio_len_bytes EXCEPT ![PrioSchedule] = @ - size]
      /\ prio' = prio
  BY DEF Sending, Transmit
<1> DEFINE pkt == Head(fifo[c])
<1>4. len = pkt.len
  OBVIOUS
<1>5. size = SkbSize(len)
  OBVIOUS
<1> HIDE DEF c, len, size
<1>6. len_bytes' = [len_bytes EXCEPT ![c] = @ - SkbSize(len)]
  BY <1>3, <1>5
<1>7. Counted(fifo, backlog, len_bytes, sum_len_bytes, qlen)
  BY DEF IInv, AccountingExact
<1>8. Counted(fifo', backlog', len_bytes', sum_len_bytes', qlen')
  <2>1. Counted([fifo EXCEPT ![c] = Tail(@)], [backlog EXCEPT ![c] = @ - len],
                [len_bytes EXCEPT ![c] = @ - SkbSize(len)],
                sum_len_bytes - SkbSize(len), qlen - 1)
    BY <1>1, <1>2, <1>4, <1>7, CountedSend
  <2>2. QED
    BY <1>3, <1>5, <1>6, <2>1
<1> DEFINE d == 0 - size
<1>9. d \in Int /\ \A k \in Int : k - size = k + d
  BY <1>1
<1> HIDE DEF d
<1>10. /\ len_bytes' = [len_bytes EXCEPT ![c] = @ + d]
       /\ prio_len_bytes' = [prio_len_bytes EXCEPT ![prio[c]] = @ + d]
  <2>1. len_bytes[c] \in Int /\ prio_len_bytes[prio[c]] \in Int
    BY <1>1, <1>2
  <2>2. /\ len_bytes[c] - size = len_bytes[c] + d
        /\ prio_len_bytes[prio[c]] - size = prio_len_bytes[prio[c]] + d
    BY <1>9, <2>1
  <2>3. QED
    BY <1>1, <1>3, <2>2
<1>11. CountedPerPrio(prio, len_bytes, prio_len_bytes)
  BY DEF IInv, AccountingExact
<1>12. CountedPerPrio(prio', len_bytes', prio_len_bytes')
  <2>1. CountedPerPrio(prio, [len_bytes EXCEPT ![c] = @ + d],
                       [prio_len_bytes EXCEPT ![prio[c]] = @ + d])
    BY <1>1, <1>2, <1>9, <1>11, PerPrioChange
  <2>2. QED
    BY <1>3, <1>10, <2>1
<1>13. AccountingExact'
  BY <1>8, <1>12 DEF AccountingExact
<1> DEFINE s == fifo[c]
           t == Tail(s)
<1>14. /\ s \in Seq(Packets) /\ s # <<>>
       /\ t \in Seq(Packets) /\ Len(t) = Len(s) - 1 /\ Len(s) \in Nat
       /\ \A i \in 1 .. Len(t) : t[i] = s[i + 1]
  BY <1>1, HeadTailProperties, LenProperties
<1>15. fifo' \in [Queues -> Seq(Packets)] /\ fifo'[c] = t
       /\ \A e \in Queues : e # c => fifo'[e] = fifo[e]
  BY <1>1, <1>2, <1>3, <1>14
<1> HIDE DEF s, t
<1>16. ASSUME t # <<>> PROVE s[2] \in Packets /\ s[2].len \in PktLens /\ s[2] = Head(t)
  <2>1. Len(t) \in Nat /\ Len(t) # 0
    BY <1>14, <1>16, EmptySeq, LenProperties
  <2>2. t[1] = s[1 + 1] /\ Head(t) = t[1] /\ t[1] \in Packets
    BY <1>14, <2>1, ElementOfSeq
  <2>3. QED
    BY <2>2 DEF Packets
<1>17. len_bytes[c] - size > 0 <=> t # <<>>
  <2>1. len_bytes'[c] = len_bytes[c] - size
    BY <1>1, <1>2, <1>3
  <2>2. len_bytes'[c] = WireBytes(t)
    BY <1>1, <1>8, <1>15 DEF Counted
  <2>3. WireBytes(t) \in Nat /\ (t = <<>> => WireBytes(t) = 0) /\ (t # <<>> => WireBytes(t) > 0)
    BY <1>14, BytesType
  <2>4. QED
    BY <2>1, <2>2, <2>3
<1>18. QED
  BY <1>3, <1>13, <1>14, <1>15, <1>16, <1>17 DEF s, t, c, len, size

\* The lags of the classes of a priority after one has sent a packet and has more.
LEMMA TransmitLags ==
    ASSUME IInv, Sending, NEW c \in Queues, c = HeadClass, NEW p \in Prios, p = PrioSchedule,
           fifo'[c] # <<>>
    PROVE  LET s == Share(SkbSize(Head(fifo'[c]).len), queue_weight[c])
               L == Lags(p)[c]
           IN  /\ s \in Nat /\ 0 < s /\ s <= MaxShare /\ L \in Nat
               /\ head_fin_time' \in [Queues -> VirtualTimes]
               /\ virtual_time' \in [Prios -> VirtualTimes]
               /\ \A q \in Prios : q # p => virtual_time'[q] = virtual_time[q]
               /\ \A d \in Queues : d # c => head_fin_time'[d] = head_fin_time[d]
               /\ Lags(p)'[c] = IF s <= L THEN L - s ELSE 0
               /\ \A d \in Backlogged(p) : d # c =>
                      Lags(p)'[d] = Lags(p)[d] + (IF s <= L THEN 0 ELSE s - L)
<1> DEFINE len == fifo[c][2].len
           s  == Share(SkbSize(len), queue_weight[c])
           L  == Lags(p)[c]
           v  == virtual_time[p]
           h  == head_fin_time[c]
           h1 == (h + s) % TimeWrap
           v1 == virtual_time'[p]
<1>1. len \in PktLens /\ len = Head(fifo'[c]).len /\ len_bytes[c] - SkbSize(Head(fifo[c]).len) > 0
  BY TransmitFacts
<1>2. queue_weight[c] \in WeightChoices[c]
  BY DEF IInv, WeightsConfigured
<1>3. s \in Nat /\ 1 <= s /\ s <= MaxShare
  BY <1>1, <1>2, MaxShareFacts
<1>4. /\ MaxShare \in Nat /\ Span \in Nat /\ TimeWrap \in Nat \ {0} /\ Span < TimeWrap
      /\ 2 * MaxShare < TimeWrap
  BY SpanFacts DEF IInv
<1>5. /\ v \in VirtualTimes /\ head_fin_time \in [Queues -> VirtualTimes]
      /\ h \in VirtualTimes /\ Lags(p) \in [Queues -> Nat] /\ L \in Nat
  BY LagLimits
<1>6. \A d \in Backlogged(p) : /\ Lags(p)[d] + MaxShare <= Span
                              /\ 2 * Lags(p)[d] < TimeWrap
  BY LagLimits
<1>7. c \in Backlogged(p)
  BY HeadFacts DEF Sending
<1>8. L = Lag(v, h)
  BY DEF Lags
<1>9. /\ head_fin_time' = [head_fin_time EXCEPT ![c] = h1]
      /\ virtual_time' = [virtual_time EXCEPT ![p] = Later(v, head_fin_time'[c])]
  BY <1>1 DEF Sending, Transmit, Advance, FinishTime
<1>10. virtual_time \in [Prios -> VirtualTimes]
  BY DEF IInv, TypeOK
<1> HIDE DEF len, s, L, v, h, h1
<1>11. h1 \in VirtualTimes
  <2>1. s < TimeWrap
    BY <1>3, <1>4
  <2>2. QED
    BY <1>3, <1>5, <2>1, SumValue DEF h1
<1>12. head_fin_time'[c] = h1 /\ head_fin_time' \in [Queues -> VirtualTimes]
       /\ \A d \in Queues : d # c => head_fin_time'[d] = head_fin_time[d]
  BY <1>5, <1>9, <1>11
<1>13. virtual_time' = [virtual_time EXCEPT ![p] = Later(v, h1)]
  BY <1>9, <1>12
<1>14. v1 = Later(v, h1) /\ virtual_time' \in [Prios -> VirtualTimes]
       /\ \A q \in Prios : q # p => virtual_time'[q] = virtual_time[q]
  <2>1. Later(v, h1) \in VirtualTimes
    BY <1>5, <1>11 DEF Later
  <2>2. QED
    BY <1>10, <1>13, <2>1
<1>15. 2 * s < TimeWrap /\ 2 * L < TimeWrap /\ L + MaxShare <= Span
  <2>1. 2 * s < TimeWrap
    BY <1>3, <1>4
  <2>2. QED
    BY <1>6, <1>7, <2>1 DEF L
<1>16. 2 * Lag(v, h) < TimeWrap
  BY <1>8, <1>15
<1>17. /\ Lag(v1, h1) = IF s <= L THEN L - s ELSE 0
       /\ \A x \in VirtualTimes :
              Lag(v, x) + s < TimeWrap =>
                  Lag(v1, x) = Lag(v, x) + (IF s <= L THEN 0 ELSE s - L)
  BY <1>3, <1>5, <1>8, <1>14, <1>15, <1>16, AdvanceLags DEF h1
<1>18. Lags(p)'[c] = Lag(v1, h1)
  BY <1>12 DEF Lags
<1>19. \A d \in Queues : d # c => /\ Lags(p)'[d] = Lag(v1, head_fin_time[d])
                                 /\ Lags(p)[d] = Lag(v, head_fin_time[d])
  BY <1>12 DEF Lags, v
<1> HIDE DEF v1
<1>20. Lags(p)'[c] = IF s <= L THEN L - s ELSE 0
  BY <1>17, <1>18
<1>21. ASSUME NEW d \in Backlogged(p), d # c
       PROVE  Lags(p)'[d] = Lags(p)[d] + (IF s <= L THEN 0 ELSE s - L)
  <2>1. d \in Queues /\ Lags(p)[d] \in Nat /\ Lags(p)[d] + MaxShare <= Span
    BY <1>5, <1>6, <1>21, BackloggedFinite
  <2>2. Lags(p)[d] + s < TimeWrap
    BY <1>3, <1>4, <2>1
  <2>3. QED
    BY <1>5, <1>17, <1>19, <1>21, <2>1, <2>2
<1>22. 0 < s
  BY <1>3
<1>23. s = Share(SkbSize(Head(fifo'[c]).len), queue_weight[c]) /\ L = Lags(p)[c]
  BY <1>1 DEF s, L
<1>24. QED
  BY <1>3, <1>5, <1>12, <1>14, <1>20, <1>21, <1>22, <1>23

\* The finish times stay in order when a packet leaves.
LEMMA TransmitTags == ASSUME IInv, Sending PROVE TagsOrdered'
<1>1. PICK c \in Queues, p \in Prios : c = HeadClass /\ p = PrioSchedule
  BY HeadFacts DEF Sending
<1>2. /\ prio' = prio /\ fifo'[c] = Tail(fifo[c])
      /\ \A d \in Queues : d # c => fifo'[d] = fifo[d]
      /\ len_bytes[c] - SkbSize(Head(fifo[c]).len) > 0 <=> fifo'[c] # <<>>
  BY <1>1, TransmitFacts
<1>3. c \in Backlogged(p) /\ \A d \in Backlogged(p) : Lags(p)[d] <= Lags(p)[c]
  BY <1>1, HeadFacts DEF Sending
<1> DEFINE B  == Backlogged(p)
           L  == Lags(p)
           L1 == Lags(p)'
<1>4. fifo[c] # <<>> /\ prio[c] = p
  BY <1>3 DEF Backlogged
<1>5. IsFiniteSet(B) /\ B \subseteq Queues /\ (\A d \in B : L[d] \in Nat) /\ MaxShare \in Nat
  BY BackloggedFinite, LagLimits, SpanFacts DEF IInv
<1>6. Ordered(B, L, MaxShare)
  BY DEF IInv, TagsOrdered
<1>7. ASSUME NEW q \in Prios, q # p PROVE Backlogged(q)' = Backlogged(q) /\ c \notin Backlogged(q)
  BY <1>2, <1>4, <1>7 DEF Backlogged
<1>8. ASSUME NEW q \in Prios PROVE Ordered(Backlogged(q), Lags(q), MaxShare)
  BY DEF IInv, TagsOrdered
<1>9. IsFiniteSet(B \ {c}) /\ Ordered(B \ {c}, L, MaxShare)
  BY <1>3, <1>5, <1>6, LastLeaves
<1>10. CASE fifo'[c] = <<>>
  <2>1. head_fin_time' = head_fin_time /\ virtual_time' = virtual_time
    BY <1>1, <1>2, <1>10 DEF Sending, Transmit
  <2>2. Backlogged(p)' = B \ {c}
    BY <1>2, <1>10 DEF Backlogged
  <2>3. ASSUME NEW q \in Prios PROVE Lags(q)' = Lags(q)
    BY <2>1 DEF Lags
  <2>4. ASSUME NEW q \in Prios PROVE Ordered(Backlogged(q)', Lags(q)', MaxShare)
    <3>1. CASE q = p
      BY <1>9, <2>2, <2>3, <3>1
    <3>2. CASE q # p
      BY <1>7, <1>8, <2>3, <3>2
    <3>3. QED
      BY <3>1, <3>2
  <2>5. QED
    BY <2>4 DEF TagsOrdered
<1>11. CASE fifo'[c] # <<>>
  <2> DEFINE s == Share(SkbSize(Head(fifo'[c]).len), queue_weight[c])
  <2>1. /\ s \in Nat /\ 0 < s /\ s <= MaxShare /\ L[c] \in Nat
        /\ \A q \in Prios : q # p => virtual_time'[q] = virtual_time[q]
        /\ \A d \in Queues : d # c => head_fin_time'[d] = head_fin_time[d]
        /\ L1[c] = IF s <= L[c] THEN L[c] - s ELSE 0
        /\ \A d \in B : d # c => L1[d] = L[d] + (IF s <= L[c] THEN 0 ELSE s - L[c])
    BY <1>1, <1>11, TransmitLags
  <2> HIDE DEF s
  <2>2. Backlogged(p)' = B
    BY <1>2, <1>4, <1>11 DEF Backlogged
  <2>3. Ordered(B, L1, MaxShare)
    <3> HIDE DEF B, L, L1
    <3>1. QED
      BY <1>3, <1>5, <1>6, <2>1, AdvanceOrdered DEF B, L
  <2>4. ASSUME NEW q \in Prios, q # p PROVE Ordered(Backlogged(q)', Lags(q)', MaxShare)
    <3>1. Backlogged(q)' = Backlogged(q) /\ c \notin Backlogged(q)
      BY <1>7, <2>4
    <3>2. \A d \in Backlogged(q) : Lags(q)'[d] = Lags(q)[d]
      BY <2>1, <2>4, <3>1 DEF Lags, Backlogged
    <3>3. QED
      BY <1>8, <3>1, <3>2, SameLags
  <2>5. QED
    BY <2>2, <2>3, <2>4 DEF TagsOrdered
<1>12. QED
  BY <1>10, <1>11
-----------------------------------------------------------------------------
\* The invariant holds initially, whatever the sysctl files say then.
LEMMA InitInv == Init => IInv
<1>1. SUFFICES ASSUME Init PROVE IInv
  OBVIOUS
<1>2. 0 \in Prios /\ 0 \in VirtualTimes
  BY PortAssumption, WrapAssumption DEF Prios, VirtualTimes
<1>3. CodelInit \in CodelState
  BY WidthsPositive DEF CodelInit, CodelState
<1>4. <<>> \in Seq(Packets)
  OBVIOUS
<1>5. TypeOK
  <2>1. run \in BOOLEAN
    BY <1>1, Zenon DEF Init
  <2>2. /\ now \in Nat /\ watchdog = NoTimer /\ wire = NoPacket
        /\ ecn_scheme \in EcnSchemes /\ sum_len_bytes \in Int /\ qlen \in Int
        /\ time_ns \in Nat
    BY <1>1 DEF Init
  <2>3. queue_prio \in [Queues -> Prios] /\ queue_weight \in [Queues -> 1 .. MinPktBytes]
    BY <1>1 DEF Init
  <2>4. /\ fifo \in [Queues -> Seq(Packets)] /\ codel \in [Queues -> CodelState]
        /\ prio \in [Queues -> Prios] /\ head_fin_time \in [Queues -> VirtualTimes]
        /\ virtual_time \in [Prios -> VirtualTimes]
    BY <1>1, <1>2, <1>3, <1>4 DEF Init
  <2>5. /\ backlog \in [Queues -> Int] /\ len_bytes \in [Queues -> Int]
        /\ prio_len_bytes \in [Prios -> Int]
    BY <1>1 DEF Init
  <2>6. tokens \in 0 .. BucketNs
    BY <1>1, BucketNsType DEF Init
  <2>7. QED
    BY <2>1, <2>2, <2>3, <2>4, <2>5, <2>6 DEF TypeOK
<1>6. WeightsConfigured
  BY <1>1 DEF Init, WeightsConfigured
<1>7. AccountingExact
  <2>1. /\ fifo = [c \in Queues |-> <<>>] /\ backlog = [c \in Queues |-> 0]
        /\ len_bytes = [c \in Queues |-> 0] /\ sum_len_bytes = 0 /\ qlen = 0
        /\ prio_len_bytes = [p \in Prios |-> 0]
    BY <1>1 DEF Init
  <2>2. prio \in [Queues -> Prios]
    BY <1>5 DEF TypeOK
  <2>3. Counted(fifo, backlog, len_bytes, sum_len_bytes, qlen)
    BY <2>1, CountedInit
  <2>4. CountedPerPrio(prio, len_bytes, prio_len_bytes)
    BY <2>1, <2>2, PerPrioInit
  <2>5. QED
    BY <2>3, <2>4 DEF AccountingExact
<1>8. TagsOrdered
  <2>1. ASSUME NEW p \in Prios PROVE Backlogged(p) = {}
    BY <1>1 DEF Init, Backlogged
  <2>2. QED
    BY <2>1 DEF TagsOrdered, Ordered
<1>9. QED
  BY <1>5, <1>6, <1>7, <1>8 DEF IInv

\* A packet is admitted.
Accepting ==
    \E dscp \in Dscps, len \in PktLens : Enqueue(dscp, len) /\ Admit(Classify(dscp), len)

LEMMA AdmitInv == ASSUME IInv, Accepting PROVE IInv'
<1>0. PICK dscp \in Dscps, len \in PktLens, c \in Queues : Enqueue(dscp, len) /\ Admit(c, len)
  BY ClassifyType DEF Accepting
<1>1. UNCHANGED <<now, watchdog, wire, sysctlVars, sentVars>>
  BY <1>0 DEF Enqueue
<1>2. run' \in BOOLEAN
  <2>1. run' = TRUE
    BY <1>0 DEF Enqueue
  <2>2. QED
    BY <2>1, Zenon
<1>3. /\ fifo' \in [Queues -> Seq(Packets)] /\ prio' \in [Queues -> Prios]
      /\ head_fin_time' \in [Queues -> VirtualTimes]
      /\ virtual_time' \in [Prios -> VirtualTimes]
  BY <1>0, AdmitFifos, AdmitFacts, AdmitTagFacts
<1>4. len \in Int /\ SkbSize(len) \in Int
  BY BufferAssumption, SkbSizeType
<1>5. /\ backlog \in [Queues -> Int] /\ len_bytes \in [Queues -> Int]
      /\ prio_len_bytes \in [Prios -> Int] /\ sum_len_bytes \in Int /\ qlen \in Int
  BY DEF IInv, TypeOK
<1>6. /\ backlog' = [backlog EXCEPT ![c] = @ + len]
      /\ qlen' = qlen + 1
      /\ sum_len_bytes' = sum_len_bytes + SkbSize(len)
      /\ len_bytes' = [len_bytes EXCEPT ![c] = @ + SkbSize(len)]
      /\ prio_len_bytes' = [prio_len_bytes EXCEPT ![prio'[c]] = @ + SkbSize(len)]
      /\ prio'[c] \in Prios
  BY <1>0, <1>3, AdmitFacts
<1>7. /\ backlog' \in [Queues -> Int] /\ len_bytes' \in [Queues -> Int]
      /\ prio_len_bytes' \in [Prios -> Int] /\ sum_len_bytes' \in Int /\ qlen' \in Int
  <2>1. /\ backlog[c] + len \in Int /\ len_bytes[c] + SkbSize(len) \in Int
        /\ sum_len_bytes' \in Int /\ qlen' \in Int
    BY <1>4, <1>5, <1>6
  <2>2. prio_len_bytes[prio'[c]] + SkbSize(len) \in Int
    BY <1>4, <1>5, <1>6
  <2>3. QED
    BY <1>5, <1>6, <2>1, <2>2
<1>8. TypeOK'
  BY <1>1, <1>2, <1>3, <1>7 DEF IInv, TypeOK, sysctlVars, sentVars
<1>9. WeightsConfigured'
  BY <1>1 DEF IInv, WeightsConfigured, sysctlVars
<1>10. QED
  BY <1>0, <1>8, <1>9, AdmitAccounting, AdmitTags DEF IInv

\* A packet leaves.
LEMMA TransmitInv == ASSUME IInv, Sending PROVE IInv'
<1> DEFINE c    == HeadClass
           pkt  == Head(fifo[c])
           size == SkbSize(pkt.len)
           left == len_bytes[c] - size
           mark == pkt.ce \/ DequeueMark(c, pkt, left)
<1>1. /\ c \in Queues /\ PrioSchedule \in Prios /\ pkt \in Packets
      /\ size \in Nat /\ HeadResult(c) \in Int
  BY HeadFacts DEF Sending
<1>2. /\ HeadResult(c) >= 0
      /\ backlog' = [backlog EXCEPT ![c] = @ - pkt.len]
      /\ len_bytes' = [len_bytes EXCEPT ![c] = left]
      /\ sum_len_bytes' = sum_len_bytes - size
      /\ qlen' = qlen - 1
      /\ prio_len_bytes' = [prio_len_bytes EXCEPT ![PrioSchedule] = @ - size]
      /\ time_ns' = now
      /\ tokens' = Lesser(HeadResult(c), BucketNs)
      /\ codel' = IF ecn_scheme = "codel"
                  THEN [codel EXCEPT ![c] = CodelMark(@, pkt.tstamp, left, now).class]
                  ELSE codel
      /\ UNCHANGED <<now, run, watchdog, sysctlVars, prio>>
  BY DEF Sending, Transmit
<1>3. wire' = [queue |-> c, prio |-> PrioSchedule, size |-> size, at |-> now, ce |-> mark]
  BY DEF Sending, Transmit
<1>4. mark \in BOOLEAN
  OBVIOUS
<1>5. fifo' \in [Queues -> Seq(Packets)]
  BY TransmitFacts
<1>6. /\ head_fin_time' \in [Queues -> VirtualTimes]
      /\ virtual_time' \in [Prios -> VirtualTimes]
  <2>1. CASE fifo'[c] = <<>>
    <3>1. ~ (left > 0)
      BY <2>1, TransmitFacts
    <3>2. head_fin_time' = head_fin_time /\ virtual_time' = virtual_time
      BY <3>1 DEF Sending, Transmit
    <3>3. QED
      BY <3>2 DEF IInv, TypeOK
  <2>2. CASE fifo'[c] # <<>>
    BY <1>1, <2>2, TransmitLags
  <2>3. QED
    BY <2>1, <2>2
<1> HIDE DEF c, pkt, size, left, mark
<1>7. /\ backlog \in [Queues -> Int] /\ len_bytes \in [Queues -> Int]
      /\ prio_len_bytes \in [Prios -> Int] /\ sum_len_bytes \in Int /\ qlen \in Int
      /\ pkt.len \in Int /\ pkt.tstamp \in Int /\ now \in Nat
  <2>1. pkt.len \in Int
    BY <1>1, PktsLen
  <2>2. QED
    BY <1>1, <2>1 DEF IInv, TypeOK, Packets
<1>8. left \in Int
  BY <1>1, <1>7 DEF left
<1>9. /\ backlog' \in [Queues -> Int] /\ len_bytes' \in [Queues -> Int]
      /\ prio_len_bytes' \in [Prios -> Int] /\ sum_len_bytes' \in Int /\ qlen' \in Int
  <2>1. backlog[c] - pkt.len \in Int /\ prio_len_bytes[PrioSchedule] - size \in Int
    BY <1>1, <1>7
  <2>2. sum_len_bytes - size \in Int /\ qlen - 1 \in Int
    BY <1>1, <1>7
  <2>3. QED
    BY <1>1, <1>2, <1>7, <1>8, <2>1, <2>2
<1>10. tokens' \in 0 .. BucketNs
  BY <1>1, <1>2, BucketNsType DEF Lesser
<1>11. codel' \in [Queues -> CodelState]
  <2>1. codel \in [Queues -> CodelState] /\ codel[c] \in CodelState /\ now \in Int
    BY <1>1, <1>7 DEF IInv, TypeOK
  <2>2. CodelMark(codel[c], pkt.tstamp, left, now).class \in CodelState
    BY <1>7, <1>8, <2>1, CodelMarkType
  <2>3. QED
    BY <1>1, <1>2, <2>1, <2>2
<1>12. wire' \in [queue : Queues, prio : Prios, size : Nat, at : Nat, ce : BOOLEAN]
  BY <1>1, <1>3, <1>4, <1>7
<1>13. TypeOK'
  <2>1. run' \in BOOLEAN /\ ecn_scheme' \in EcnSchemes
    BY <1>2, Zenon DEF IInv, TypeOK, sysctlVars
  <2>2. /\ watchdog' \in Nat \cup {NoTimer} /\ time_ns' \in Nat /\ now' \in Nat
        /\ queue_prio' \in [Queues -> Prios]
        /\ queue_weight' \in [Queues -> 1 .. MinPktBytes]
        /\ prio' \in [Queues -> Prios]
    BY <1>2, <1>7 DEF IInv, TypeOK, sysctlVars
  <2>3. QED
    BY <1>5, <1>6, <1>9, <1>10, <1>11, <1>12, <2>1, <2>2 DEF TypeOK
<1>14. WeightsConfigured'
  BY <1>2 DEF IInv, WeightsConfigured, sysctlVars
<1>15. AccountingExact'
  BY TransmitFacts
<1>16. QED
  BY <1>13, <1>14, <1>15, TransmitTags DEF IInv

\* Every other step leaves the queues, their counters and their finish times alone, and
\* puts nothing on the wire.
LEMMA OthersAlone ==
    ASSUME [Next]_vars, ~ Sending, ~ Accepting
    PROVE  UNCHANGED <<fifoVars, tagVars>> /\ wire' \in {wire, NoPacket}
<1>1. ASSUME NEW dscp \in Dscps, NEW len \in PktLens, Enqueue(dscp, len)
      PROVE  UNCHANGED <<fifoVars, tagVars>> /\ wire' \in {wire, NoPacket}
  <2>1. Classify(dscp) \in Queues
    BY ClassifyType
  <2>2. QED
    BY <1>1, <2>1 DEF Enqueue, Drop, Accepting
<1>2. CASE DequeueNothing \/ \E c \in {HeadClass} : Throttle(c)
  BY <1>2 DEF DequeueNothing, Throttle
<1>3. CASE WatchdogFire \/ NetifSchedule \/ \E d \in TickSteps : Tick(d)
  BY <1>3 DEF WatchdogFire, NetifSchedule, Tick
<1>4. CASE Sysctl
  BY <1>4 DEF Sysctl, SetQueuePrio, SetQueueWeight, SetEcnScheme, kernelVars
<1>5. CASE UNCHANGED vars
  BY <1>5 DEF vars, kernelVars
<1>6. QED
  BY <1>1, <1>2, <1>3, <1>4, <1>5 DEF Next, Dequeue, Sending

\* The variables such a step does change keep their types.
LEMMA OthersTypes ==
    ASSUME IInv, [Next]_vars, ~ Sending, ~ Accepting
    PROVE  TypeOK' /\ WeightsConfigured'
<1>1. UNCHANGED <<fifoVars, tagVars>> /\ wire' \in {wire, NoPacket}
  BY OthersAlone
<1>2. TypeOK /\ WeightsConfigured
  BY DEF IInv
<1> DEFINE Kept   == UNCHANGED <<sysctlVars, sentVars>>
           Kernel == now' \in Nat /\ run' \in BOOLEAN /\ watchdog' \in Nat \cup {NoTimer}
<1>3. ASSUME Kept, Kernel PROVE TypeOK' /\ WeightsConfigured'
  <2>1. TypeOK'
    BY <1>1, <1>2, <1>3 DEF TypeOK, fifoVars, tagVars, sysctlVars, sentVars
  <2>2. WeightsConfigured'
    BY <1>2, <1>3 DEF WeightsConfigured, sysctlVars
  <2>3. QED
    BY <2>1, <2>2
<1>4. now \in Nat /\ run \in BOOLEAN /\ watchdog \in Nat \cup {NoTimer}
  BY <1>2 DEF TypeOK
<1>5. TRUE \in BOOLEAN /\ FALSE \in BOOLEAN
  OBVIOUS
<1>6. ASSUME NEW dscp \in Dscps, NEW len \in PktLens, Enqueue(dscp, len) PROVE Kept /\ Kernel
  <2>1. Kept /\ now' = now /\ watchdog' = watchdog /\ run' = TRUE
    BY <1>6 DEF Enqueue
  <2>2. QED
    BY <1>4, <1>5, <2>1, Zenon
<1>7. CASE run /\ DequeueNothing
  <2>1. Kept /\ now' = now /\ watchdog' = watchdog /\ run' = FALSE
    BY <1>7 DEF DequeueNothing
  <2>2. QED
    <3>1. Kept /\ Kernel
      BY <1>4, <1>5, <2>1, Zenon
    <3>2. QED
      BY <1>3, <3>1
<1>8. CASE run /\ BusyPrios # {} /\ Throttle(HeadClass)
  <2>1. Kept /\ now' = now /\ run' = FALSE
    BY <1>8 DEF Throttle
  <2>2. watchdog' \in Nat
    <3>1. HeadResult(HeadClass) \in Int
      BY <1>8, HeadFacts
    <3>2. HeadResult(HeadClass) < 0 /\ watchdog' = now - HeadResult(HeadClass)
      BY <1>8 DEF Throttle
    <3>3. QED
      BY <1>4, <3>1, <3>2
  <2>3. Kept /\ Kernel
    BY <1>4, <1>5, <2>1, <2>2, Zenon
  <2>4. QED
    BY <1>3, <2>3
<1>9. CASE WatchdogFire \/ NetifSchedule
  <2>1. Kept /\ now' = now /\ run' = TRUE /\ watchdog' \in {watchdog, NoTimer}
    BY <1>9 DEF WatchdogFire, NetifSchedule
  <2>2. Kept /\ Kernel
    BY <1>4, <1>5, <2>1, Zenon
  <2>3. QED
    BY <1>3, <2>2
<1>10. ASSUME NEW d \in TickSteps, Tick(d) PROVE Kept /\ Kernel
  <2>1. Kept /\ run' = run /\ watchdog' = watchdog /\ now' = now + d /\ d \in Nat
    BY <1>10, BufferAssumption DEF Tick
  <2>2. now' \in Nat
    BY <1>4, <2>1
  <2>3. QED
    BY <1>4, <2>1, <2>2, Zenon
<1>11. CASE Sysctl
  <2>1. /\ queue_prio \in [Queues -> Prios] /\ queue_weight \in [Queues -> 1 .. MinPktBytes]
        /\ ecn_scheme \in EcnSchemes
        /\ \A c \in Queues : queue_weight[c] \in WeightChoices[c]
    BY <1>2 DEF TypeOK, WeightsConfigured
  <2>2. ASSUME NEW c \in Queues, NEW p \in PrioChoices[c], SetQueuePrio(c, p)
        PROVE  /\ queue_prio' \in [Queues -> Prios]
               /\ UNCHANGED <<queue_weight, ecn_scheme>>
    BY <2>1, <2>2, WfqAssumption DEF SetQueuePrio
  <2>3. ASSUME NEW c \in Queues, NEW w \in WeightChoices[c], SetQueueWeight(c, w)
        PROVE  /\ queue_weight' \in [Queues -> 1 .. MinPktBytes]
               /\ \A d \in Queues : queue_weight'[d] \in WeightChoices[d]
               /\ UNCHANGED <<queue_prio, ecn_scheme>>
    <3>1. w \in 1 .. MinPktBytes
      BY WfqAssumption
    <3>2. queue_weight' = [queue_weight EXCEPT ![c] = w]
      BY <2>3 DEF SetQueueWeight
    <3>3. UNCHANGED <<queue_prio, ecn_scheme>>
      BY <2>3 DEF SetQueueWeight
    <3>4. \A d \in Queues : queue_weight'[d] = IF d = c THEN w ELSE queue_weight[d]
      BY <2>1, <3>2
    <3>5. QED
      BY <2>1, <3>1, <3>2, <3>3, <3>4
  <2>4. ASSUME NEW s \in EcnSchemes, SetEcnScheme(s)
        PROVE  ecn_scheme' \in EcnSchemes /\ UNCHANGED <<queue_prio, queue_weight>>
    BY <2>4 DEF SetEcnScheme
  <2>5. /\ queue_prio' \in [Queues -> Prios] /\ queue_weight' \in [Queues -> 1 .. MinPktBytes]
        /\ ecn_scheme' \in EcnSchemes
        /\ \A c \in Queues : queue_weight'[c] \in WeightChoices[c]
    BY <1>11, <2>1, <2>2, <2>3, <2>4 DEF Sysctl
  <2>6. UNCHANGED <<kernelVars, sentVars>>
    BY <1>11 DEF Sysctl, SetQueuePrio, SetQueueWeight, SetEcnScheme
  <2>7. TypeOK'
    BY <1>1, <1>2, <2>5, <2>6 DEF TypeOK, fifoVars, tagVars, kernelVars, sentVars
  <2>8. QED
    BY <2>5, <2>7 DEF WeightsConfigured
<1>12. CASE UNCHANGED vars
  <2>1. Kept /\ now' = now /\ run' = run /\ watchdog' = watchdog
    BY <1>12 DEF vars, kernelVars
  <2>2. Kept /\ Kernel
    BY <1>4, <2>1, Zenon
  <2>3. QED
    BY <1>3, <2>2
<1> HIDE DEF Kept, Kernel
<1>13. CASE \E dscp \in Dscps, len \in PktLens : Enqueue(dscp, len)
  BY <1>3, <1>6, <1>13
<1>14. CASE \E d \in TickSteps : Tick(d)
  BY <1>3, <1>10, <1>14
<1>15. CASE Dequeue
  BY <1>7, <1>8, <1>15 DEF Dequeue, DequeueNothing, Sending
<1>16. QED
  BY <1>9, <1>11, <1>12, <1>13, <1>14, <1>15 DEF Next

\* Every step preserves the invariant.
LEMMA NextInv == IInv /\ [Next]_vars => IInv'
<1>1. SUFFICES ASSUME IInv, [Next]_vars, ~ Sending, ~ Accepting PROVE IInv'
  BY TransmitInv, AdmitInv
<1>2. /\ UNCHANGED <<fifo, backlog, len_bytes, sum_len_bytes, prio_len_bytes, qlen>>
      /\ UNCHANGED <<prio, head_fin_time, virtual_time>>
  BY <1>1, OthersAlone DEF fifoVars, tagVars
<1>3. TypeOK' /\ WeightsConfigured'
  BY <1>1, OthersTypes
<1>4. AccountingExact'
  BY <1>1, <1>2 DEF IInv, AccountingExact
<1>5. TagsOrdered'
  <2>1. ASSUME NEW p \in Prios PROVE Ordered(Backlogged(p)', Lags(p)', MaxShare)
    <3>1. Backlogged(p)' = Backlogged(p) /\ Lags(p)' = Lags(p)
      BY <1>2 DEF Backlogged, Lags
    <3>2. QED
      BY <1>1, <3>1 DEF IInv, TagsOrdered
  <2>2. QED
    BY <2>1 DEF TagsOrdered
<1>6. QED
  BY <1>3, <1>4, <1>5 DEF IInv

\* The inductive invariant holds in every reachable state.
LEMMA Inductive == Spec => []IInv
<1>1. QED
  BY InitInv, NextInv, PTL DEF Spec

\* The types of all variables: no token count ever goes below zero or above the
\* bucket, and finish times stay within the width of virtual times.
THEOREM TypeCorrect == Spec => []TypeOK
<1>1. IInv => TypeOK
  BY DEF IInv
<1>2. QED
  BY <1>1, Inductive, PTL

\* Whatever the packets and the writes to priorities and weights, the counters of
\* the port, of the priorities and of the classes are what is queued.
THEOREM AccountingCorrect == Spec => []AccountingExact
<1>1. IInv => AccountingExact
  BY DEF IInv
<1>2. QED
  BY <1>1, Inductive, PTL

\* The finish times of a priority stay within one large packet of every other class
\* of it, so that comparing them on the circle orders them, forever.
THEOREM FinishTimesStayTogether == Spec => []FinishTimesTogether
<1>1. IInv => FinishTimesTogether
  <2>1. SUFFICES ASSUME IInv, NEW p \in Prios, NEW c \in Backlogged(p)
                 PROVE  (virtual_time[p] - head_fin_time[c]) % TimeWrap
                            <= (Cardinality(Backlogged(p)) - 1) * MaxShare
    BY DEF FinishTimesTogether
  <2>2. c \in Queues /\ Lags(p)[c] <= (Cardinality(Backlogged(p)) - 1) * MaxShare
    BY <2>1, LagLimits
  <2>3. QED
    BY <2>2 DEF Lags, Lag
<1>2. QED
  BY <1>1, Inductive, PTL
-----------------------------------------------------------------------------
\* The watchdog that Throttle arms expires when the bucket, if it is large enough,
\* has the tokens for the packet that is next, which stays the next one.
LEMMA ThrottleArms ==
    ASSUME IInv, BusyPrios # {}, Throttle(HeadClass)
    PROVE  ThrottledIsArmed'
<1> DEFINE c      == HeadClass
           size   == SkbSize(Head(fifo[c]).len)
           cost   == L2T(size)
           result == HeadResult(c)
<1>1. result \in Int /\ size \in Nat
  BY HeadFacts
<1>2. /\ result < 0 /\ watchdog' = now - result
      /\ UNCHANGED <<fifoVars, tagVars, tokens, time_ns>>
  BY DEF Throttle, sentVars
<1>3. HeadClass' = c /\ fifo' = fifo
  BY <1>2 DEF HeadClass, Contenders, PrioSchedule, BusyPrios, fifoVars, tagVars
<1>4. now \in Nat /\ time_ns \in Nat /\ tokens \in Int /\ BucketNs \in Nat /\ cost \in Nat
  BY <1>1, L2TType, BucketNsType DEF IInv, TypeOK
<1>5. watchdog' # NoTimer
  BY <1>1, <1>2, <1>4 DEF NoTimer
<1>6. /\ result = Lesser(now - time_ns, BucketNs) + tokens - cost
      /\ TbfSchedule(size, tokens', time_ns', watchdog')
             = Lesser(now - result - time_ns, BucketNs) + tokens - cost
  BY <1>2 DEF HeadResult, TbfSchedule
<1>7. tokens >= 0
  BY <1>4 DEF IInv, TypeOK
<1> HIDE DEF cost, result
<1>8. cost <= BucketNs => Lesser(now - result - time_ns, BucketNs) + tokens - cost >= 0
  BY <1>1, <1>2, <1>4, <1>6, <1>7 DEF Lesser
<1>9. QED
  BY <1>3, <1>5, <1>6, <1>8 DEF ThrottledIsArmed, cost

\* No step but Throttle leaves packets behind without a run.
LEMMA ArmedStep == IInv /\ ThrottledIsArmed /\ [Next]_vars => ThrottledIsArmed'
<1> SUFFICES ASSUME IInv, ThrottledIsArmed, [Next]_vars PROVE ThrottledIsArmed'
  OBVIOUS
<1>1. CASE \/ \E dscp \in Dscps, len \in PktLens : Enqueue(dscp, len)
           \/ run /\ (\E c \in {HeadClass} : Transmit(c))
           \/ WatchdogFire \/ NetifSchedule
  <2>1. run'
    BY <1>1, Zenon DEF Enqueue, Transmit, WatchdogFire, NetifSchedule
  <2>2. QED
    BY <2>1, Zenon DEF ThrottledIsArmed
<1>2. CASE DequeueNothing
  <2>1. BusyPrios' = {}
    BY <1>2 DEF DequeueNothing, BusyPrios, fifoVars
  <2>2. QED
    BY <2>1 DEF ThrottledIsArmed
<1>3. CASE BusyPrios # {} /\ Throttle(HeadClass)
  BY <1>3, ThrottleArms
<1>4. CASE (\E d \in TickSteps : Tick(d)) \/ Sysctl \/ UNCHANGED vars
  <2>1. UNCHANGED <<run, watchdog, fifoVars, tagVars, tokens, time_ns>>
    BY <1>4 DEF Tick, Sysctl, SetQueuePrio, SetQueueWeight, SetEcnScheme, vars, kernelVars,
                sentVars
  <2>2. HeadClass' = HeadClass /\ BusyPrios' = BusyPrios
    BY <2>1 DEF HeadClass, Contenders, PrioSchedule, BusyPrios, fifoVars, tagVars
  <2>3. QED
    BY <2>1, <2>2 DEF ThrottledIsArmed, fifoVars
<1>5. QED
  BY <1>1, <1>2, <1>3, <1>4 DEF Next, Dequeue

\* No packet waits forever in a sch_wfq that has throttled itself, and no run that its
\* watchdog schedules is in vain.
THEOREM ThrottledArmed == Spec => []ThrottledIsArmed
<1>1. Init => ThrottledIsArmed
  BY DEF Init, ThrottledIsArmed, BusyPrios
<1>2. QED
  BY <1>1, ArmedStep, Inductive, PTL DEF Spec
-----------------------------------------------------------------------------
\* Admitting a packet is Accept: the class keeps its rank unless it was empty.
LEMMA AdmitAccepts ==
    ASSUME IInv, NEW c \in Queues, NEW len \in PktLens, Admit(c, len), UNCHANGED wire
    PROVE  Port!Accept(c)
<1>1. /\ fifo \in [Queues -> Seq(Packets)] /\ fifo[c] \in Seq(Packets)
      /\ prio \in [Queues -> Prios]
  BY DEF IInv, TypeOK
<1>2. PICK pkt \in Packets : fifo' = [fifo EXCEPT ![c] = Append(@, pkt)]
  BY AdmitFacts
<1>3. fifo'[c] = Append(fifo[c], pkt)
  BY <1>1, <1>2
<1>4. pkt \in Range(fifo'[c])
  <2>1. Len(fifo[c]) + 1 \in DOMAIN fifo'[c] /\ fifo'[c][Len(fifo[c]) + 1] = pkt
    BY <1>1, <1>3
  <2>2. QED
    BY <2>1 DEF Range
<1>5. IF fifo[c] = <<>> THEN prio' = [prio EXCEPT ![c] = queue_prio[c]] ELSE prio' = prio
  BY DEF Admit, Activate, tagVars
<1>6. prio' = IF c \in Port!Waiting THEN prio ELSE [prio EXCEPT ![c] = prio'[c]]
  BY <1>1, <1>5 DEF Port!Waiting
<1>7. QED
  BY <1>2, <1>4, <1>6 DEF Port!Accept, Port!Range, Range

\* Sending is Send: the classes of more urgent priorities are empty.
LEMMA TransmitSends == ASSUME IInv, Sending PROVE HeadClass \in Queues /\ Port!Send(HeadClass)
<1> DEFINE c   == HeadClass
           pkt == Head(fifo[c])
           ce  == pkt.ce \/ DequeueMark(c, pkt, len_bytes[c] - SkbSize(pkt.len))
<1>1. /\ c \in Queues /\ fifo[c] # <<>> /\ pkt \in Packets
      /\ prio[c] = PrioSchedule /\ PrioSchedule \in Prios
      /\ \A q \in Prios : q < PrioSchedule => Backlogged(q) = {}
  BY HeadFacts DEF Sending
<1>2. c \in Port!Waiting
  BY <1>1 DEF Port!Waiting
<1>3. ASSUME NEW d \in Port!Waiting PROVE prio[c] <= prio[d]
  <2>1. d \in Queues /\ fifo[d] # <<>>
    BY <1>3 DEF Port!Waiting
  <2>2. prio[d] \in Prios /\ prio[c] \in Prios /\ d \in Backlogged(prio[d])
    BY <1>1, <2>1 DEF IInv, TypeOK, Backlogged
  <2>3. ~ (prio[d] < prio[c])
    BY <1>1, <2>2
  <2>4. QED
    BY <2>2, <2>3 DEF Prios
<1>4. fifo' = [fifo EXCEPT ![c] = Tail(@)] /\ prio' = prio
  BY DEF Sending, Transmit
<1>5. wire' = [queue |-> c, prio |-> PrioSchedule, size |-> WireSize(pkt), at |-> now,
               ce |-> ce]
  BY DEF Sending, Transmit, WireSize
<1>6. ce \in {pkt.ce, TRUE}
  BY <1>1 DEF Packets
<1> HIDE DEF c, ce
<1>7. Seen(wire') = [queue |-> c, size |-> WireSize(pkt), ce |-> ce]
  <2> HIDE DEF pkt
  <2>1. QED
    BY <1>5 DEF Seen
<1>8. Port!Send(c)
  BY <1>2, <1>3, <1>4, <1>6, <1>7 DEF Port!Send, Seen
<1>9. QED
  BY <1>1, <1>8 DEF c

LEMMA StepRefines == IInv /\ [Next]_vars => [Port!Next]_(Port!vars)
<1>1. SUFFICES ASSUME IInv, [Next]_vars PROVE [Port!Next]_(Port!vars)
  OBVIOUS
<1>2. CASE Sending
  BY <1>1, <1>2, TransmitSends DEF Port!Next
<1>3. CASE Accepting
  <2>1. PICK c \in Queues, len \in PktLens : Admit(c, len) /\ wire' = wire
    BY <1>3, ClassifyType DEF Accepting, Enqueue
  <2>2. Port!Accept(c)
    BY <1>1, <2>1, AdmitAccepts
  <2>3. QED
    BY <2>1, <2>2 DEF Port!Next
<1>4. CASE ~ Sending /\ ~ Accepting
  <2>1. UNCHANGED <<fifo, prio>> /\ wire' \in {wire, NoPacket}
    BY <1>1, <1>4, OthersAlone DEF fifoVars, tagVars
  <2>2. CASE wire' = wire
    BY <2>1, <2>2 DEF Port!vars
  <2>3. CASE wire' = NoPacket
    BY <2>1, <2>3 DEF Port!Next, Port!Rest
  <2>4. QED
    BY <2>1, <2>2, <2>3
<1>5. QED
  BY <1>2, <1>3, <1>4

\* sch_wfq is a port of FIFOs in strict priority: however virtual times wrap, finish
\* times compare and parameters change, it loses, reorders and unmarks no packet it
\* accepted, and no packet overtakes one of a smaller rank.
THEOREM PortImplemented == Spec => ImplementsPort
<1>1. Init => Port!Init
  <2>1. SUFFICES ASSUME Init PROVE Port!Init
    OBVIOUS
  <2>2. fifo = [c \in Queues |-> <<>>] /\ wire = NoPacket
    BY <2>1 DEF Init
  <2>3. prio \in [Queues -> Int]
    BY <2>1 DEF Init
  <2>4. QED
    BY <2>2, <2>3 DEF Port!Init
<1>2. QED
  BY <1>1, StepRefines, Inductive, PTL DEF Spec, ImplementsPort, Port!Spec
-----------------------------------------------------------------------------
(***************************************************************************)
(* Fairness.  Behind(c) is how far the start of the service of the head    *)
(* packet of c is behind the virtual time of its priority.  A packet that  *)
(* leaves moves its share from there to the service its class got, and     *)
(* anything else moves the classes of a priority alike: so lead, plus the  *)
(* difference of what the two are behind, does not grow.                   *)
(***************************************************************************)
LagOf(c)     == Lag(virtual_time[prio[c]], head_fin_time[c])
HeadShare(c) == Share(SkbSize(Head(fifo[c]).len), queue_weight[c])
Behind(c)    == LagOf(c) + HeadShare(c)

BehindWithin ==
    \A c \in Queues : fifo[c] # <<>> =>
        LagOf(c) \in Nat /\ HeadShare(c) \in 0 .. MaxShare /\ Behind(c) \in 0 .. Span

LeadInv ==
    \A c, d \in Queues :
        /\ lead[c][d] \in Int /\ lead[c][d] <= Span + MaxShare
        /\ ~ Competing(c, d) => lead[c][d] = 0
        /\ Competing(c, d) => lead[c][d] + Behind(c) - Behind(d) <= Span

\* What a class with packets is behind is at most one large packet of every class.
LEMMA BehindBounded == IInv => BehindWithin
<1>1. SUFFICES ASSUME IInv, NEW c \in Queues, fifo[c] # <<>>
               PROVE  LagOf(c) \in Nat /\ HeadShare(c) \in 0 .. MaxShare
                      /\ Behind(c) \in 0 .. Span
  BY DEF BehindWithin
<1>2. PICK p \in Prios : p = prio[c]
  BY <1>1 DEF IInv, TypeOK
<1>3. c \in Backlogged(p) /\ LagOf(c) = Lags(p)[c]
  BY <1>1, <1>2 DEF Backlogged, LagOf, Lags
<1>4. LagOf(c) \in Nat /\ LagOf(c) + MaxShare <= Span
  BY <1>1, <1>3, LagLimits
<1>5. Head(fifo[c]).len \in PktLens
  <2>1. fifo[c] \in Seq(Packets)
    BY <1>1 DEF IInv, TypeOK
  <2>2. Head(fifo[c]) \in Packets
    BY <1>1, <2>1, HeadTailProperties
  <2>3. QED
    BY <2>2 DEF Packets
<1>6. queue_weight[c] \in WeightChoices[c]
  BY <1>1 DEF IInv, WeightsConfigured
<1>7. HeadShare(c) \in Nat /\ HeadShare(c) <= MaxShare
  BY <1>5, <1>6, MaxShareFacts DEF HeadShare
<1>8. MaxShare \in Nat /\ Span \in Nat
  BY <1>1, SpanFacts DEF IInv
<1>9. QED
  BY <1>4, <1>7, <1>8 DEF Behind

\* A class is served if a packet of it leaves, by the share of that packet.
LEMMA ServedFacts ==
    ASSUME IInv, [Next]_vars, NEW x \in Queues
    PROVE  /\ Sending /\ x = HeadClass => Served(x) = HeadShare(x)
           /\ ~ Sending \/ x # HeadClass => Served(x) = 0
<1>1. fifo[x] \in Seq(Packets) /\ Len(fifo[x]) \in Nat
  BY LenProperties DEF IInv, TypeOK
<1>2. CASE Sending
  <2>1. CASE x = HeadClass
    <3>1. Len(fifo'[x]) = Len(fifo[x]) - 1
      BY <1>2, <2>1, TransmitFacts
    <3>2. wire'.size = SkbSize(Head(fifo[x]).len)
      BY <1>2, <2>1 DEF Sending, Transmit
    <3>3. Len(fifo'[x]) < Len(fifo[x])
      BY <1>1, <3>1
    <3>4. QED
      BY <1>2, <2>1, <3>2, <3>3 DEF Served, HeadShare
  <2>2. CASE x # HeadClass
    <3>1. fifo'[x] = fifo[x]
      BY <1>2, <2>2, TransmitFacts
    <3>2. ~ (Len(fifo'[x]) < Len(fifo[x]))
      BY <1>1, <3>1
    <3>3. QED
      BY <2>2, <3>2 DEF Served
  <2>3. QED
    BY <2>1, <2>2
<1>3. CASE Accepting
  <2>1. PICK c \in Queues, len \in PktLens : Admit(c, len)
    BY <1>3, ClassifyType DEF Accepting
  <2>2. Len(fifo'[x]) = Len(fifo[x]) \/ Len(fifo'[x]) = Len(fifo[x]) + 1
    BY <2>1, AdmitFifos
  <2>3. ~ (Len(fifo'[x]) < Len(fifo[x]))
    BY <1>1, <2>2
  <2>4. CASE ~ Sending
    BY <2>3, <2>4 DEF Served
  <2>5. QED
    BY <1>2, <2>4
<1>4. CASE ~ Sending /\ ~ Accepting
  <2>1. fifo' = fifo
    BY <1>4, OthersAlone DEF fifoVars
  <2>2. ~ (Len(fifo'[x]) < Len(fifo[x]))
    BY <1>1, <2>1
  <2>3. QED
    BY <1>4, <2>2 DEF Served
<1>5. QED
  BY <1>2, <1>3, <1>4

\* While the weights stay, a step moves the classes of a priority alike, but for the
\* share of the packet that leaves.
Shifted(k) ==
    \A x \in Queues : fifo[x] # <<>> /\ fifo'[x] # <<>> =>
        prio'[x] = prio[x] /\ Behind(x)' = Behind(x) - Served(x) + k[prio[x]]

LEMMA SendShifts ==
    ASSUME IInv, [Next]_vars, Sending
    PROVE  \E k \in [Prios -> Int] : Shifted(k)
<1>1. PICK c \in Queues, p \in Prios : c = HeadClass /\ p = PrioSchedule
  BY HeadFacts DEF Sending
<1>2. prio[c] = p /\ c \in Backlogged(p) /\ fifo[c] # <<>>
  BY <1>1, HeadFacts DEF Sending
<1>3. /\ queue_weight' = queue_weight /\ prio' = prio
      /\ \A d \in Queues : d # c => fifo'[d] = fifo[d]
      /\ len_bytes[c] - SkbSize(Head(fifo[c]).len) > 0 <=> fifo'[c] # <<>>
  BY <1>1, TransmitFacts DEF Sending, Transmit, sysctlVars
<1>4. Served(c) = HeadShare(c) /\ \A d \in Queues : d # c => Served(d) = 0
  BY <1>1, ServedFacts
<1>5. \A x \in Queues : fifo[x] # <<>> => LagOf(x) \in Nat /\ HeadShare(x) \in Int
  <2>1. MaxShare \in Int
    BY SpanFacts DEF IInv
  <2>2. QED
    BY <2>1, BehindBounded DEF BehindWithin
<1> DEFINE s == Share(SkbSize(Head(fifo'[c]).len), queue_weight[c])
           L == LagOf(c)
           t == IF fifo'[c] = <<>> \/ s <= L THEN 0 ELSE s - L
           k == [q \in Prios |-> IF q = p THEN t ELSE 0]
<1>6. L = Lags(p)[c] /\ L \in Nat
  BY <1>2, <1>5 DEF LagOf, Lags
<1>7. fifo'[c] # <<>> => s \in Nat
  BY <1>1, TransmitLags
<1>8. t \in Int
  <2> HIDE DEF s, L
  <2>1. QED
    BY <1>6, <1>7
<1>9. k \in [Prios -> Int] /\ k[p] = t /\ \A q \in Prios : q # p => k[q] = 0
  <2> HIDE DEF t
  <2>1. QED
    BY <1>8
<1> HIDE DEF k
<1>10. ASSUME NEW x \in Queues, fifo[x] # <<>>, fifo'[x] # <<>>
       PROVE  prio'[x] = prio[x] /\ Behind(x)' = Behind(x) - Served(x) + k[prio[x]]
  <2>1. prio'[x] = prio[x] /\ prio[x] \in Prios
    BY <1>3 DEF IInv, TypeOK
  <2>2. LagOf(x) \in Int /\ HeadShare(x) \in Int
    BY <1>5, <1>10
  <2>3. CASE x = c
    <3>1. Lags(p)'[c] = IF s <= L THEN L - s ELSE 0
      BY <1>1, <1>6, <1>10, <2>3, TransmitLags
    <3>2. LagOf(c)' = Lags(p)'[c]
      BY <1>2, <1>3 DEF LagOf, Lags
    <3>3. HeadShare(c)' = s
      BY <1>3 DEF HeadShare
    <3>4. Behind(c)' = Lags(p)'[c] + s /\ Behind(c) = L + HeadShare(c)
      BY <3>2, <3>3 DEF Behind
    <3>5. s \in Nat /\ fifo'[c] # <<>>
      BY <1>7, <1>10, <2>3
    <3>6. HeadShare(c) \in Int
      BY <2>2, <2>3
    <3> DEFINE w == HeadShare(c)
               m == Lags(p)'[c]
    <3>7. m + s = (L + w) - w + t
      <4> HIDE DEF s, L, w, m
      <4>1. QED
        BY <1>6, <3>1, <3>5, <3>6 DEF w, m
    <3>8. Behind(c)' = m + s /\ Behind(c) = L + w
      BY <3>4
    <3>9. Behind(c)' = Behind(c) - Served(c) + k[prio[c]]
      <4> HIDE DEF t, s, L, m, w
      <4>1. QED
        BY <1>2, <1>4, <1>9, <3>7, <3>8 DEF w
    <3>10. QED
      BY <2>1, <2>3, <3>9
  <2>4. CASE x # c /\ prio[x] = p
    <3>1. x \in Backlogged(p)
      BY <1>10, <2>4 DEF Backlogged
    <3>2. LagOf(x) = Lags(p)[x] /\ LagOf(x)' = Lags(p)'[x]
      BY <2>1, <2>4 DEF LagOf, Lags
    <3>3. Lags(p)'[x] = Lags(p)[x] + t
      <4>1. CASE fifo'[c] = <<>>
        <5>1. UNCHANGED <<head_fin_time, virtual_time>>
          BY <1>1, <1>3, <4>1 DEF Sending, Transmit
        <5>2. Lags(p)' = Lags(p)
          BY <5>1 DEF Lags
        <5>3. QED
          BY <2>2, <3>2, <4>1, <5>2
      <4>2. CASE fifo'[c] # <<>>
        <5>1. Lags(p)'[x] = Lags(p)[x] + (IF s <= L THEN 0 ELSE s - L)
          BY <1>1, <1>6, <2>4, <3>1, <4>2, TransmitLags
        <5>2. QED
          BY <4>2, <5>1
      <4>3. QED
        BY <4>1, <4>2
    <3>4. HeadShare(x)' = HeadShare(x)
      BY <1>3, <2>4 DEF HeadShare
    <3>5. Behind(x)' = Behind(x) + t
      <4> HIDE DEF t
      <4> DEFINE l == LagOf(x)
                 w == HeadShare(x)
      <4>1. Behind(x)' = (l + t) + w /\ Behind(x) = l + w
        BY <3>2, <3>3, <3>4 DEF Behind
      <4>2. l \in Int /\ w \in Int
        BY <2>2
      <4> HIDE DEF l, w
      <4>3. QED
        BY <1>8, <4>1, <4>2
    <3>6. Behind(x) \in Int
      BY <2>2 DEF Behind
    <3>7. Behind(x) - 0 = Behind(x)
      BY <3>6
    <3>8. QED
      BY <1>4, <1>9, <2>1, <2>4, <3>5, <3>7
  <2>5. CASE prio[x] # p
    <3>1. x # c
      BY <1>2, <2>5
    <3>2. virtual_time'[prio[x]] = virtual_time[prio[x]] /\ head_fin_time'[x] = head_fin_time[x]
      <4>1. CASE fifo'[c] = <<>>
        BY <1>1, <1>3, <4>1 DEF Sending, Transmit
      <4>2. CASE fifo'[c] # <<>>
        BY <1>1, <2>1, <2>5, <3>1, <4>2, TransmitLags
      <4>3. QED
        BY <4>1, <4>2
    <3>3. Behind(x)' = Behind(x)
      BY <1>3, <2>1, <3>1, <3>2 DEF Behind, LagOf, HeadShare
    <3>4. Behind(x) \in Int
      BY <2>2 DEF Behind
    <3>5. Behind(x) = Behind(x) - 0 + 0
      BY <3>4
    <3>6. QED
      BY <1>4, <1>9, <2>1, <2>5, <3>1, <3>3, <3>5
  <2>6. QED
    BY <2>3, <2>4, <2>5
<1>11. QED
  BY <1>9, <1>10 DEF Shifted

LEMMA AdmitShifts ==
    ASSUME IInv, [Next]_vars, ~ Sending, NEW c \in Queues, NEW len \in PktLens, Admit(c, len),
           queue_weight' = queue_weight
    PROVE  \E k \in [Prios -> Int] : Shifted(k)
<1>1. \A x \in Queues : Served(x) = 0
  BY ServedFacts
<1>2. \A x \in Queues : fifo[x] # <<>> => LagOf(x) \in Nat /\ HeadShare(x) \in Int
  <2>1. MaxShare \in Int
    BY SpanFacts DEF IInv
  <2>2. QED
    BY <2>1, BehindBounded DEF BehindWithin
<1>3. \A x \in Queues : fifo[x] # <<>> => HeadShare(x)' = HeadShare(x)
  BY AdmitFifos DEF HeadShare
<1>4. CASE fifo[c] # <<>>
  <2>1. UNCHANGED <<prio, head_fin_time, virtual_time>>
    BY <1>4, AdmitTagFacts
  <2> DEFINE k == [q \in Prios |-> 0]
  <2>2. ASSUME NEW x \in Queues, fifo[x] # <<>>
        PROVE  prio'[x] = prio[x] /\ Behind(x)' = Behind(x) - Served(x) + k[prio[x]]
    <3>1. Behind(x)' = Behind(x)
      BY <1>3, <2>1, <2>2 DEF Behind, LagOf
    <3>2. Behind(x) \in Int /\ prio[x] \in Prios
      BY <1>2, <2>2 DEF IInv, TypeOK, Behind
    <3>3. QED
      BY <1>1, <2>1, <3>1, <3>2
  <2>3. k \in [Prios -> Int]
    OBVIOUS
  <2> HIDE DEF k
  <2>4. QED
    BY <2>2, <2>3 DEF Shifted
<1>5. CASE fifo[c] = <<>>
  <2>1. PICK p \in Prios : p = queue_prio[c]
    BY DEF IInv, TypeOK
  <2> DEFINE s == Share(SkbSize(len), queue_weight[c])
             h == (virtual_time[p] + s) % TimeWrap
             k == [q \in Prios |-> IF q = p THEN s ELSE 0]
  <2>2. /\ s \in Nat /\ s <= MaxShare /\ virtual_time'[p] = h
        /\ \A d \in Queues : d # c => head_fin_time'[d] = head_fin_time[d]
        /\ \A q \in Prios : q # p => virtual_time'[q] = virtual_time[q]
    BY <1>5, <2>1, AdmitTagFacts
  <2> HIDE DEF s
  <2>3. k \in [Prios -> Int] /\ k[p] = s /\ \A q \in Prios : q # p => k[q] = 0
    BY <2>2
  <2> HIDE DEF k
  <2>4. ASSUME NEW x \in Queues, fifo[x] # <<>>
        PROVE  prio'[x] = prio[x] /\ Behind(x)' = Behind(x) - Served(x) + k[prio[x]]
    <3>1. x # c
      BY <1>5, <2>4
    <3>2. prio'[x] = prio[x] /\ prio[x] \in Prios
      BY <3>1, AdmitFacts DEF IInv, TypeOK
    <3>3. LagOf(x) \in Nat /\ HeadShare(x) \in Int /\ Behind(x) \in Int
      BY <1>2, <2>4 DEF Behind
    <3>4. CASE prio[x] = p
      <4>1. x \in Backlogged(p)
        BY <2>4, <3>4 DEF Backlogged
      <4>2. /\ virtual_time[p] \in VirtualTimes /\ head_fin_time[x] \in VirtualTimes
            /\ Lags(p)[x] + MaxShare <= Span
        BY <4>1, LagLimits
      <4>3. Span < TimeWrap /\ MaxShare \in Nat /\ Span \in Nat /\ TimeWrap \in Nat
        BY SpanFacts DEF IInv
      <4>4. LagOf(x) = Lags(p)[x] /\ LagOf(x) = Lag(virtual_time[p], head_fin_time[x])
        BY <3>4 DEF LagOf, Lags
      <4>5. Lag(virtual_time[p], head_fin_time[x]) + s < TimeWrap
        BY <2>2, <3>3, <4>2, <4>3, <4>4
      <4>6. Lag(h, head_fin_time[x]) = LagOf(x) + s
        BY <2>2, <4>2, <4>4, <4>5, LagForward
      <4>7. LagOf(x)' = LagOf(x) + s
        BY <2>2, <3>1, <3>2, <3>4, <4>6 DEF LagOf
      <4> DEFINE l == LagOf(x)
                 w == HeadShare(x)
      <4>8. Behind(x)' = (l + s) + w /\ Behind(x) = l + w
        BY <1>3, <2>4, <4>7 DEF Behind
      <4>9. (l + s) + w = (l + w) - 0 + s
        <5> HIDE DEF l, w
        <5>1. l \in Int /\ w \in Int
          BY <3>3 DEF l, w
        <5>2. QED
          BY <2>2, <5>1
      <4> HIDE DEF l, w
      <4>10. QED
        BY <1>1, <2>3, <3>2, <3>4, <4>8, <4>9
    <3>5. CASE prio[x] # p
      <4>1. virtual_time'[prio[x]] = virtual_time[prio[x]] /\ head_fin_time'[x] = head_fin_time[x]
        BY <2>2, <3>1, <3>2, <3>5
      <4>2. Behind(x)' = Behind(x)
        BY <1>3, <2>4, <3>2, <4>1 DEF Behind, LagOf
      <4>3. Behind(x) = Behind(x) - 0 + 0
        BY <3>3
      <4>4. QED
        BY <1>1, <2>3, <3>2, <3>5, <4>2, <4>3
    <3>6. QED
      BY <3>4, <3>5
  <2>5. QED
    BY <2>3, <2>4 DEF Shifted
<1>6. QED
  BY <1>4, <1>5

LEMMA StepShifts ==
    ASSUME IInv, [Next]_vars, queue_weight' = queue_weight
    PROVE  \E k \in [Prios -> Int] : Shifted(k)
<1>1. CASE Sending
  BY <1>1, SendShifts
<1>2. CASE ~ Sending /\ Accepting
  <2>1. PICK c \in Queues, len \in PktLens : Admit(c, len)
    BY <1>2, ClassifyType DEF Accepting
  <2>2. QED
    BY <1>2, <2>1, AdmitShifts
<1>3. CASE ~ Sending /\ ~ Accepting
  <2>1. UNCHANGED <<fifo, prio, head_fin_time, virtual_time>>
    BY <1>3, OthersAlone DEF fifoVars, tagVars
  <2> DEFINE k == [q \in Prios |-> 0]
  <2>2. ASSUME NEW x \in Queues, fifo[x] # <<>>
        PROVE  prio'[x] = prio[x] /\ Behind(x)' = Behind(x) - Served(x) + k[prio[x]]
    <3>1. Behind(x)' = Behind(x) /\ prio'[x] = prio[x]
      BY <2>1 DEF Behind, LagOf, HeadShare
    <3>2. Behind(x) \in Int /\ prio[x] \in Prios
      <4>1. Span \in Int
        BY SpanFacts DEF IInv
      <4>2. QED
        BY <2>2, <4>1, BehindBounded DEF IInv, TypeOK, BehindWithin
    <3>3. Served(x) = 0
      BY <1>3, ServedFacts
    <3>4. QED
      BY <3>1, <3>2, <3>3
  <2>3. k \in [Prios -> Int]
    OBVIOUS
  <2> HIDE DEF k
  <2>4. QED
    BY <2>2, <2>3 DEF Shifted
<1>4. QED
  BY <1>1, <1>2, <1>3

\* Two classes that compete after a step and did not before: nobody was served.
LEMMA NewRivals ==
    ASSUME IInv, [Next]_vars, NEW c \in Queues, NEW d \in Queues,
           Competing(c, d)', ~ Competing(c, d)
    PROVE  ~ Sending
<1>1. SUFFICES ASSUME Sending PROVE FALSE
  OBVIOUS
<1>2. PICK e \in Queues : e = HeadClass
  BY <1>1, HeadFacts DEF Sending
<1>3. prio' = prio /\ fifo[e] # <<>> /\ \A x \in Queues : x # e => fifo'[x] = fifo[x]
  BY <1>1, <1>2, HeadFacts, TransmitFacts DEF Sending
<1>4. QED
  BY <1>3 DEF Competing

\* One step of the history variable.
LEMMA LeadStep ==
    ASSUME IInv, BehindWithin, BehindWithin', LeadInv, [Next]_vars, Compare
    PROVE  LeadInv'
<1>1. MaxShare \in Nat /\ Span \in Nat /\ MaxShare <= Span
  BY SpanFacts DEF IInv
<1>2. SUFFICES ASSUME NEW c \in Queues, NEW d \in Queues
               PROVE  /\ lead'[c][d] \in Int /\ lead'[c][d] <= Span + MaxShare
                      /\ ~ Competing(c, d)' => lead'[c][d] = 0
                      /\ Competing(c, d)' =>
                            lead'[c][d] + Behind(c)' - Behind(d)' <= Span
  BY DEF LeadInv
<1>3. lead'[c][d] = IF Competing(c, d)' /\ queue_weight' = queue_weight
                    THEN lead[c][d] + Served(c) - Served(d) ELSE 0
  BY DEF Compare
<1>4. ASSUME Competing(c, d)'
      PROVE  Behind(c)' \in Nat /\ Behind(c)' <= Span /\ Behind(d)' \in Nat
  <2>1. Behind(c)' \in 0 .. Span /\ Behind(d)' \in 0 .. Span
    BY <1>4 DEF Competing, BehindWithin
  <2>2. QED
    BY <1>1, <2>1
<1>5. CASE lead'[c][d] = 0
  BY <1>1, <1>4, <1>5
<1>6. CASE lead'[c][d] # 0
  <2>1. Competing(c, d)' /\ queue_weight' = queue_weight
        /\ lead'[c][d] = lead[c][d] + Served(c) - Served(d)
    BY <1>3, <1>6
  <2>2. Competing(c, d)
    <3>1. SUFFICES ASSUME ~ Competing(c, d) PROVE FALSE
      OBVIOUS
    <3>2. Served(c) = 0 /\ Served(d) = 0
      BY <2>1, <3>1, NewRivals, ServedFacts
    <3>3. lead[c][d] = 0
      BY <3>1 DEF LeadInv
    <3>4. QED
      BY <1>6, <2>1, <3>2, <3>3
  <2>3. /\ fifo[c] # <<>> /\ fifo[d] # <<>> /\ fifo'[c] # <<>> /\ fifo'[d] # <<>>
        /\ prio[c] = prio[d]
    BY <2>1, <2>2 DEF Competing
  <2>4. PICK k \in [Prios -> Int] : Shifted(k)
    BY <2>1, StepShifts
  <2>5. PICK t \in Int : t = k[prio[c]]
    BY <2>3, <2>4 DEF IInv, TypeOK
  <2>6. Behind(c)' = Behind(c) - Served(c) + t /\ Behind(d)' = Behind(d) - Served(d) + t
    BY <2>3, <2>4, <2>5 DEF Shifted
  <2>7. /\ LagOf(c) \in Nat /\ HeadShare(c) \in 0 .. MaxShare
        /\ LagOf(d) \in Nat /\ HeadShare(d) \in 0 .. MaxShare
        /\ Behind(c) \in Nat /\ Behind(d) \in Nat
    BY <1>1, <2>3 DEF BehindWithin
  <2>8. /\ lead[c][d] \in Int /\ lead[c][d] <= Span + MaxShare
        /\ lead[c][d] + Behind(c) - Behind(d) <= Span
    BY <2>2 DEF LeadInv
  <2>9. Served(c) \in Nat /\ Served(d) \in Nat
    BY <1>1, <2>7, ServedFacts
  <2>10. lead'[c][d] \in Int /\ lead'[c][d] + Behind(c)' - Behind(d)' <= Span
    BY <2>1, <2>6, <2>7, <2>8, <2>9
  <2>11. lead'[c][d] <= Span + MaxShare
    <3> DEFINE n == lead[c][d]
               f == Served(c)
               g == Served(d)
    <3>0. lead'[c][d] = n + f - g /\ n \in Int /\ f \in Nat /\ g \in Nat /\ n <= Span + MaxShare
      BY <2>1, <2>8, <2>9
    <3>1. CASE Served(c) = 0 \/ c = d
      <4>1. f = 0 \/ f = g
        BY <3>1
      <4> HIDE DEF n, f, g
      <4>2. QED
        BY <1>1, <3>0, <4>1
    <3> HIDE DEF n, f, g
    <3>2. CASE Served(c) # 0 /\ c # d
      <4>1. Sending /\ c = HeadClass /\ Served(c) = HeadShare(c) /\ Served(d) = 0
        BY <3>2, ServedFacts
      <4>2. PICK p \in Prios : p = PrioSchedule
        BY <4>1, HeadFacts DEF Sending
      <4>3. prio[c] = p /\ d \in Backlogged(p)
        BY <2>3, <4>1, <4>2, HeadFacts DEF Sending, Backlogged
      <4>4. Lags(p)[d] <= Lags(p)[c]
        BY <4>1, <4>2, <4>3, HeadFacts DEF Sending
      <4>5. LagOf(d) <= LagOf(c)
        BY <2>3, <4>3, <4>4 DEF LagOf, Lags
      <4> DEFINE a == LagOf(c)
                 b == LagOf(d)
                 u == HeadShare(c)
                 w == HeadShare(d)
                 m == lead[c][d]
      <4>6. m + (a + u) - (b + w) <= Span
        BY <2>8 DEF Behind
      <4>7. lead'[c][d] = m + u - 0
        BY <2>1, <4>1
      <4>8. a \in Nat /\ b \in Nat /\ u \in Nat /\ w \in Nat /\ w <= MaxShare /\ m \in Int /\ b <= a
        BY <1>1, <2>7, <2>8, <4>5
      <4> HIDE DEF a, b, u, w, m
      <4>9. m + u - 0 <= Span + MaxShare
        BY <1>1, <4>6, <4>8
      <4>10. QED
        BY <4>7, <4>9
    <3>3. QED
      BY <3>1, <3>2
  <2>12. QED
    BY <2>1, <2>10, <2>11
<1>7. QED
  BY <1>5, <1>6

\* The history invariant holds in every reachable state.
LEMMA LeadInductive == FairnessSpec => []LeadInv
<1>1. FairnessInit => LeadInv
  <2>1. SUFFICES ASSUME FairnessInit PROVE LeadInv
    OBVIOUS
  <2>2. IInv
    BY <2>1, InitInv DEF FairnessInit
  <2>3. 0 <= Span + MaxShare
    BY <2>2, SpanFacts DEF IInv
  <2>4. ASSUME NEW c \in Queues, NEW d \in Queues PROVE ~ Competing(c, d) /\ lead[c][d] = 0
    BY <2>1 DEF FairnessInit, Init, Competing
  <2>5. QED
    BY <2>3, <2>4 DEF LeadInv
<1>2. FairnessInit => Init
  BY DEF FairnessInit
<1>3. [FairnessNext]_<<vars, lead>> => [Next]_vars
  BY DEF FairnessNext
<1>4. IInv /\ BehindWithin /\ BehindWithin' /\ LeadInv /\ [FairnessNext]_<<vars, lead>>
        => LeadInv'
  <2>1. SUFFICES ASSUME IInv, BehindWithin, BehindWithin', LeadInv,
                        [FairnessNext]_<<vars, lead>>
                 PROVE  LeadInv'
    OBVIOUS
  <2>2. CASE FairnessNext
    BY <2>1, <2>2, LeadStep DEF FairnessNext
  <2>3. CASE UNCHANGED <<vars, lead>>
    <3>1. UNCHANGED <<lead, fifo, prio, queue_weight, head_fin_time, virtual_time>>
      BY <2>3 DEF vars, fifoVars, tagVars, sysctlVars
    <3>2. QED
      BY <2>1, <3>1 DEF LeadInv, Competing, Behind, LagOf, HeadShare
  <2>4. QED
    BY <2>1, <2>2, <2>3
<1>5. FairnessSpec => Spec
  BY <1>2, <1>3, PTL DEF FairnessSpec, Spec
<1>6. IInv => BehindWithin
  BY BehindBounded
<1>7. QED
  BY <1>1, <1>4, <1>5, <1>6, Inductive, PTL DEF FairnessSpec

\* Over any period in which two classes of a priority both have packets and the
\* weights stay, neither gets ahead of the other by more virtual service than a
\* large packet of every class and one more, whatever the run before that period was.
THEOREM WeightedlyFair == FairnessSpec => []WeightedFairness
<1>1. IInv /\ LeadInv => WeightedFairness
  <2>1. SUFFICES ASSUME IInv, LeadInv, NEW c \in Queues, NEW d \in Queues
                 PROVE  lead[c][d] <= (NumQueues + 1) * MaxShare
    BY DEF WeightedFairness
  <2>2. lead[c][d] <= Span + MaxShare
    BY <2>1 DEF LeadInv
  <2>3. (NumQueues + 1) * MaxShare = Span + MaxShare
    <3>1. NumQueues \in Nat /\ MaxShare \in Nat
      BY <2>1, SpanFacts, BufferAssumption DEF IInv
    <3>2. QED
      BY <3>1 DEF Span
  <2>4. QED
    BY <2>2, <2>3
<1>2. FairnessInit => Init
  BY DEF FairnessInit
<1>3. [FairnessNext]_<<vars, lead>> => [Next]_vars
  BY DEF FairnessNext
<1>4. FairnessSpec => Spec
  BY <1>2, <1>3, PTL DEF FairnessSpec, Spec
<1>5. QED
  BY <1>1, <1>4, Inductive, LeadInductive, PTL
=============================================================================
