--------------------------- MODULE PrioWfq_proofs ---------------------------
(***************************************************************************)
(* sch_prio_wfq for any number of priority and WFQ queues, any packets and *)
(* any writes to its parameters: its counters are exact, the finish times  *)
(* of the WFQ queues stay together on the circle of virtual times, the     *)
(* packet that leaves finishes first, and the qdisc implements a port of   *)
(* FIFOs in strict priority (PriorityFifos).                               *)
(***************************************************************************)
EXTENDS PrioWfqQdisc, PrioPortLemmas

\* The WFQ queues' lags behind the virtual time, and the virtual time one large packet
\* of every WFQ queue takes.
Lags == [c \in WfqQueues |-> Lag(virtual_time, head_finish_time[c])]

Span == (NumQueues - NumPrioQueues) * MaxShare

WeightsConfigured == \A c \in WfqQueues : queue_weight[c] \in WeightChoices[c]

\* In order of their lags, the first lags by nothing and each by at most one large packet
\* more than those before it.
TagsOrdered == Ordered(Backlogged, Lags, MaxShare)

\* The inductive invariant.  The finish times stay ordered only because dequeue takes the
\* queue that lags most, which it finds by the counters.
IInv == TypeOK /\ WeightsConfigured /\ AccountingExact /\ TagsOrdered
-----------------------------------------------------------------------------
LEMMA Kinds ==
    /\ PrioQueues \subseteq Queues /\ WfqQueues \subseteq Queues
    /\ WfqQueues = NumPrioQueues .. NumQueues - 1
    /\ NumPrioQueues \in Nat /\ NumQueues \in Nat /\ NumPrioQueues <= NumQueues - 1
    /\ \A c \in WfqQueues : c \notin PrioQueues
    /\ \A c \in Queues : c \in PrioQueues \/ c \in WfqQueues
<1>1. NumQueues \in Nat \ {0} /\ NumPrioQueues \in 0 .. NumQueues
  BY BufferAssumption, PrioAssumption
<1>2. WfqQueues = NumPrioQueues .. NumQueues - 1 /\ PrioQueues \subseteq Queues
  BY <1>1 DEF WfqQueues, PrioQueues, Queues
<1>3. WfqQueues # {}
  BY PrioWfqAssumption
<1>4. NumPrioQueues <= NumQueues - 1
  BY <1>1, <1>2, <1>3
<1>5. QED
  BY <1>1, <1>2, <1>4 DEF WfqQueues

LEMMA PortFacts ==
    ASSUME IInv
    PROVE  /\ PortTypeOK /\ PortAccounting
           /\ fifo \in [Queues -> Seq(Packets)] /\ len_bytes \in [Queues -> Int]
           /\ sum_prio_len_bytes = TotalOver(PrioQueues, len_bytes)
  BY DEF IInv, TypeOK, AccountingExact, PortTypeOK

LEMMA TagTypes ==
    ASSUME IInv
    PROVE  /\ head_finish_time \in [WfqQueues -> VirtualTimes] /\ virtual_time \in VirtualTimes
           /\ queue_weight \in [WfqQueues -> 1 .. MinPktBytes]
           /\ \A c \in WfqQueues : queue_weight[c] \in WeightChoices[c]
  BY DEF IInv, TypeOK, WeightsConfigured

\* A packet takes some virtual time, and no more than MaxShare.
LEMMA MaxShareFacts ==
    ASSUME NEW len \in PktLens, NEW c \in WfqQueues, NEW w \in WeightChoices[c]
    PROVE  /\ Share(SkbSize(len), w) \in Nat /\ 1 <= Share(SkbSize(len), w)
           /\ MaxShare \in Nat \ {0} /\ Share(SkbSize(len), w) <= MaxShare
<1> DEFINE W == UNION {WeightChoices[q] : q \in WfqQueues}
<1>1. W \in SUBSET (1 .. MinPktBytes) /\ w \in W
  BY PrioWfqAssumption
<1>2. MaxShare = LargestShare(W)
  BY DEF MaxShare, LargestShare
<1> HIDE DEF W
<1>3. QED
  BY <1>1, <1>2, LargestShareFacts, PrioWfqAssumption

\* What the range of virtual times leaves room for.
LEMMA SpanFacts ==
    ASSUME WeightsConfigured
    PROVE  /\ MaxShare \in Nat \ {0} /\ TimeWrap \in Nat \ {0}
           /\ Span \in Nat /\ MaxShare <= Span
           /\ (NumQueues - NumPrioQueues - 1) * MaxShare = Span - MaxShare
           /\ 2 * MaxShare < TimeWrap /\ 2 * Span <= TimeWrap /\ Span < TimeWrap
<1>1. PICK len \in PktLens : TRUE
  BY PrioWfqAssumption
<1>2. PICK c \in WfqQueues : TRUE
  BY PrioWfqAssumption
<1>3. MaxShare \in Nat \ {0}
  BY <1>1, <1>2, MaxShareFacts DEF WeightsConfigured
<1> DEFINE n == NumQueues - NumPrioQueues
<1>4. n \in Nat \ {0} /\ n - 1 \in Nat
  BY Kinds
<1>5. 2 * MaxShare < TimeWrap /\ 2 * n * MaxShare <= TimeWrap /\ Span = n * MaxShare
  BY PrioWfqAssumption DEF Span
<1> HIDE DEF n
<1>6. (n - 1) * MaxShare \in Nat /\ Span = (n - 1) * MaxShare + MaxShare
  BY <1>3, <1>4, <1>5
<1>7. 2 * n * MaxShare = 2 * Span
  BY <1>3, <1>4, <1>5
<1>8. QED
  BY <1>3, <1>5, <1>6, <1>7, WrapAssumption DEF n

LEMMA BackloggedFinite ==
    /\ IsFiniteSet(Backlogged) /\ Backlogged \subseteq WfqQueues
    /\ Cardinality(Backlogged) \in Nat /\ Cardinality(Backlogged) <= NumQueues - NumPrioQueues
<1>1. IsFiniteSet(WfqQueues) /\ Cardinality(WfqQueues) = NumQueues - NumPrioQueues
  BY Kinds, FS_Interval
<1>2. Backlogged \in SUBSET WfqQueues
  BY DEF Backlogged
<1>3. IsFiniteSet(Backlogged) /\ Cardinality(Backlogged) <= NumQueues - NumPrioQueues
  BY <1>1, <1>2, FS_Subset
<1>4. QED
  BY <1>2, <1>3, FS_CardinalityType

\* The lags of queues with packets leave room for one more packet in half the range of
\* virtual times.
LEMMA LagLimits ==
    ASSUME IInv
    PROVE  /\ Lags \in [WfqQueues -> Nat]
           /\ \A c \in Backlogged : /\ c \in WfqQueues
                                    /\ Lags[c] + MaxShare <= Span
                                    /\ 2 * Lags[c] < TimeWrap
                                    /\ Lags[c] <= (Cardinality(Backlogged) - 1) * MaxShare
<1>1. Lags \in [WfqQueues -> Nat]
  BY TagTypes, LagValue DEF Lags, VirtualTimes
<1>2. ASSUME NEW c \in Backlogged
      PROVE  /\ c \in WfqQueues
             /\ Lags[c] + MaxShare <= Span
             /\ 2 * Lags[c] < TimeWrap
             /\ Lags[c] <= (Cardinality(Backlogged) - 1) * MaxShare
  <2> DEFINE B == Backlogged
             L == Lags
             m == Cardinality(B) - 1
             n == NumQueues - NumPrioQueues - 1
  <2>1. /\ IsFiniteSet(B) /\ B \subseteq WfqQueues /\ Cardinality(B) \in Nat
        /\ Cardinality(B) <= NumQueues - NumPrioQueues
    BY BackloggedFinite
  <2>2. \A d \in B : L[d] \in Nat
    BY <1>1, <2>1
  <2>3. Ordered(B, L, MaxShare)
    BY DEF IInv, TagsOrdered
  <2>4. /\ MaxShare \in Nat \ {0} /\ Span \in Nat /\ n * MaxShare = Span - MaxShare
        /\ 2 * Span <= TimeWrap /\ TimeWrap \in Nat
    BY SpanFacts DEF IInv
  <2>5. c \in B /\ L[c] \in Nat
    BY <1>2, <2>2
  <2> HIDE DEF B, L
  <2>6. Cardinality(B) \in Nat \ {0} /\ L[c] <= m * MaxShare
    BY <2>1, <2>2, <2>3, <2>4, <2>5, LagBound
  <2>7. m \in Nat /\ n \in Nat /\ m <= n
    BY <2>1, <2>6, Kinds
  <2>8. m * MaxShare <= n * MaxShare /\ m * MaxShare \in Nat
    <3> HIDE DEF m, n
    <3>1. QED
      BY <2>4, <2>7, Products
  <2> HIDE DEF m, n
  <2>9. L[c] + MaxShare <= Span /\ 2 * L[c] < TimeWrap
    BY <2>4, <2>5, <2>6, <2>8
  <2>10. QED
    BY <2>1, <2>5, <2>6, <2>9 DEF B, L, m
<1>3. QED
  BY <1>1, <1>2

\* A queue has bytes counted just when it has packets, and so has the port.
LEMMA BusyIff ==
    ASSUME IInv
    PROVE  /\ \A c \in Queues : /\ len_bytes[c] = 0 <=> fifo[c] = <<>>
                                /\ len_bytes[c] > 0 <=> fifo[c] # <<>>
           /\ sum_len_bytes > 0 => \E c \in Queues : fifo[c] # <<>>
<1>1. \A c \in Queues : /\ len_bytes[c] \in Nat
                        /\ fifo[c] = <<>> => len_bytes[c] = 0
                        /\ fifo[c] # <<>> => len_bytes[c] > 0
  BY PortFacts, BytesType DEF PortAccounting, Counted
<1>2. sum_len_bytes = Total(len_bytes) /\ len_bytes \in [Queues -> Int]
  BY PortFacts DEF PortAccounting, Counted
<1>3. ASSUME \A c \in Queues : fifo[c] = <<>> PROVE sum_len_bytes = 0
  <2>1. \A c \in Queues : len_bytes[c] = 0
    BY <1>1, <1>3
  <2>2. QED
    BY <1>2, <2>1, TotalZero
<1>4. QED
  BY <1>1, <1>3
-----------------------------------------------------------------------------
\* The search of dequeue ends with a WFQ queue that lags most.
LEMMA HeadFacts ==
    ASSUME IInv, WfqTurn
    PROVE  /\ \A d \in PrioQueues : fifo[d] = <<>>
           /\ HeadClass \in Backlogged /\ HeadClass \in WfqQueues /\ HeadClass \in Queues
           /\ fifo[HeadClass] # <<>>
           /\ \A d \in Backlogged : Lags[d] <= Lags[HeadClass]
<1> DEFINE Is(f) == f = [c \in WfqQueues \cup {NumPrioQueues - 1} |->
                            IF c = NumPrioQueues - 1 THEN -1
                            ELSE IF /\ len_bytes[c] > 0
                                    /\ f[c - 1] = -1
                                         \/ TimeBefore(head_finish_time[c],
                                                       head_finish_time[f[c - 1]])
                                 THEN c ELSE f[c - 1]]
           best == CHOOSE f : Is(f)
           first == NumPrioQueues
           n == NumQueues
<1>1. \A d \in PrioQueues : fifo[d] = <<>>
  BY PortFacts, PrioSumFacts DEF WfqTurn, PrioTurn
<1>2. Backlogged # {}
  <2>1. PICK c \in Queues : fifo[c] # <<>>
    BY BusyIff DEF WfqTurn
  <2>2. QED
    BY <1>1, <2>1, Kinds DEF Backlogged
<1>3. \A c \in WfqQueues : c \in Backlogged <=> len_bytes[c] > 0
  BY BusyIff, Kinds DEF Backlogged
<1>4. /\ first \in Nat /\ n \in Nat /\ n >= first /\ WfqQueues = first .. n - 1
      /\ Backlogged \in SUBSET (first .. n - 1)
  BY Kinds DEF Backlogged
<1>5. HeadClass = best[n - 1]
  BY DEF HeadClass
<1>6. ASSUME NEW f PROVE Is(f) <=> IsSearch(f, first, n, Backlogged, head_finish_time)
  <2>1. \A c \in WfqQueues \cup {first - 1} :
            c # first - 1 => (len_bytes[c] > 0 <=> c \in Backlogged)
    BY <1>3
  <2>2. QED
    BY <1>4, <2>1 DEF IsSearch, Better
<1>7. \E f : IsSearch(f, first, n, Backlogged, head_finish_time)
  BY <1>4, SearchExists
<1>8. \E f : Is(f)
  BY <1>6, <1>7
<1> HIDE DEF Is
<1>9. Is(best)
  BY <1>8
<1> HIDE DEF best
<1>10. IsSearch(best, first, n, Backlogged, head_finish_time)
  BY <1>6, <1>9
<1>11. virtual_time \in VirtualTimes
  BY TagTypes
<1>12. \A c \in Backlogged : /\ head_finish_time[c] \in VirtualTimes
                             /\ 2 * Lag(virtual_time, head_finish_time[c]) < TimeWrap
                             /\ Lags[c] = Lag(virtual_time, head_finish_time[c])
  BY TagTypes, LagLimits DEF Lags
<1> HIDE DEF first, n
<1>13. /\ best[n - 1] \in Backlogged
       /\ \A d \in Backlogged : Lag(virtual_time, head_finish_time[d])
                                    <= Lag(virtual_time, head_finish_time[best[n - 1]])
  BY <1>2, <1>4, <1>10, <1>11, <1>12, SearchFinds
<1>14. HeadClass \in Backlogged /\ \A d \in Backlogged : Lags[d] <= Lags[HeadClass]
  BY <1>5, <1>12, <1>13
<1>15. QED
  BY <1>1, <1>14, Kinds DEF Backlogged
-----------------------------------------------------------------------------
\* Steps that leave the finish times and the WFQ queues that have packets alone.
LEMMA SameTags ==
    ASSUME IInv, UNCHANGED tagVars, \A c \in WfqQueues : fifo'[c] # <<>> <=> fifo[c] # <<>>
    PROVE  /\ head_finish_time' \in [WfqQueues -> VirtualTimes] /\ virtual_time' \in VirtualTimes
           /\ TagsOrdered'
<1>1. UNCHANGED <<head_finish_time, virtual_time>>
  BY DEF tagVars
<1>2. Backlogged' = Backlogged
  BY DEF Backlogged
<1>3. Lags' = Lags
  BY <1>1 DEF Lags
<1>4. QED
  BY <1>1, <1>2, <1>3, TagTypes DEF IInv, TagsOrdered

LEMMA SameWfq ==
    ASSUME IInv, PortTypeOK', PortAccounting', fifo' = fifo, len_bytes' = len_bytes,
           UNCHANGED wfqVars
    PROVE  IInv'
<1>1. UNCHANGED <<queue_weight, tagVars, sum_prio_len_bytes>>
  BY DEF wfqVars
<1>2. /\ head_finish_time' \in [WfqQueues -> VirtualTimes] /\ virtual_time' \in VirtualTimes
      /\ TagsOrdered'
  BY <1>1, SameTags
<1>3. TypeOK' /\ WeightsConfigured'
  BY <1>1, <1>2 DEF IInv, TypeOK, WeightsConfigured
<1>4. AccountingExact'
  BY <1>1 DEF IInv, AccountingExact
<1>5. QED
  BY <1>2, <1>3, <1>4 DEF IInv
-----------------------------------------------------------------------------
\* A packet joins a priority queue.
LEMMA AdmitPrioInv ==
    ASSUME IInv, NEW c \in Queues, NEW len \in PktLens, AdmitPrio(c, len), run' \in BOOLEAN,
           UNCHANGED <<now, watchdog, wire, configVars, bucketVars, queue_weight>>
    PROVE  IInv' /\ \E pkt \in Packets : fifo' = [fifo EXCEPT ![c] = Append(@, pkt)]
<1> DEFINE ce == StaticMark(c)
           size == SkbSize(len)
<1>1. ce \in BOOLEAN
  BY DEF StaticMark
<1>2. /\ c \in PrioQueues /\ Insert(c, len, ce) /\ UNCHANGED tagVars
      /\ sum_prio_len_bytes' = sum_prio_len_bytes + size
  BY DEF AdmitPrio
<1> HIDE DEF ce
<1>3. /\ PortTypeOK' /\ PortAccounting'
      /\ \E pkt \in Packets : fifo' = [fifo EXCEPT ![c] = Append(@, pkt)]
      /\ len_bytes' = [len_bytes EXCEPT ![c] = @ + size]
      /\ \A d \in Queues : d # c => fifo'[d] = fifo[d]
      /\ len_bytes \in [Queues -> Int] /\ size \in Int
  BY <1>1, <1>2, InsertPort, PortFacts
<1> HIDE DEF size
<1>4. /\ TotalOver(PrioQueues, len_bytes) \in Int
      /\ TotalOver(PrioQueues, [len_bytes EXCEPT ![c] = @ + size])
             = TotalOver(PrioQueues, len_bytes) + (IF c \in PrioQueues THEN size ELSE 0)
  BY <1>3, PrioTotalChange
<1>5. /\ sum_prio_len_bytes' \in Int
      /\ sum_prio_len_bytes' = TotalOver(PrioQueues, len_bytes')
  BY <1>2, <1>3, <1>4, PortFacts
<1>6. \A d \in WfqQueues : fifo'[d] # <<>> <=> fifo[d] # <<>>
  BY <1>2, <1>3, Kinds
<1>7. /\ head_finish_time' \in [WfqQueues -> VirtualTimes] /\ virtual_time' \in VirtualTimes
      /\ TagsOrdered'
  BY <1>2, <1>6, SameTags
<1>8. TypeOK' /\ WeightsConfigured' /\ AccountingExact'
  BY <1>3, <1>5, <1>7, TagTypes DEF TypeOK, WeightsConfigured, AccountingExact
<1>9. QED
  BY <1>3, <1>7, <1>8 DEF IInv

\* What the admission of a packet to an empty WFQ queue does to the finish times.
LEMMA TagFacts ==
    ASSUME IInv, NEW c \in WfqQueues, NEW len \in PktLens, Tag(c, SkbSize(len)),
           fifo[c] = <<>>, fifo'[c] # <<>>, \A d \in Queues : d # c => fifo'[d] = fifo[d]
    PROVE  /\ head_finish_time' \in [WfqQueues -> VirtualTimes] /\ virtual_time' \in VirtualTimes
           /\ TagsOrdered'
<1> DEFINE s  == Share(SkbSize(len), queue_weight[c])
           v  == virtual_time
           h  == (v + s) % TimeWrap
           B  == Backlogged
           L  == Lags
           L1 == Lags'
<1>1. /\ head_finish_time \in [WfqQueues -> VirtualTimes] /\ v \in VirtualTimes
      /\ queue_weight[c] \in WeightChoices[c]
  BY TagTypes
<1>2. /\ MaxShare \in Nat \ {0} /\ Span \in Nat /\ TimeWrap \in Nat \ {0} /\ Span < TimeWrap
      /\ MaxShare <= Span
  BY SpanFacts DEF IInv
<1>3. s \in Nat /\ s > 0 /\ s <= MaxShare
  BY <1>1, MaxShareFacts
<1>4. s < TimeWrap
  BY <1>2, <1>3
<1>5. /\ head_finish_time' = [head_finish_time EXCEPT ![c] = h]
      /\ virtual_time' = head_finish_time'[c]
  BY DEF Tag, FinishTime
<1> HIDE DEF s, h
<1>6. /\ h \in VirtualTimes /\ Lag(h, h) = 0
      /\ \A x \in VirtualTimes : Lag(v, x) + s < TimeWrap => Lag(h, x) = Lag(v, x) + s
  BY <1>1, <1>3, <1>4, JoinLags DEF h
<1>7. /\ head_finish_time'[c] = h /\ virtual_time' = h
      /\ \A d \in WfqQueues : d # c => head_finish_time'[d] = head_finish_time[d]
  BY <1>1, <1>5
<1>8. head_finish_time' \in [WfqQueues -> VirtualTimes] /\ virtual_time' \in VirtualTimes
  BY <1>1, <1>5, <1>6, <1>7
<1>9. Backlogged' = B \cup {c} /\ c \notin B
  BY Kinds DEF Backlogged
<1>10. L1[c] = 0
  BY <1>6, <1>7 DEF Lags
<1>11. ASSUME NEW d \in B PROVE L[d] \in Nat /\ L1[d] = L[d] + s
  <2>1. d \in WfqQueues /\ d # c /\ L[d] \in Nat /\ L[d] + MaxShare <= Span
    BY <1>9, <1>11, LagLimits
  <2>2. L[d] = Lag(v, head_finish_time[d]) /\ L1[d] = Lag(h, head_finish_time[d])
    BY <1>7, <2>1 DEF Lags
  <2>3. L[d] + s < TimeWrap
    BY <1>2, <1>3, <2>1
  <2>4. QED
    BY <1>1, <1>6, <2>1, <2>2, <2>3
<1>12. IsFiniteSet(B) /\ Ordered(B, L, MaxShare)
  BY BackloggedFinite DEF IInv, TagsOrdered
<1> HIDE DEF B, L, L1
<1>13. Ordered(B \cup {c}, L1, MaxShare)
  BY <1>2, <1>3, <1>9, <1>10, <1>11, <1>12, FirstJoins
<1>14. QED
  BY <1>8, <1>9, <1>13 DEF TagsOrdered, L1

\* A packet joins a WFQ queue.
LEMMA AdmitWfqInv ==
    ASSUME IInv, NEW c \in Queues, NEW len \in PktLens, AdmitWfq(c, len), run' \in BOOLEAN,
           UNCHANGED <<now, watchdog, wire, configVars, bucketVars, queue_weight>>
    PROVE  IInv' /\ \E pkt \in Packets : fifo' = [fifo EXCEPT ![c] = Append(@, pkt)]
<1> DEFINE ce == StaticMark(c)
           size == SkbSize(len)
<1>1. ce \in BOOLEAN
  BY DEF StaticMark
<1>2. /\ c \in WfqQueues /\ Insert(c, len, ce)
      /\ IF len_bytes[c] = 0 THEN Tag(c, SkbSize(len)) ELSE UNCHANGED tagVars
      /\ UNCHANGED sum_prio_len_bytes
  BY DEF AdmitWfq
<1> HIDE DEF ce
<1>3. /\ PortTypeOK' /\ PortAccounting'
      /\ \E pkt \in Packets : fifo' = [fifo EXCEPT ![c] = Append(@, pkt)]
      /\ len_bytes' = [len_bytes EXCEPT ![c] = @ + size]
      /\ fifo'[c] # <<>>
      /\ \A d \in Queues : d # c => fifo'[d] = fifo[d]
      /\ len_bytes \in [Queues -> Int] /\ size \in Int
  BY <1>1, <1>2, InsertPort, PortFacts
<1> HIDE DEF size
<1>4. /\ TotalOver(PrioQueues, len_bytes) \in Int
      /\ TotalOver(PrioQueues, [len_bytes EXCEPT ![c] = @ + size])
             = TotalOver(PrioQueues, len_bytes) + (IF c \in PrioQueues THEN size ELSE 0)
  BY <1>3, PrioTotalChange
<1>5. /\ sum_prio_len_bytes' \in Int
      /\ sum_prio_len_bytes' = TotalOver(PrioQueues, len_bytes')
  BY <1>2, <1>3, <1>4, PortFacts, Kinds
<1>6. /\ head_finish_time' \in [WfqQueues -> VirtualTimes] /\ virtual_time' \in VirtualTimes
      /\ TagsOrdered'
  <2>1. CASE len_bytes[c] = 0
    BY <1>2, <1>3, <2>1, BusyIff, TagFacts
  <2>2. CASE len_bytes[c] # 0
    <3>1. fifo[c] # <<>> /\ UNCHANGED tagVars
      BY <1>2, <2>2, BusyIff
    <3>2. \A d \in WfqQueues : fifo'[d] # <<>> <=> fifo[d] # <<>>
      BY <1>3, <3>1, Kinds
    <3>3. QED
      BY <3>1, <3>2, SameTags
  <2>3. QED
    BY <2>1, <2>2
<1>7. TypeOK' /\ WeightsConfigured' /\ AccountingExact'
  BY <1>3, <1>5, <1>6, TagTypes DEF TypeOK, WeightsConfigured, AccountingExact
<1>8. QED
  BY <1>3, <1>6, <1>7 DEF IInv

LEMMA EnqueueFacts ==
    ASSUME IInv, NEW dscp \in Dscps, NEW len \in PktLens, Enqueue(dscp, len)
    PROVE  /\ IInv'
           /\ Classify(dscp) \in Queues
           /\ \/ UNCHANGED fifo
              \/ \E pkt \in Packets : fifo' = [fifo EXCEPT ![Classify(dscp)] = Append(@, pkt)]
           /\ UNCHANGED wire
<1> DEFINE c == Classify(dscp)
<1>1. /\ c \in Queues /\ run' = TRUE
      /\ UNCHANGED <<now, watchdog, wire, configVars, bucketVars, queue_weight>>
      /\ Drop(c, len) \/ AdmitPrio(c, len) \/ AdmitWfq(c, len)
  BY ClassifyType DEF Enqueue
<1> HIDE DEF c
<1>2. run' \in BOOLEAN
  BY <1>1, Zenon
<1>3. CASE Drop(c, len)
  <2>1. UNCHANGED <<fifoVars, tagVars, sum_prio_len_bytes>>
    BY <1>3 DEF Drop
  <2>2. PortTypeOK'
    BY <1>1, <1>2, <2>1, PortFacts DEF PortTypeOK, configVars, fifoVars, bucketVars
  <2>3. PortAccounting' /\ fifo' = fifo /\ len_bytes' = len_bytes
    BY <2>1, PortFacts DEF PortAccounting, fifoVars
  <2>4. UNCHANGED wfqVars
    BY <1>1, <2>1 DEF wfqVars
  <2>5. IInv'
    BY <2>2, <2>3, <2>4, SameWfq
  <2>6. QED
    BY <1>1, <2>3, <2>5 DEF c
<1>4. CASE AdmitPrio(c, len)
  BY <1>1, <1>2, <1>4, AdmitPrioInv DEF c
<1>5. CASE AdmitWfq(c, len)
  BY <1>1, <1>2, <1>5, AdmitWfqInv DEF c
<1>6. QED
  BY <1>1, <1>3, <1>4, <1>5
-----------------------------------------------------------------------------
\* A dequeue that returns NULL.
LEMMA NullInv ==
    ASSUME IInv,
           \/ DequeueNothing
           \/ PrioTurn /\ ThrottlePrio(PrioHead)
           \/ WfqTurn /\ ThrottleWfq(HeadClass)
    PROVE  IInv' /\ wire' = NoPacket /\ fifo' = fifo
<1>1. PortTypeOK /\ PortAccounting
  BY PortFacts
<1>2. \E result \in Int : result <= 0 /\ (Arm(result) \/ ReturnNull)
  <2>1. CASE DequeueNothing
    <3>1. 0 \in Int /\ 0 <= 0 /\ (Arm(0) \/ ReturnNull)
      BY <2>1 DEF DequeueNothing
    <3>2. QED
      BY <3>1
  <2>2. ASSUME NEW c \in Queues, fifo[c] # <<>>, Result(HeadSize(c)) <= 0, Arm(Result(HeadSize(c)))
        PROVE  \E result \in Int : result <= 0 /\ (Arm(result) \/ ReturnNull)
    <3>1. HeadSize(c) \in Nat
      BY <1>1, <2>2, HeadType
    <3>2. Result(HeadSize(c)) \in Int
      BY <1>1, <3>1, ResultType
    <3>3. QED
      BY <2>2, <3>2
  <2>3. CASE PrioTurn /\ ThrottlePrio(PrioHead)
    <3>1. PrioHead \in Queues /\ fifo[PrioHead] # <<>>
      BY <2>3, PortFacts, PrioSumFacts, PrioHeadType DEF PrioTurn
    <3>2. Result(HeadSize(PrioHead)) < 0 /\ Arm(Result(HeadSize(PrioHead)))
      BY <2>3 DEF ThrottlePrio
    <3>3. Result(HeadSize(PrioHead)) \in Int
      BY <1>1, <3>1, HeadType, ResultType
    <3>4. Result(HeadSize(PrioHead)) <= 0
      BY <3>2, <3>3
    <3>5. QED
      BY <2>2, <3>1, <3>2, <3>4
  <2>4. CASE WfqTurn /\ ThrottleWfq(HeadClass)
    <3>1. HeadClass \in Queues /\ fifo[HeadClass] # <<>>
      BY <2>4, HeadFacts
    <3>2. QED
      BY <2>2, <2>4, <3>1 DEF ThrottleWfq
  <2>5. QED
    BY <2>1, <2>3, <2>4
<1>3. PICK result \in Int : result <= 0 /\ (Arm(result) \/ ReturnNull)
  BY <1>2
<1>4. /\ PortTypeOK' /\ PortAccounting'
      /\ wire' = NoPacket /\ UNCHANGED <<now, configVars, fifoVars, bucketVars>>
  BY <1>1, <1>3, ArmFacts
<1>5. UNCHANGED wfqVars
  BY DEF DequeueNothing, ThrottlePrio, ThrottleWfq
<1>6. fifo' = fifo /\ len_bytes' = len_bytes
  BY <1>4 DEF fifoVars
<1>7. QED
  BY <1>4, <1>5, <1>6, SameWfq

\* What a packet that leaves does to the counters, if that of the priority queues follows.
LEMMA LeaveCounted ==
    ASSUME IInv, NEW c \in Queues, fifo[c] # <<>>, NEW result \in Nat, Leave(c, result),
           sum_prio_len_bytes' =
               IF c \in PrioQueues THEN sum_prio_len_bytes - HeadSize(c) ELSE sum_prio_len_bytes
    PROVE  /\ PortTypeOK' /\ AccountingExact' /\ sum_prio_len_bytes' \in Int
           /\ fifo' = [fifo EXCEPT ![c] = Tail(@)]
           /\ \A d \in Queues : d # c => fifo'[d] = fifo[d]
           /\ len_bytes'[c] > 0 <=> fifo'[c] # <<>>
           /\ Seen(wire') \in {[queue |-> c, size |-> WireSize(Head(fifo[c])), ce |-> ce] :
                                   ce \in {Head(fifo[c]).ce, TRUE}}
<1> DEFINE less == 0 - HeadSize(c)
<1>1. /\ PortTypeOK' /\ PortAccounting'
      /\ fifo' = [fifo EXCEPT ![c] = Tail(@)]
      /\ \A d \in Queues : d # c => fifo'[d] = fifo[d] /\ len_bytes'[d] = len_bytes[d]
      /\ len_bytes \in [Queues -> Int] /\ len_bytes' \in [Queues -> Int]
      /\ len_bytes'[c] = len_bytes[c] - HeadSize(c)
      /\ HeadSize(c) \in Nat \ {0}
      /\ Seen(wire') \in {[queue |-> c, size |-> WireSize(Head(fifo[c])), ce |-> ce] :
                              ce \in {Head(fifo[c]).ce, TRUE}}
  BY PortFacts, LeavePort
<1>2. less \in Int /\ len_bytes' = [len_bytes EXCEPT ![c] = @ + less]
  BY <1>1
<1>3. /\ sum_prio_len_bytes = TotalOver(PrioQueues, len_bytes)
      /\ sum_prio_len_bytes \in Int
  BY DEF IInv, TypeOK, AccountingExact
<1>4. sum_prio_len_bytes' = sum_prio_len_bytes + (IF c \in PrioQueues THEN less ELSE 0)
  BY <1>1, <1>3
<1> HIDE DEF less
<1>5. TotalOver(PrioQueues, [len_bytes EXCEPT ![c] = @ + less])
          = TotalOver(PrioQueues, len_bytes) + (IF c \in PrioQueues THEN less ELSE 0)
  BY <1>1, <1>2, PrioTotalChange
<1>6. sum_prio_len_bytes' \in Int /\ sum_prio_len_bytes' = TotalOver(PrioQueues, len_bytes')
  BY <1>2, <1>3, <1>4, <1>5
<1>7. len_bytes'[c] > 0 <=> fifo'[c] # <<>>
  <2>1. fifo'[c] \in Seq(Packets) /\ len_bytes'[c] = WireBytes(fifo'[c])
    BY <1>1 DEF PortTypeOK, PortAccounting, Counted
  <2>2. QED
    BY <2>1, BytesType
<1>8. QED
  BY <1>1, <1>6, <1>7 DEF AccountingExact

\* A priority packet leaves.
LEMMA TransmitPrioInv ==
    ASSUME IInv, PrioTurn, NEW c, c = PrioHead, TransmitPrio(c)
    PROVE  /\ IInv'
           /\ c \in Queues /\ fifo[c] # <<>>
           /\ c \in PrioQueues /\ \A d \in PrioQueues : fifo[d] # <<>> => c <= d
           /\ fifo' = [fifo EXCEPT ![c] = Tail(@)]
           /\ \A d \in Queues : d # c => fifo'[d] = fifo[d]
           /\ Seen(wire') \in {[queue |-> c, size |-> WireSize(Head(fifo[c])), ce |-> ce] :
                                   ce \in {Head(fifo[c]).ce, TRUE}}
<1> DEFINE result == Result(HeadSize(c))
<1>1. /\ c \in PrioQueues /\ c \in Queues /\ fifo[c] # <<>>
      /\ \A d \in PrioQueues : fifo[d] # <<>> => c <= d
  BY PortFacts, PrioSumFacts, PrioHeadType DEF PrioTurn
<1>2. /\ Leave(c, result) /\ result >= 0
      /\ sum_prio_len_bytes' = sum_prio_len_bytes - HeadSize(c)
      /\ UNCHANGED <<queue_weight, tagVars>>
  BY DEF TransmitPrio
<1>3. result \in Nat
  BY <1>1, <1>2, PortFacts, HeadType, ResultType
<1> HIDE DEF result
<1>4. /\ PortTypeOK' /\ AccountingExact' /\ sum_prio_len_bytes' \in Int
      /\ fifo' = [fifo EXCEPT ![c] = Tail(@)]
      /\ \A d \in Queues : d # c => fifo'[d] = fifo[d]
      /\ Seen(wire') \in {[queue |-> c, size |-> WireSize(Head(fifo[c])), ce |-> ce] :
                              ce \in {Head(fifo[c]).ce, TRUE}}
  BY <1>1, <1>2, <1>3, LeaveCounted
<1>5. \A d \in WfqQueues : fifo'[d] # <<>> <=> fifo[d] # <<>>
  BY <1>1, <1>4, Kinds
<1>6. /\ head_finish_time' \in [WfqQueues -> VirtualTimes] /\ virtual_time' \in VirtualTimes
      /\ TagsOrdered'
  BY <1>2, <1>5, SameTags
<1>7. TypeOK' /\ WeightsConfigured'
  BY <1>2, <1>4, <1>6, TagTypes DEF TypeOK, WeightsConfigured
<1>8. QED
  BY <1>1, <1>4, <1>6, <1>7 DEF IInv

\* The packet behind the head, which is the head after the departure.
LEMMA NextPacket ==
    ASSUME NEW s \in Seq(Packets), s # <<>>, Tail(s) # <<>>
    PROVE  s[2] \in Packets /\ s[2].len \in PktLens /\ s[2] = Head(Tail(s))
<1> DEFINE t == Tail(s)
<1>1. /\ t \in Seq(Packets) /\ Len(t) = Len(s) - 1 /\ Len(s) \in Nat
      /\ \A i \in 1 .. Len(t) : t[i] = s[i + 1]
  BY HeadTailProperties, LenProperties
<1>2. t # <<>>
  OBVIOUS
<1> HIDE DEF t
<1>3. Len(t) \in Nat /\ Len(t) # 0
  BY <1>1, <1>2, EmptySeq, LenProperties
<1>4. t[1] = s[1 + 1] /\ Head(t) = t[1] /\ t[1] \in Packets
  BY <1>1, <1>3, ElementOfSeq
<1>5. QED
  BY <1>4 DEF Packets, t

\* What the departure of a packet from a WFQ queue that keeps some does to the finish
\* times.
LEMMA AdvanceFacts ==
    ASSUME IInv, NEW c \in Backlogged, \A d \in Backlogged : Lags[d] <= Lags[c],
           Advance(c), fifo' = [fifo EXCEPT ![c] = Tail(@)], fifo'[c] # <<>>
    PROVE  /\ head_finish_time' \in [WfqQueues -> VirtualTimes] /\ virtual_time' \in VirtualTimes
           /\ TagsOrdered'
<1> DEFINE len == fifo[c][2].len
           s  == Share(SkbSize(len), queue_weight[c])
           v  == virtual_time
           h  == head_finish_time[c]
           h1 == (h + s) % TimeWrap
           v1 == Later(v, h1)
           B  == Backlogged
           L  == Lags
           L1 == Lags'
<1>1. /\ head_finish_time \in [WfqQueues -> VirtualTimes] /\ v \in VirtualTimes
      /\ queue_weight[c] \in WeightChoices[c] /\ c \in WfqQueues /\ c \in Queues
      /\ h \in VirtualTimes
  BY TagTypes, LagLimits, Kinds
<1>2. /\ MaxShare \in Nat \ {0} /\ Span \in Nat /\ TimeWrap \in Nat \ {0} /\ Span < TimeWrap
      /\ 2 * MaxShare < TimeWrap
  BY SpanFacts DEF IInv
<1>3. fifo \in [Queues -> Seq(Packets)] /\ fifo[c] # <<>>
  BY PortFacts DEF Backlogged
<1>4. fifo'[c] = Tail(fifo[c]) /\ \A d \in Queues : d # c => fifo'[d] = fifo[d]
  BY <1>1, <1>3
<1>5. len \in PktLens
  BY <1>1, <1>3, <1>4, NextPacket
<1>6. s \in Nat /\ 1 <= s /\ s <= MaxShare
  BY <1>1, <1>5, MaxShareFacts
<1>7. /\ head_finish_time' = [head_finish_time EXCEPT ![c] = h1]
      /\ virtual_time' = Later(v, head_finish_time'[c])
  BY DEF Advance, FinishTime
<1>8. Backlogged' = B
  BY <1>3, <1>4, Kinds DEF Backlogged
<1> HIDE DEF len, s, h1
<1>9. /\ \A d \in B : /\ d \in WfqQueues /\ L[d] \in Nat /\ L[d] + MaxShare <= Span
                      /\ 2 * L[d] < TimeWrap /\ L[d] = Lag(v, head_finish_time[d])
      /\ L[c] = Lag(v, h)
  BY LagLimits DEF Lags
<1>10. 2 * s < TimeWrap /\ s < TimeWrap
  BY <1>2, <1>6
<1>11. /\ h1 \in VirtualTimes /\ v1 \in VirtualTimes
       /\ Lag(v1, h1) = IF s <= Lag(v, h) THEN Lag(v, h) - s ELSE 0
       /\ \A x \in VirtualTimes :
              Lag(v, x) + s < TimeWrap =>
                  Lag(v1, x) = Lag(v, x) + (IF s <= Lag(v, h) THEN 0 ELSE s - Lag(v, h))
  <2>1. 2 * Lag(v, h) < TimeWrap
    BY <1>9
  <2> HIDE DEF v, h, v1
  <2>2. QED
    BY <1>1, <1>6, <1>10, <2>1, AdvanceLags DEF h1, v1
<1>12. /\ head_finish_time'[c] = h1 /\ virtual_time' = v1
       /\ head_finish_time' \in [WfqQueues -> VirtualTimes]
       /\ \A d \in WfqQueues : d # c => head_finish_time'[d] = head_finish_time[d]
  BY <1>1, <1>7, <1>11
<1>13. /\ L1[c] = Lag(v1, h1)
       /\ \A d \in WfqQueues : d # c => L1[d] = Lag(v1, head_finish_time[d])
  BY <1>1, <1>12 DEF Lags
<1> HIDE DEF v1, v, h
<1>14. L1[c] = IF s <= L[c] THEN L[c] - s ELSE 0
  <2> HIDE DEF L, L1
  <2>1. QED
    BY <1>9, <1>11, <1>13
<1>15. ASSUME NEW d \in B, d # c
       PROVE  L1[d] = L[d] + (IF s <= L[c] THEN 0 ELSE s - L[c])
  <2>1. /\ d \in WfqQueues /\ L[d] \in Nat /\ L[d] + MaxShare <= Span
        /\ L[d] = Lag(v, head_finish_time[d]) /\ L[c] = Lag(v, h)
    BY <1>9, <1>15
  <2>2. L1[d] = Lag(v1, head_finish_time[d]) /\ head_finish_time[d] \in VirtualTimes
    BY <1>1, <1>13, <1>15, <2>1
  <2> HIDE DEF L, L1
  <2>3. Lag(v, head_finish_time[d]) + s < TimeWrap
    BY <1>2, <1>6, <2>1
  <2>4. QED
    BY <1>11, <2>1, <2>2, <2>3
<1>16. IsFiniteSet(B) /\ Ordered(B, L, MaxShare)
  BY BackloggedFinite DEF IInv, TagsOrdered
<1>17. c \in B /\ \A d \in B : L[d] <= L[c]
  OBVIOUS
<1>18. \A d \in B : L[d] \in Nat
  BY <1>9
<1> HIDE DEF B, L, L1
<1>19. Ordered(B, L1, MaxShare)
  BY <1>2, <1>6, <1>14, <1>15, <1>16, <1>17, <1>18, AdvanceOrdered
<1>20. QED
  BY <1>8, <1>11, <1>12, <1>19 DEF TagsOrdered, L1

\* A WFQ packet leaves.
LEMMA TransmitWfqInv ==
    ASSUME IInv, WfqTurn, NEW c, c = HeadClass, TransmitWfq(c)
    PROVE  /\ IInv'
           /\ c \in Queues /\ c \in WfqQueues /\ fifo[c] # <<>> /\ c \in Backlogged
           /\ \A d \in PrioQueues : fifo[d] = <<>>
           /\ \A d \in Backlogged : Lags[d] <= Lags[c]
           /\ fifo' = [fifo EXCEPT ![c] = Tail(@)]
           /\ \A d \in Queues : d # c => fifo'[d] = fifo[d]
           /\ Seen(wire') \in {[queue |-> c, size |-> WireSize(Head(fifo[c])), ce |-> ce] :
                                   ce \in {Head(fifo[c]).ce, TRUE}}
<1> DEFINE result == Result(HeadSize(c))
<1>1. /\ c \in Backlogged /\ c \in WfqQueues /\ c \in Queues /\ fifo[c] # <<>>
      /\ \A d \in PrioQueues : fifo[d] = <<>>
      /\ \A d \in Backlogged : Lags[d] <= Lags[c]
  BY HeadFacts
<1>2. /\ Leave(c, result) /\ result > 0
      /\ sum_prio_len_bytes' = sum_prio_len_bytes /\ queue_weight' = queue_weight
      /\ IF len_bytes'[c] > 0 THEN Advance(c) ELSE UNCHANGED tagVars
  BY DEF TransmitWfq
<1>3. result \in Nat
  BY <1>1, <1>2, PortFacts, HeadType, ResultType
<1>4. c \notin PrioQueues
  BY <1>1, Kinds
<1> HIDE DEF result
<1>5. /\ PortTypeOK' /\ AccountingExact' /\ sum_prio_len_bytes' \in Int
      /\ fifo' = [fifo EXCEPT ![c] = Tail(@)]
      /\ \A d \in Queues : d # c => fifo'[d] = fifo[d]
      /\ len_bytes'[c] > 0 <=> fifo'[c] # <<>>
      /\ Seen(wire') \in {[queue |-> c, size |-> WireSize(Head(fifo[c])), ce |-> ce] :
                              ce \in {Head(fifo[c]).ce, TRUE}}
  BY <1>1, <1>2, <1>3, <1>4, LeaveCounted
<1>6. /\ head_finish_time' \in [WfqQueues -> VirtualTimes] /\ virtual_time' \in VirtualTimes
      /\ TagsOrdered'
  <2>1. CASE fifo'[c] # <<>>
    BY <1>1, <1>2, <1>5, <2>1, AdvanceFacts
  <2>2. CASE fifo'[c] = <<>>
    <3>1. UNCHANGED <<head_finish_time, virtual_time>>
      BY <1>2, <1>5, <2>2 DEF tagVars
    <3>2. Backlogged' = Backlogged \ {c}
      BY <1>1, <1>5, <2>2, Kinds DEF Backlogged
    <3>3. Lags' = Lags
      BY <3>1 DEF Lags
    <3> DEFINE B == Backlogged
               L == Lags
    <3>4. /\ IsFiniteSet(B) /\ Ordered(B, L, MaxShare) /\ MaxShare \in Nat
          /\ \A d \in B : L[d] \in Nat
      BY BackloggedFinite, LagLimits, SpanFacts DEF IInv, TagsOrdered
    <3>5. c \in B /\ \A d \in B : L[d] <= L[c]
      BY <1>1
    <3> HIDE DEF B, L
    <3>6. Ordered(B \ {c}, L, MaxShare)
      BY <3>4, <3>5, LastLeaves
    <3>7. TagsOrdered'
      BY <3>2, <3>3, <3>6 DEF B, L, TagsOrdered
    <3>8. QED
      BY <3>1, <3>7, TagTypes
  <2>3. QED
    BY <2>1, <2>2
<1>7. TypeOK' /\ WeightsConfigured'
  BY <1>2, <1>5, <1>6, TagTypes DEF TypeOK, WeightsConfigured
<1>8. QED
  BY <1>1, <1>5, <1>6, <1>7 DEF IInv
-----------------------------------------------------------------------------
\* What happens without the lock.
LEMMA EnvironmentInv ==
    ASSUME IInv, Environment, UNCHANGED wfqVars
    PROVE  IInv' /\ wire' = wire /\ fifo' = fifo
<1>1. /\ PortTypeOK' /\ PortAccounting'
      /\ UNCHANGED <<wire, fifoVars, bucketVars>>
  BY PortFacts, EnvironmentFacts
<1>2. fifo' = fifo /\ len_bytes' = len_bytes
  BY <1>1 DEF fifoVars
<1>3. QED
  BY <1>1, <1>2, SameWfq

\* A step that leaves the port and the finish times alone.
LEMMA SamePort ==
    ASSUME IInv, UNCHANGED portVars
    PROVE  PortTypeOK' /\ PortAccounting' /\ UNCHANGED <<wire, fifo, len_bytes>>
<1>1. UNCHANGED <<now, run, watchdog, wire, ecn_scheme, rate, change, fifo, backlog,
                  len_bytes, sum_len_bytes, qlen, tokens, time_ns>>
  BY DEF portVars, kernelVars, configVars, fifoVars, bucketVars
<1>2. PortTypeOK'
  BY <1>1, PortFacts DEF PortTypeOK
<1>3. PortAccounting'
  BY <1>1, PortFacts DEF PortAccounting
<1>4. QED
  BY <1>1, <1>2, <1>3

\* A weight is written.
LEMMA SetWeightInv ==
    ASSUME IInv, NEW c \in WfqQueues, NEW w \in WeightChoices[c], SetQueueWeight(c, w)
    PROVE  IInv' /\ wire' = wire /\ fifo' = fifo
<1>1. /\ queue_weight' = [queue_weight EXCEPT ![c] = w]
      /\ UNCHANGED <<portVars, tagVars, sum_prio_len_bytes>>
  BY DEF SetQueueWeight
<1>2. PortTypeOK' /\ PortAccounting' /\ UNCHANGED <<wire, fifo, len_bytes>>
  BY <1>1, SamePort
<1>3. /\ head_finish_time' \in [WfqQueues -> VirtualTimes] /\ virtual_time' \in VirtualTimes
      /\ TagsOrdered'
  BY <1>1, <1>2, SameTags
<1>4. w \in 1 .. MinPktBytes
  BY PrioWfqAssumption
<1>5. /\ queue_weight' \in [WfqQueues -> 1 .. MinPktBytes]
      /\ WeightsConfigured'
  BY <1>1, <1>4, TagTypes DEF WeightsConfigured
<1>6. TypeOK' /\ AccountingExact'
  BY <1>1, <1>2, <1>3, <1>5 DEF IInv, TypeOK, AccountingExact
<1>7. QED
  BY <1>2, <1>3, <1>5, <1>6 DEF IInv

LEMMA StutterInv == ASSUME IInv, UNCHANGED vars PROVE IInv' /\ wire' = wire /\ fifo' = fifo
<1>1. PortTypeOK' /\ PortAccounting' /\ UNCHANGED <<wire, fifo, len_bytes>>
  BY SamePort DEF vars
<1>2. UNCHANGED wfqVars
  BY DEF vars
<1>3. QED
  BY <1>1, <1>2, SameWfq

\* The steps of the qdisc.
LEMMA Steps ==
    ASSUME [Next]_vars
    PROVE  \/ \E dscp \in Dscps, len \in PktLens : Enqueue(dscp, len)
           \/ \/ DequeueNothing
              \/ PrioTurn /\ ThrottlePrio(PrioHead)
              \/ WfqTurn /\ ThrottleWfq(HeadClass)
           \/ PrioTurn /\ TransmitPrio(PrioHead)
           \/ WfqTurn /\ TransmitWfq(HeadClass)
           \/ Environment /\ UNCHANGED wfqVars
           \/ \E c \in WfqQueues : \E w \in WeightChoices[c] : SetQueueWeight(c, w)
           \/ UNCHANGED vars
  BY DEF Next, Dequeue

LEMMA NextInv == IInv /\ [Next]_vars => IInv'
<1> SUFFICES ASSUME IInv, [Next]_vars PROVE IInv'
  OBVIOUS
<1>1. CASE \E dscp \in Dscps, len \in PktLens : Enqueue(dscp, len)
  BY <1>1, EnqueueFacts
<1>2. CASE \/ DequeueNothing
           \/ PrioTurn /\ ThrottlePrio(PrioHead)
           \/ WfqTurn /\ ThrottleWfq(HeadClass)
  BY <1>2, NullInv
<1>3. CASE PrioTurn /\ TransmitPrio(PrioHead)
  BY <1>3, TransmitPrioInv
<1>4. CASE WfqTurn /\ TransmitWfq(HeadClass)
  BY <1>4, TransmitWfqInv
<1>5. CASE Environment /\ UNCHANGED wfqVars
  BY <1>5, EnvironmentInv
<1>6. CASE \E c \in WfqQueues : \E w \in WeightChoices[c] : SetQueueWeight(c, w)
  BY <1>6, SetWeightInv
<1>7. CASE UNCHANGED vars
  BY <1>7, StutterInv
<1>8. QED
  BY <1>1, <1>2, <1>3, <1>4, <1>5, <1>6, <1>7, Steps

LEMMA InitInv == Init => IInv
<1> SUFFICES ASSUME Init PROVE IInv
  OBVIOUS
<1>1. /\ PortTypeOK /\ PortAccounting
      /\ fifo = [c \in Queues |-> <<>>] /\ len_bytes = [c \in Queues |-> 0]
  BY PortInitType DEF Init, PortInit
<1>2. /\ queue_weight \in [WfqQueues -> 1 .. MinPktBytes] /\ WeightsConfigured
      /\ head_finish_time = [c \in WfqQueues |-> 0] /\ virtual_time = 0
      /\ sum_prio_len_bytes = 0
  BY DEF Init, WeightsConfigured
<1>3. 0 \in VirtualTimes
  BY WrapAssumption DEF VirtualTimes
<1>4. TypeOK
  BY <1>1, <1>2, <1>3 DEF TypeOK
<1>5. AccountingExact
  <2>1. TotalOver(PrioQueues, len_bytes) = 0
    BY <1>1, TotalOverZero
  <2>2. QED
    BY <1>1, <1>2, <2>1 DEF AccountingExact
<1>6. TagsOrdered
  <2>1. Backlogged = {}
    BY <1>1, Kinds DEF Backlogged
  <2>2. QED
    BY <2>1 DEF TagsOrdered, Ordered
<1>7. QED
  BY <1>2, <1>4, <1>5, <1>6 DEF IInv

LEMMA Inductive == Spec => []IInv
  BY InitInv, NextInv, PTL DEF Spec
-----------------------------------------------------------------------------
\* Every variable of sch_prio_wfq keeps its type: the tokens stay between 0 and the
\* bucket, and the virtual times within their width.
THEOREM TypeCorrect == Spec => []TypeOK
<1>1. IInv => TypeOK
  BY DEF IInv
<1>2. QED
  BY <1>1, Inductive, PTL

\* The counters of sch_prio_wfq, the sum over the priority queues among them, are what
\* is queued, whatever is refused, sent, throttled or rewritten.
THEOREM AccountingCorrect == Spec => []AccountingExact
<1>1. IInv => AccountingExact
  BY DEF IInv
<1>2. QED
  BY <1>1, Inductive, PTL

\* However long priority traffic or throttling keeps the WFQ queues waiting, the finish
\* times stay within a large packet of every other queue of the virtual time.
THEOREM FinishTimesStayTogether == Spec => []FinishTimesTogether
<1>1. IInv => FinishTimesTogether
  <2>1. SUFFICES ASSUME IInv, NEW c \in Backlogged
                 PROVE  (virtual_time - head_finish_time[c]) % TimeWrap
                            <= (Cardinality(Backlogged) - 1) * MaxShare
    BY DEF FinishTimesTogether
  <2>2. c \in WfqQueues /\ Lags[c] <= (Cardinality(Backlogged) - 1) * MaxShare
    BY <2>1, LagLimits
  <2>3. Lags[c] = (virtual_time - head_finish_time[c]) % TimeWrap
    BY <2>2 DEF Lags, Lag
  <2>4. QED
    BY <2>2, <2>3
<1>2. QED
  BY <1>1, Inductive, PTL
-----------------------------------------------------------------------------
\* No step but a departure shortens a WFQ queue.
LEMMA ShortenedBySending ==
    ASSUME IInv, [Next]_vars, NEW c \in Backlogged, Len(fifo'[c]) < Len(fifo[c])
    PROVE  WfqTurn /\ TransmitWfq(HeadClass) /\ c = HeadClass
<1>1. c \in Queues /\ c \notin PrioQueues /\ fifo[c] \in Seq(Packets) /\ Len(fifo[c]) \in Nat
  BY Kinds, PortFacts, LenProperties DEF Backlogged
<1>2. fifo'[c] # fifo[c]
  BY <1>1
<1>3. CASE \E dscp \in Dscps, len \in PktLens : Enqueue(dscp, len)
  <2>1. PICK dscp \in Dscps, len \in PktLens : Enqueue(dscp, len)
    BY <1>3
  <2> DEFINE q == Classify(dscp)
  <2>2. PICK pkt \in Packets : fifo' = [fifo EXCEPT ![q] = Append(@, pkt)]
    BY <1>2, <2>1, EnqueueFacts
  <2> HIDE DEF q
  <2>3. fifo'[c] = Append(fifo[c], pkt)
    BY <1>1, <1>2, <2>2, PortFacts
  <2>4. Len(fifo'[c]) = Len(fifo[c]) + 1
    BY <1>1, <2>3, AppendProperties
  <2>5. QED
    BY <1>1, <2>4
<1>4. CASE \/ DequeueNothing
           \/ PrioTurn /\ ThrottlePrio(PrioHead)
           \/ WfqTurn /\ ThrottleWfq(HeadClass)
  BY <1>2, <1>4, NullInv
<1>5. CASE PrioTurn /\ TransmitPrio(PrioHead)
  BY <1>1, <1>2, <1>5, TransmitPrioInv
<1>6. CASE WfqTurn /\ TransmitWfq(HeadClass)
  BY <1>1, <1>2, <1>6, TransmitWfqInv
<1>7. CASE Environment /\ UNCHANGED wfqVars
  BY <1>2, <1>7, EnvironmentInv
<1>8. CASE \E q \in WfqQueues : \E w \in WeightChoices[q] : SetQueueWeight(q, w)
  BY <1>2, <1>8, SetWeightInv
<1>9. CASE UNCHANGED vars
  BY <1>2, <1>9, StutterInv
<1>10. QED
  BY <1>3, <1>4, <1>5, <1>6, <1>7, <1>8, <1>9, Steps

\* The packet that leaves a WFQ queue finishes no later than any other that waits at the
\* head of one, and its queue has not been passed over for more than a large packet of
\* each other queue, at any point of the circle of virtual times.
THEOREM EarliestServed == Spec => EarliestFinishFirst
<1>1. ASSUME IInv, [Next]_vars, NEW c \in Backlogged, Len(fifo'[c]) < Len(fifo[c]),
             NEW d \in Backlogged
      PROVE  (head_finish_time[d] - head_finish_time[c]) % TimeWrap
                 <= (Cardinality(Backlogged) - 1) * MaxShare
  <2> DEFINE v == virtual_time
             a == head_finish_time[c]
             b == head_finish_time[d]
             bound == (Cardinality(Backlogged) - 1) * MaxShare
  <2>1. c = HeadClass /\ WfqTurn
    BY <1>1, ShortenedBySending
  <2>2. Lags[d] <= Lags[c]
    BY <1>1, <2>1, HeadFacts
  <2>3. /\ c \in WfqQueues /\ d \in WfqQueues /\ Lags[c] \in Nat /\ Lags[d] \in Nat
        /\ Lags[c] <= bound
    BY <1>1, LagLimits
  <2>4. v \in VirtualTimes /\ a \in VirtualTimes /\ b \in VirtualTimes
    BY <1>1, <2>3, TagTypes
  <2>5. Lags[c] = Lag(v, a) /\ Lags[d] = Lag(v, b)
    BY <2>3 DEF Lags
  <2>6. Cardinality(Backlogged) \in Nat /\ MaxShare \in Nat
    BY <1>1, BackloggedFinite, SpanFacts DEF IInv
  <2>7. bound \in Int
    BY <2>6
  <2> HIDE DEF v, a, b, bound
  <2>8. Lag(b, a) = Lag(v, a) - Lag(v, b)
    BY <2>2, <2>4, <2>5, LagDifference
  <2>9. Lag(b, a) <= bound
    BY <2>3, <2>5, <2>7, <2>8
  <2>10. QED
    BY <2>9 DEF Lag, a, b, bound
<1>2. IInv /\ [Next]_vars =>
        [\A c \in Backlogged : Len(fifo'[c]) < Len(fifo[c]) =>
            \A d \in Backlogged :
                (head_finish_time[d] - head_finish_time[c]) % TimeWrap
                    <= (Cardinality(Backlogged) - 1) * MaxShare]_vars
  BY <1>1
<1>3. QED
  BY <1>2, Inductive, PTL DEF Spec, EarliestFinishFirst
-----------------------------------------------------------------------------
LEMMA StepRefines == IInv /\ [Next]_vars => [Port!Next]_(Port!vars)
<1> SUFFICES ASSUME IInv, [Next]_vars PROVE [Port!Next]_(Port!vars)
  OBVIOUS
<1>0. fifo \in [Queues -> Seq(Packets)] /\ NumPrioQueues \in Nat
  BY PortFacts, Kinds
<1>1. CASE \E dscp \in Dscps, len \in PktLens : Enqueue(dscp, len)
  <2>1. PICK dscp \in Dscps, len \in PktLens : Enqueue(dscp, len)
    BY <1>1
  <2> DEFINE q == Classify(dscp)
  <2>2. q \in Queues /\ wire' = wire
    BY <2>1, EnqueueFacts
  <2>3. CASE fifo' = fifo
    BY <2>2, <2>3 DEF Port!vars
  <2>4. CASE \E pkt \in Packets : fifo' = [fifo EXCEPT ![q] = Append(@, pkt)]
    <3>1. PICK pkt \in Packets : fifo' = [fifo EXCEPT ![q] = Append(@, pkt)]
      BY <2>4
    <3>2. fifo[q] \in Seq(Packets) /\ fifo'[q] = Append(fifo[q], pkt)
      BY <1>0, <2>2, <3>1
    <3>3. pkt \in Port!Range(fifo'[q])
      <4>1. Len(fifo[q]) + 1 \in DOMAIN fifo'[q] /\ fifo'[q][Len(fifo[q]) + 1] = pkt
        BY <3>2
      <4>2. QED
        BY <4>1 DEF Port!Range
    <3>4. Rank = [Rank EXCEPT ![q] = Rank[q]]
      BY <2>2 DEF Rank
    <3>5. Port!Accept(q)
      BY <2>2, <3>1, <3>3, <3>4 DEF Port!Accept
    <3>6. QED
      BY <2>2, <3>5 DEF Port!Next
  <2>5. QED
    BY <2>1, <2>3, <2>4, EnqueueFacts
<1>2. CASE \/ DequeueNothing
           \/ PrioTurn /\ ThrottlePrio(PrioHead)
           \/ WfqTurn /\ ThrottleWfq(HeadClass)
  <2>1. wire' = NoPacket /\ fifo' = fifo
    BY <1>2, NullInv
  <2>2. QED
    BY <2>1 DEF Port!Rest, Port!Next
<1>3. ASSUME NEW c \in Queues, fifo[c] # <<>>, fifo' = [fifo EXCEPT ![c] = Tail(@)],
             Seen(wire') \in {[queue |-> c, size |-> WireSize(Head(fifo[c])), ce |-> ce] :
                                  ce \in {Head(fifo[c]).ce, TRUE}},
             \A d \in Queues : fifo[d] # <<>> => Rank[c] <= Rank[d]
      PROVE  Port!Next
  <2>1. c \in Port!Waiting /\ \A d \in Port!Waiting : Rank[c] <= Rank[d]
    BY <1>3 DEF Port!Waiting
  <2>2. Port!Send(c)
    BY <1>3, <2>1 DEF Port!Send, Seen
  <2>3. QED
    BY <2>2 DEF Port!Next
<1>4. \A d \in Queues : /\ d \in PrioQueues => Rank[d] = d /\ d < NumPrioQueues
                        /\ d \notin PrioQueues => Rank[d] = NumPrioQueues
                        /\ d \in Int
  BY <1>0, BufferAssumption DEF Rank, Lesser, Queues, PrioQueues
<1>5. CASE PrioTurn /\ TransmitPrio(PrioHead)
  <2> DEFINE p == PrioHead
  <2>1. /\ p \in Queues /\ fifo[p] # <<>> /\ p \in PrioQueues
        /\ \A d \in PrioQueues : fifo[d] # <<>> => p <= d
        /\ fifo' = [fifo EXCEPT ![p] = Tail(@)]
        /\ Seen(wire') \in {[queue |-> p, size |-> WireSize(Head(fifo[p])), ce |-> ce] :
                                ce \in {Head(fifo[p]).ce, TRUE}}
    BY <1>5, TransmitPrioInv
  <2> HIDE DEF p
  <2>2. \A d \in Queues : fifo[d] # <<>> => Rank[p] <= Rank[d]
    BY <1>0, <1>4, <2>1
  <2>3. QED
    BY <1>3, <2>1, <2>2
<1>6. CASE WfqTurn /\ TransmitWfq(HeadClass)
  <2> DEFINE c == HeadClass
  <2>1. /\ c \in Queues /\ fifo[c] # <<>> /\ c \notin PrioQueues
        /\ \A d \in PrioQueues : fifo[d] = <<>>
        /\ fifo' = [fifo EXCEPT ![c] = Tail(@)]
        /\ Seen(wire') \in {[queue |-> c, size |-> WireSize(Head(fifo[c])), ce |-> ce] :
                                ce \in {Head(fifo[c]).ce, TRUE}}
    BY <1>6, TransmitWfqInv, Kinds
  <2> HIDE DEF c
  <2>2. \A d \in Queues : fifo[d] # <<>> => Rank[c] <= Rank[d]
    BY <1>0, <1>4, <2>1
  <2>3. QED
    BY <1>3, <2>1, <2>2
<1>7. CASE Environment /\ UNCHANGED wfqVars
  BY <1>7, EnvironmentInv DEF Port!vars
<1>8. CASE \E d \in WfqQueues : \E w \in WeightChoices[d] : SetQueueWeight(d, w)
  BY <1>8, SetWeightInv DEF Port!vars
<1>9. CASE UNCHANGED vars
  BY <1>9, StutterInv DEF Port!vars
<1>10. QED
  BY <1>1, <1>2, <1>5, <1>6, <1>7, <1>8, <1>9, Steps

\* sch_prio_wfq is a port of FIFOs in strict priority: a WFQ queue sends only while the
\* priority queues are empty, and nothing is lost, reordered or unmarked.
THEOREM PortImplemented == Spec => ImplementsPort
<1>1. Init => Port!Init
  <2>1. SUFFICES ASSUME Init PROVE Port!Init
    OBVIOUS
  <2>2. fifo = [d \in Queues |-> <<>>] /\ wire = NoPacket
    BY <2>1 DEF Init, PortInit
  <2>3. Rank \in [Queues -> Int]
    BY BufferAssumption, PrioAssumption DEF Rank, Lesser, Queues
  <2>4. QED
    BY <2>2, <2>3 DEF Port!Init
<1>2. QED
  BY <1>1, StepRefines, Inductive, PTL DEF Spec, ImplementsPort, Port!Spec
=============================================================================
