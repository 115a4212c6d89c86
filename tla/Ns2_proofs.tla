----------------------------- MODULE Ns2_proofs -----------------------------
(***************************************************************************)
(* Proofs about the ns-2 part, for any number of queues, any packets and   *)
(* any settings that SetupOK allows, and for any routes and flows.         *)
(*                                                                         *)
(* The queues (Ns2Queues): what deque serves exists (the base, by types,   *)
(* the active list and the link), the drain rates, the sums of the shares, *)
(* the order of the turns, the finish times, the port of FIFOs in strict   *)
(* priority that every class implements and, from all of this, the bounds  *)
(* of MQ-ECN's threshold, whatever became of its estimates.  The           *)
(* classifier (Ns2Ecmp): turns are even, and a change of routes is local.  *)
(*                                                                         *)
(* Of PortLemmas only what concerns sums and products is used.             *)
(***************************************************************************)
EXTENDS Ns2Queues, Ns2Ecmp, PortLemmas
-----------------------------------------------------------------------------
(***************************************************************************)
(* Sums over queues and over the packets of a FIFO.                        *)
(***************************************************************************)
\* SumOver and ByteLength by their values, for states before and after a step alike.
SumN(n, S, f) == SumTo([i \in 1 .. n |-> IF i - 1 \in S THEN f[i - 1] ELSE 0], n)
PktBytes(s) == SumTo([i \in 1 .. Len(s) |-> s[i].size], Len(s))

LEMMA SumNType ==
    ASSUME NEW n \in Nat, NEW S \in SUBSET (0 .. n - 1), NEW f, \A c \in S : f[c] \in Nat
    PROVE  /\ SumN(n, S, f) \in Nat
           /\ \A c \in S : f[c] <= SumN(n, S, f)
           /\ (\A c \in S : f[c] = 0) => SumN(n, S, f) = 0
<1> DEFINE F == [i \in 1 .. n |-> IF i - 1 \in S THEN f[i - 1] ELSE 0]
<1>1. F \in [1 .. n -> Nat] /\ F \in [1 .. n -> Int]
  OBVIOUS
<1>2. \A c \in S : c + 1 \in 1 .. n /\ F[c + 1] = f[c]
  OBVIOUS
<1>3. (\A c \in S : f[c] = 0) => \A k \in 1 .. n : F[k] = 0
  OBVIOUS
<1>4. SumN(n, S, f) = SumTo(F, n)
  BY DEF SumN
<1> HIDE DEF F
<1>5. SumTo(F, n) \in Nat /\ \A k \in 1 .. n : F[k] <= SumTo(F, n)
  BY <1>1, SumBounds
<1>6. (\A k \in 1 .. n : F[k] = 0) => SumTo(F, n) = 0
  BY <1>1, SumZero
<1>7. QED
  BY <1>2, <1>3, <1>4, <1>5, <1>6

\* The sum depends on the terms of the queues in the set only.
LEMMA SumNSame ==
    ASSUME NEW n, NEW S, NEW f, NEW h, \A c \in S : f[c] = h[c]
    PROVE  SumN(n, S, f) = SumN(n, S, h)
<1>1. [i \in 1 .. n |-> IF i - 1 \in S THEN f[i - 1] ELSE 0]
          = [i \in 1 .. n |-> IF i - 1 \in S THEN h[i - 1] ELSE 0]
  OBVIOUS
<1>2. QED
  BY <1>1 DEF SumN

\* The bytes of a FIFO: nothing if it is empty, something if not.
LEMMA PktBytesType ==
    ASSUME NEW P, \A pkt \in P : pkt.size \in Nat \ {0}, NEW s \in Seq(P)
    PROVE  /\ PktBytes(s) \in Nat
           /\ s = <<>> <=> PktBytes(s) = 0
<1> DEFINE f == [i \in 1 .. Len(s) |-> s[i].size]
<1>1. Len(s) \in Nat
  BY LenProperties
<1>2. \A i \in 1 .. Len(s) : f[i] \in Nat \ {0}
  <2>1. TAKE i \in 1 .. Len(s)
  <2>2. s[i] \in P
    BY ElementOfSeq
  <2>3. QED
    BY <2>2
<1>3. f \in [1 .. Len(s) -> Nat] /\ f \in [1 .. Len(s) -> Int]
  BY <1>2
<1>4. s = <<>> <=> Len(s) = 0
  BY EmptySeq
<1>5. PktBytes(s) = SumTo(f, Len(s))
  BY DEF PktBytes
<1> HIDE DEF f
<1>6. SumTo(f, Len(s)) \in Nat /\ \A k \in 1 .. Len(s) : f[k] <= SumTo(f, Len(s))
  BY <1>1, <1>3, SumBounds
<1>7. Len(s) = 0 => SumTo(f, Len(s)) = 0
  BY <1>1, <1>3, SumType
<1>8. Len(s) # 0 => SumTo(f, Len(s)) > 0
  <2>1. SUFFICES ASSUME Len(s) # 0 PROVE SumTo(f, Len(s)) > 0
    OBVIOUS
  <2>2. 1 \in 1 .. Len(s)
    BY <1>1, <2>1
  <2>3. QED
    BY <1>2, <1>6, <2>2
<1>9. QED
  BY <1>4, <1>5, <1>6, <1>7, <1>8

LEMMA PktBytesAppend ==
    ASSUME NEW P, \A pkt \in P : pkt.size \in Nat \ {0}, NEW s \in Seq(P), NEW p \in P
    PROVE  /\ Append(s, p) \in Seq(P) /\ Append(s, p) # <<>>
           /\ Len(Append(s, p)) = Len(s) + 1 /\ Append(s, p)[Len(s) + 1] = p
           /\ PktBytes(Append(s, p)) = PktBytes(s) + p.size
<1> DEFINE t == Append(s, p)
           n == Len(s)
<1>1. /\ t \in Seq(P) /\ Len(t) = n + 1 /\ t # <<>>
      /\ \A i \in 1 .. n : t[i] = s[i]
      /\ t[n + 1] = p
  BY AppendProperties
<1>2. n \in Nat
  BY LenProperties
<1> HIDE DEF t
<1> DEFINE f == [i \in 1 .. n |-> s[i].size]
           F == [i \in 1 .. n + 1 |-> t[i].size]
<1>3. \A i \in 1 .. n : s[i] \in P
  BY ElementOfSeq
<1>4. \A i \in 1 .. n + 1 : t[i] \in P
  BY <1>1, ElementOfSeq
<1>5. f \in [1 .. n -> Int] /\ F \in [1 .. n + 1 -> Int]
  BY <1>3, <1>4
<1>6. (\A k \in 1 .. n : F[k] = f[k]) /\ F[n + 1] = p.size
  BY <1>1, <1>2
<1>7. PktBytes(t) = SumTo(F, n + 1) /\ PktBytes(s) = SumTo(f, n)
  BY <1>1 DEF PktBytes
<1> HIDE DEF f, F
<1>8. SumTo(F, n + 1) = SumTo(f, n) + F[n + 1]
  BY <1>2, <1>5, <1>6, SumAppend
<1>9. QED
  BY <1>1, <1>6, <1>7, <1>8 DEF t

LEMMA PktBytesTail ==
    ASSUME NEW P, \A pkt \in P : pkt.size \in Nat \ {0}, NEW s \in Seq(P), s # <<>>
    PROVE  /\ Head(s) \in P /\ Tail(s) \in Seq(P)
           /\ Len(Tail(s)) = Len(s) - 1
           /\ PktBytes(Tail(s)) = PktBytes(s) - Head(s).size
<1> DEFINE t == Tail(s)
           n == Len(t)
<1>1. /\ Head(s) \in P /\ t \in Seq(P) /\ n = Len(s) - 1
      /\ \A i \in 1 .. n : t[i] = s[i + 1]
      /\ Head(s) = s[1]
  BY HeadTailProperties
<1> HIDE DEF t
<1>2. n \in Nat /\ Len(s) \in Nat /\ n + 1 = Len(s)
  BY <1>1, LenProperties
<1> DEFINE f == [i \in 1 .. n |-> t[i].size]
           F == [i \in 1 .. n + 1 |-> s[i].size]
<1>3. \A i \in 1 .. n : t[i] \in P
  BY <1>1, ElementOfSeq
<1>4. \A i \in 1 .. n + 1 : s[i] \in P
  BY <1>2, ElementOfSeq
<1>5. f \in [1 .. n -> Int] /\ F \in [1 .. n + 1 -> Int]
  BY <1>3, <1>4
<1>6. (\A k \in 1 .. n : F[k + 1] = f[k]) /\ F[1] = Head(s).size
  BY <1>1, <1>2
<1>7. PktBytes(s) = SumTo(F, n + 1) /\ PktBytes(t) = SumTo(f, n)
  BY <1>2 DEF PktBytes
<1>8. Head(s).size \in Int
  BY <1>1
<1> HIDE DEF f, F
<1>9. SumTo(F, n + 1) = F[1] + SumTo(f, n)
  BY <1>2, <1>5, <1>6, SumTail
<1>10. SumTo(f, n) \in Int
  BY <1>2, <1>5, SumType
<1>11. QED
  BY <1>1, <1>6, <1>7, <1>8, <1>9, <1>10 DEF t

\* A remainder after wrapping once at most.
LEMMA WrapOnce ==
    ASSUME NEW m \in Nat \ {0}, NEW k \in 0 .. 2 * m - 1
    PROVE  k % m = IF k < m THEN k ELSE k - m
<1>1. CASE k < m
  BY <1>1, Remainders
<1>2. CASE k >= m
  <2>1. (k - m) % m = k - m
    BY <1>2, Remainders
  <2>2. k % m = (k - m) % m
    BY <1>2
  <2>3. QED
    BY <1>2, <2>1, <2>2
<1>3. QED
  BY <1>1, <1>2
-----------------------------------------------------------------------------
(***************************************************************************)
(* The settings of the script, which stay.                                 *)
(***************************************************************************)
Classes == {"Priority", "DWRR", "WRR", "WFQ", "PRIO_DWRR", "PRIO_WFQ"}

SetupFacts ==
    /\ class \in Classes
    /\ queue_num_ \in Nat \ {0}
    /\ prio_queue_num_ \in 0 .. queue_num_
    /\ class = "Priority" => prio_queue_num_ = queue_num_
    /\ class \in {"DWRR", "WRR", "WFQ"} => prio_queue_num_ = 0
    /\ PktSizes \subseteq Nat \ {0} /\ MaxPkt \in PktSizes
    /\ \A size \in PktSizes : size <= MaxPkt
    /\ PktPrios \subseteq Int /\ PktEcts \subseteq BOOLEAN
    /\ DqThresh \in Nat \ {0} /\ (DequeMarking => class = "DWRR")
    /\ port_thresh_ \in Nat
    /\ InitShare \in [ShareQueues -> Nat \ {0}] /\ ShareChoices \subseteq Nat \ {0}
    /\ Unit \in Nat \ {0}
    /\ {EstimateAlpha, RoundAlpha, TickAlpha} \subseteq 0 .. AlphaUnit
    /\ IdleInterval \in Nat /\ EstimateInterval \in Nat \ {0}
    /\ PrioQueues = 0 .. prio_queue_num_ - 1
    /\ ShareQueues = prio_queue_num_ .. queue_num_ - 1
    /\ PrioQueues \subseteq PortQueues /\ ShareQueues \subseteq PortQueues
    /\ PortQueues = 0 .. queue_num_ - 1

LEMMA SetupIsOK == ASSUME setup \in DOMAIN Setups PROVE SetupFacts
<1> DEFINE s == Setups[setup]
<1>1. SetupOK(s)
  BY SetupsAssumption
<1>2. Script = s
  BY DEF Script, Scripts
<1>3. /\ s.queue_num_ \in Nat \ {0}
      /\ s.class \in Classes
      /\ s.class = "Priority" => s.prio_queue_num_ = s.queue_num_
      /\ s.class \in {"PRIO_DWRR", "PRIO_WFQ"} => s.prio_queue_num_ \in 1 .. s.queue_num_ - 1
      /\ s.class \in {"DWRR", "WRR", "WFQ"} => s.prio_queue_num_ = 0
  BY <1>1 DEF SetupOK, Classes
<1>4. s.prio_queue_num_ \in 0 .. s.queue_num_
  BY <1>3 DEF Classes
<1>5. /\ s.sizes \subseteq Nat \ {0}
      /\ \E largest \in s.sizes : \A size \in s.sizes : size <= largest
      /\ s.prios \subseteq Int /\ s.ects \subseteq BOOLEAN
      /\ s.dq_thresh_ \in Nat \ {0} /\ s.port_thresh_ \in Nat
      /\ s.deque_marking_ => s.class = "DWRR"
      /\ s.shares \in [s.prio_queue_num_ .. s.queue_num_ - 1 -> Nat \ {0}]
      /\ s.changes \subseteq Nat \ {0} /\ s.unit \in Nat \ {0}
      /\ {s.estimate_alpha, s.round_alpha, s.tick_alpha} \subseteq 0 .. AlphaUnit
      /\ s.idle_interval \in Nat /\ s.estimate_interval \in Nat \ {0}
  BY <1>1 DEF SetupOK
<1> HIDE DEF s
<1>6. /\ class = s.class /\ queue_num_ = s.queue_num_ /\ prio_queue_num_ = s.prio_queue_num_
      /\ PktSizes = s.sizes /\ PktPrios = s.prios /\ PktEcts = s.ects
      /\ DqThresh = s.dq_thresh_ /\ port_thresh_ = s.port_thresh_
      /\ DequeMarking = s.deque_marking_
      /\ InitShare = s.shares /\ ShareChoices = s.changes /\ Unit = s.unit
      /\ EstimateAlpha = s.estimate_alpha /\ RoundAlpha = s.round_alpha
      /\ TickAlpha = s.tick_alpha /\ IdleInterval = s.idle_interval
      /\ EstimateInterval = s.estimate_interval
  BY <1>2 DEF class, queue_num_, prio_queue_num_, PktSizes, PktPrios, PktEcts, DqThresh,
              port_thresh_, InitShare, ShareChoices, Unit, EstimateAlpha, RoundAlpha,
              TickAlpha, IdleInterval, EstimateInterval, DequeMarking
<1>7. MaxPkt \in PktSizes /\ \A size \in PktSizes : size <= MaxPkt
  BY <1>5, <1>6 DEF MaxPkt
<1>8. PrioQueues = 0 .. prio_queue_num_ - 1 /\ PortQueues = 0 .. queue_num_ - 1
  BY DEF PrioQueues, PortQueues
<1>9. ShareQueues = prio_queue_num_ .. queue_num_ - 1
  BY <1>3, <1>4, <1>6, <1>8 DEF ShareQueues
<1>10. PrioQueues \subseteq PortQueues /\ ShareQueues \subseteq PortQueues
  BY <1>3, <1>4, <1>6, <1>8, <1>9
<1>11. QED
  BY <1>3, <1>4, <1>5, <1>6, <1>7, <1>8, <1>9, <1>10 DEF SetupFacts

SameSetup ==
    /\ setup' = setup /\ class' = class
    /\ queue_num_' = queue_num_ /\ prio_queue_num_' = prio_queue_num_
    /\ PktSizes' = PktSizes /\ MaxPkt' = MaxPkt
    /\ PortQueues' = PortQueues /\ PrioQueues' = PrioQueues /\ ShareQueues' = ShareQueues
    /\ InitShare' = InitShare /\ ShareChoices' = ShareChoices
    /\ marking_scheme_' = marking_scheme_ /\ port_thresh_' = port_thresh_
    /\ Unit' = Unit /\ DequeMarking' = DequeMarking

LEMMA SetupStays == ASSUME setup' = setup PROVE SameSetup
<1>1. Script' = Script
  BY DEF Script, Scripts
<1>2. /\ class' = class /\ queue_num_' = queue_num_ /\ prio_queue_num_' = prio_queue_num_
      /\ PktSizes' = PktSizes
      /\ InitShare' = InitShare /\ ShareChoices' = ShareChoices
      /\ marking_scheme_' = marking_scheme_ /\ port_thresh_' = port_thresh_
      /\ Unit' = Unit /\ DequeMarking' = DequeMarking
  BY <1>1 DEF class, queue_num_, prio_queue_num_, PktSizes, InitShare, ShareChoices,
              marking_scheme_, port_thresh_, Unit, DequeMarking
<1>3. PortQueues' = PortQueues /\ PrioQueues' = PrioQueues
  BY <1>2 DEF PortQueues, PrioQueues
<1>4. ShareQueues' = ShareQueues
  BY <1>3 DEF ShareQueues
<1>5. MaxPkt' = MaxPkt
  BY <1>2 DEF MaxPkt
<1>6. QED
  BY <1>2, <1>3, <1>4, <1>5 DEF SameSetup
-----------------------------------------------------------------------------
(***************************************************************************)
(* The types, and what links the events: a deque is due while the link is  *)
(* idle only, and a transmission under way has not ended.                  *)
(***************************************************************************)
Pkts == [size : PktSizes, ect : BOOLEAN, ce : BOOLEAN, stamp : Nat]
Drains == [tstamp : Nat, count : Nat \cup {DQ_COUNT_INVALID}, rate : Int]

PortType ==
    /\ setup \in DOMAIN Setups
    /\ now \in Nat
    /\ link \in Nat \cup {Idle}
    /\ event \in {"none", "deque"}
    /\ fifo \in [PortQueues -> Seq(Pkts)]
    /\ drain \in [PortQueues -> Drains]

LinkInv ==
    /\ event = "deque" => link = Idle
    /\ link # Idle => now <= link

\* When the packet on the link has left.
LinkFree == IF link = Idle THEN now ELSE link

ShareType ==
    /\ share \in [ShareQueues -> Nat \ {0}]
    /\ \A c \in ShareQueues : share[c] \in {InitShare[c]} \cup ShareChoices
    /\ last_idle_time \in Nat /\ last_idle_time <= now

\* A queue may send only if those of higher priority are empty.
HighestWaiting(c) ==
    /\ c \in PortQueues /\ fifo[c] # <<>>
    /\ \A d \in PrioQueues : d < c => fifo[d] = <<>>

\* What a step does to the port.
Arrival ==
    /\ event = "none"
    /\ \E c \in PortQueues, size \in PktSizes, ect \in BOOLEAN, mark \in BOOLEAN :
           Insert(c, size, ect, mark)
Departure ==
    /\ event = "deque"
    /\ \E c \in PortQueues, mark \in BOOLEAN : HighestWaiting(c) /\ Leave(c, mark)
PortStep ==
    \/ Arrival
    \/ event = "none" /\ Drop
    \/ Departure
    \/ event = "deque" /\ TotalByteLength = 0 /\ ReturnNull
    \/ Resume \/ Tick
    \/ UNCHANGED portVars

LEMMA PktFacts ==
    ASSUME SetupFacts
    PROVE  \A pkt \in Pkts :
               pkt.size \in Nat \ {0} /\ pkt.size \in PktSizes /\ pkt.size <= MaxPkt
BY DEF Pkts, SetupFacts

\* A bytes counter says whether the queues are empty.
LEMMA LengthZero ==
    ASSUME SetupFacts, PortType, NEW S \in SUBSET PortQueues
    PROVE  /\ LengthOf(S) \in Nat
           /\ LengthOf(S) = 0 <=> \A c \in S : fifo[c] = <<>>
<1> DEFINE f == [c \in S |-> PktBytes(fifo[c])]
<1>1. \A c \in S : f[c] \in Nat /\ (f[c] = 0 <=> fifo[c] = <<>>)
  <2>1. TAKE c \in S
  <2>2. fifo[c] \in Seq(Pkts)
    BY DEF PortType
  <2>3. QED
    BY <2>2, PktFacts, PktBytesType
<1>2. LengthOf(S) = SumN(queue_num_, S, f)
  BY DEF LengthOf, SumOver, SumN, ByteLength, PktBytes
<1>3. queue_num_ \in Nat /\ S \in SUBSET (0 .. queue_num_ - 1)
  BY DEF SetupFacts
<1> HIDE DEF f
<1>4. /\ SumN(queue_num_, S, f) \in Nat
      /\ \A c \in S : f[c] <= SumN(queue_num_, S, f)
      /\ (\A c \in S : f[c] = 0) => SumN(queue_num_, S, f) = 0
  BY <1>1, <1>3, SumNType
<1>5. QED
  BY <1>1, <1>2, <1>4

LEMMA LengthBytes ==
    ASSUME SetupFacts, PortType, NEW c \in PortQueues
    PROVE  /\ ByteLength(c) = PktBytes(fifo[c]) /\ fifo[c] \in Seq(Pkts)
           /\ ByteLength(c) \in Nat
           /\ fifo[c] = <<>> <=> ByteLength(c) = 0
BY PktFacts, PktBytesType DEF PortType, ByteLength, PktBytes

LEMMA QueueOfType == ASSUME SetupFacts, NEW prio PROVE QueueOf(prio) \in PortQueues
BY DEF QueueOf, SetupFacts

\* The first priority queue with packets is one, and those before it are empty.
LEMMA PrioHeadFacts ==
    ASSUME SetupFacts, PortType, LengthOf(PrioQueues) > 0
    PROVE  PrioHead \in PrioQueues /\ HighestWaiting(PrioHead)
<1> DEFINE S == {c \in PrioQueues : fifo[c] # <<>>}
<1>1. PrioQueues \in SUBSET PortQueues /\ S \in SUBSET Nat
  BY DEF SetupFacts
<1>2. S # {}
  BY <1>1, LengthZero
<1>3. PICK m \in S : \A n \in S : m <= n
  BY <1>1, <1>2, LeastNatural
<1>4. \A d \in PrioQueues : d < m => fifo[d] = <<>>
  <2>1. SUFFICES ASSUME NEW d \in PrioQueues, d < m, d \in S PROVE FALSE
    OBVIOUS
  <2>2. m <= d /\ m \in Nat /\ d \in Nat
    BY <1>1, <1>3, <2>1
  <2>3. QED
    BY <2>1, <2>2
<1>5. \E c \in PrioQueues : fifo[c] # <<>> /\ \A d \in PrioQueues : d < c => fifo[d] = <<>>
  BY <1>3, <1>4
<1>6. /\ PrioHead \in PrioQueues /\ fifo[PrioHead] # <<>>
      /\ \A d \in PrioQueues : d < PrioHead => fifo[d] = <<>>
  BY <1>5 DEF PrioHead
<1>7. QED
  BY <1>1, <1>6 DEF HighestWaiting

\* With the priority queues empty, any other queue with packets may send.
LEMMA ShareMaySend ==
    ASSUME SetupFacts, PortType, LengthOf(PrioQueues) = 0, NEW c \in PortQueues, fifo[c] # <<>>
    PROVE  HighestWaiting(c)
<1>1. PrioQueues \in SUBSET PortQueues
  BY DEF SetupFacts
<1>2. QED
  BY <1>1, LengthZero DEF HighestWaiting

\* The queue with the earliest finish time exists.
LEMMA EarliestFacts ==
    ASSUME SetupFacts, PortType, headFinishTime \in [ShareQueues -> Int],
           LengthOf(ShareQueues) > 0
    PROVE  /\ Earliest \in ShareQueues /\ fifo[Earliest] # <<>>
           /\ \A d \in ShareQueues : fifo[d] # <<>> =>
                  headFinishTime[Earliest] <= headFinishTime[d]
<1> DEFINE S == {c \in ShareQueues : fifo[c] # <<>>}
           Before(c, d) == \/ headFinishTime[c] < headFinishTime[d]
                           \/ headFinishTime[c] = headFinishTime[d] /\ c < d
           G == {n \in Nat : \A T \in SUBSET S : T # {} /\ (\A t \in T : t < n) =>
                                 \E c \in T : \A d \in T \ {c} : Before(c, d)}
<1>1. ShareQueues \in SUBSET PortQueues /\ ShareQueues \subseteq 0 .. queue_num_ - 1
      /\ queue_num_ \in Nat
  BY DEF SetupFacts
<1>2. S # {}
  BY <1>1, LengthZero
<1>3. 0 \in G
  <2>1. \A t \in S : ~ (t < 0)
    BY <1>1
  <2>2. QED
    BY <2>1
<1>4. \A n \in Nat : n \in G => n + 1 \in G
  <2> SUFFICES ASSUME NEW n \in Nat, n \in G PROVE n + 1 \in G
    OBVIOUS
  <2>1. SUFFICES ASSUME NEW T \in SUBSET S, T # {}, \A t \in T : t < n + 1
                 PROVE  \E c \in T : \A d \in T \ {c} : Before(c, d)
    <3> HIDE DEF S, Before
    <3>1. QED
      OBVIOUS
  <2>2. \A t \in T : t \in Int /\ headFinishTime[t] \in Int
    BY <1>1
  <2>3. CASE n \notin T
    <3>1. \A t \in T : t < n
      BY <2>1, <2>2, <2>3
    <3>2. QED
      BY <2>1, <3>1
  <2>4. CASE T = {n}
    BY <2>4
  <2>5. CASE n \in T /\ T # {n}
    <3>1. (\A t \in T \ {n} : t < n) /\ T \ {n} # {} /\ T \ {n} \in SUBSET S
      BY <2>1, <2>2, <2>5
    <3>2. PICK c \in T \ {n} : \A d \in (T \ {n}) \ {c} : Before(c, d)
      BY <2>1, <3>1
    <3>3. CASE headFinishTime[n] < headFinishTime[c]
      <4>1. \A d \in T \ {n} : Before(n, d)
        BY <2>2, <2>5, <3>2, <3>3
      <4>2. QED
        BY <2>5, <4>1
    <3>4. CASE headFinishTime[c] <= headFinishTime[n]
      <4>1. c < n /\ Before(c, n)
        BY <2>2, <2>5, <3>1, <3>2, <3>4
      <4>2. QED
        BY <3>2, <4>1
    <3>5. QED
      BY <2>2, <2>5, <3>2, <3>3, <3>4
  <2>6. QED
    BY <2>3, <2>4, <2>5
<1>5. queue_num_ \in G
  <2> HIDE DEF G
  <2>1. QED
    BY <1>1, <1>3, <1>4, NatInduct
<1>6. \E c \in S : \A d \in S \ {c} : Before(c, d)
  <2>1. \A t \in S : t < queue_num_
    BY <1>1
  <2>2. QED
    BY <1>2, <1>5, <2>1
<1>7. PICK c \in ShareQueues : /\ fifo[c] # <<>>
                              /\ \A d \in ShareQueues \ {c} : fifo[d] # <<>> => Before(c, d)
  BY <1>6
<1>8. /\ Earliest \in ShareQueues /\ fifo[Earliest] # <<>>
      /\ \A d \in ShareQueues \ {Earliest} : fifo[d] # <<>> => Before(Earliest, d)
  BY <1>7 DEF Earliest
<1>9. QED
  BY <1>8

\* A packet that joins a queue.
LEMMA InsertFacts ==
    ASSUME SetupFacts, PortType, NEW c \in PortQueues, NEW size \in PktSizes,
           NEW ect \in BOOLEAN, NEW mark \in BOOLEAN, Insert(c, size, ect, mark)
    PROVE  \E pkt \in Pkts :
               /\ pkt.size = size /\ pkt.ect = ect /\ pkt.ce = (ect /\ mark)
               /\ fifo'[c] = Append(fifo[c], pkt) /\ fifo'[c] # <<>>
               /\ \A d \in PortQueues \ {c} : fifo'[d] = fifo[d]
<1> DEFINE pkt == [size |-> size, ect |-> ect, ce |-> ect /\ mark, stamp |-> Stamp(ect)]
<1>1. fifo' = [fifo EXCEPT ![c] = Append(@, pkt)]
  BY DEF Insert
<1>2. fifo \in [PortQueues -> Seq(Pkts)] /\ now \in Nat
  BY DEF PortType
<1>3. Stamp(ect) \in Nat
  BY <1>2 DEF Stamp
<1>4. pkt \in Pkts /\ pkt.size = size /\ pkt.ect = ect /\ pkt.ce = (ect /\ mark)
  BY <1>3 DEF Pkts
<1> HIDE DEF pkt
<1>5. fifo'[c] = Append(fifo[c], pkt) /\ \A d \in PortQueues \ {c} : fifo'[d] = fifo[d]
  BY <1>1, <1>2
<1>6. Append(fifo[c], pkt) # <<>>
  BY <1>2, <1>4, AppendProperties
<1>7. QED
  BY <1>4, <1>5, <1>6

\* The head packet of a queue leaves.
LEMMA LeaveFacts ==
    ASSUME SetupFacts, PortType, NEW c \in PortQueues, NEW mark, Leave(c, mark), fifo[c] # <<>>
    PROVE  /\ fifo[c] \in Seq(Pkts) /\ Len(fifo[c]) \in Nat \ {0}
           /\ Head(fifo[c]) \in Pkts /\ Head(fifo[c]).size \in Nat \ {0}
           /\ fifo'[c] = Tail(fifo[c])
           /\ fifo'[c] = <<>> <=> Len(fifo[c]) = 1
           /\ \A d \in PortQueues \ {c} : fifo'[d] = fifo[d]
<1>1. fifo \in [PortQueues -> Seq(Pkts)] /\ fifo' = [fifo EXCEPT ![c] = Tail(@)]
  BY DEF PortType, Leave
<1>2. fifo'[c] = Tail(fifo[c]) /\ \A d \in PortQueues \ {c} : fifo'[d] = fifo[d]
  BY <1>1
<1>3. fifo[c] \in Seq(Pkts) /\ Len(fifo[c]) \in Nat \ {0}
  BY <1>1, LenProperties, EmptySeq
<1>4. /\ Head(fifo[c]) \in Pkts /\ Tail(fifo[c]) \in Seq(Pkts)
      /\ Len(Tail(fifo[c])) = Len(fifo[c]) - 1
  BY <1>3, HeadTailProperties
<1>5. Tail(fifo[c]) = <<>> <=> Len(Tail(fifo[c])) = 0
  BY <1>4, EmptySeq
<1>6. QED
  BY <1>2, <1>3, <1>4, <1>5, PktFacts
-----------------------------------------------------------------------------
(***************************************************************************)
(* What the steps of a class do to the port, to the shares and to the      *)
(* order of service.                                                       *)
(***************************************************************************)
DwrrClasses == {"DWRR", "PRIO_DWRR"}
WfqClasses  == {"WFQ", "PRIO_WFQ"}

ShareStep ==
    /\ \/ share' = share
       \/ \E c \in ShareQueues, value \in ShareChoices : share' = [share EXCEPT ![c] = value]
    /\ last_idle_time' \in {last_idle_time, now}

\* The share queues have the same packets, and nothing of their order changes.
SameFifos == \A c \in ShareQueues : fifo'[c] = fifo[c]
SameShare == ShareChoices = {} => share' = share

DwrrCalm == SameFifos /\ SameShare /\ UNCHANGED <<dwrrVars, start_time, share_sum>>
DwrrArrival(c) ==
    /\ event = "none" /\ share' = share
    /\ \E size \in PktSizes, ect \in BOOLEAN, mark \in BOOLEAN :
           /\ Insert(c, size, ect, mark)
           /\ mark <=> EnqueMark(c, size)
    /\ IF fifo[c] = <<>> THEN DwrrActivate(c) ELSE UNCHANGED <<dwrrVars, start_time, share_sum>>
DwrrStepKind == DwrrCalm \/ (\E c \in ShareQueues : DwrrArrival(c)) \/ Rotate \/ DwrrServe

WfqCalm == SameFifos /\ SameShare /\ UNCHANGED <<wfqVars, share_sum>>
WfqArrival(c) ==
    /\ event = "none" /\ share' = share
    /\ \E size \in PktSizes, ect \in BOOLEAN, mark \in BOOLEAN :
           /\ Insert(c, size, ect, mark)
           /\ mark <=> WfqMark(c, ByteLength(c) + size, TotalByteLength + size)
           /\ IF fifo[c] = <<>> THEN WfqActivate(c, size) ELSE UNCHANGED <<wfqVars, share_sum>>
WfqStepKind == WfqCalm \/ (\E c \in ShareQueues : WfqArrival(c)) \/ WfqServe

WrrCalm == UNCHANGED <<current, start_time>> /\ (link' = link \/ Resume)
WrrArrival == event = "none" /\ WrrAfterIdle /\ UNCHANGED <<current, now, link>>
WrrStepKind == WrrCalm \/ WrrArrival \/ PassEmpty \/ PassSpent \/ WrrServe

LEMMA InsertKinds ==
    ASSUME SetupFacts, PortType, event = "none", NEW c \in PortQueues, NEW size \in PktSizes,
           NEW ect \in PktEcts, NEW mark \in BOOLEAN, Insert(c, size, ect, mark)
    PROVE  /\ Arrival
           /\ c \notin ShareQueues => SameFifos
<1>1. ect \in BOOLEAN
  BY DEF SetupFacts
<1>2. Arrival
  BY <1>1 DEF Arrival
<1>3. fifo' = [fifo EXCEPT ![c] = Append(@, [size |-> size, ect |-> ect,
                                              ce |-> ect /\ mark, stamp |-> Stamp(ect)])]
  BY DEF Insert
<1>4. ShareQueues \subseteq PortQueues /\ DOMAIN fifo = PortQueues
  BY DEF SetupFacts, PortType
<1>5. ASSUME c \notin ShareQueues, NEW d \in ShareQueues PROVE fifo'[d] = fifo[d]
  BY <1>3, <1>4, <1>5
<1>6. QED
  BY <1>2, <1>5 DEF SameFifos

LEMMA PrioServeKinds ==
    ASSUME SetupFacts, PortType, PrioTurn, Leave(PrioHead, FALSE)
    PROVE  Departure /\ SameFifos
<1>1. PrioHead \in PrioQueues /\ HighestWaiting(PrioHead) /\ event = "deque"
  BY PrioHeadFacts DEF PrioTurn
<1>2. PrioHead \in PortQueues /\ ShareQueues \subseteq PortQueues /\ DOMAIN fifo = PortQueues
  BY <1>1 DEF SetupFacts, PortType
<1>3. Departure
  BY <1>1, <1>2 DEF Departure
<1>4. fifo' = [fifo EXCEPT ![PrioHead] = Tail(@)]
  BY DEF Leave
<1>5. PrioHead \notin ShareQueues
  BY <1>1 DEF ShareQueues
<1>6. QED
  BY <1>2, <1>3, <1>4, <1>5 DEF SameFifos

LEMMA DwrrMarkType ==
    ASSUME NEW c, NEW len, NEW total, NEW sum, NEW round
    PROVE  DwrrMark(c, len, total, sum, round) \in BOOLEAN
BY DEF DwrrMark
LEMMA PrioDwrrMarkType ==
    ASSUME NEW c, NEW len, NEW total PROVE PrioDwrrMark(c, len, total) \in BOOLEAN
BY DEF PrioDwrrMark
LEMMA WfqMarkType == ASSUME NEW c, NEW len, NEW total PROVE WfqMark(c, len, total) \in BOOLEAN
BY DEF WfqMark
LEMMA PrioWfqMarkType ==
    ASSUME NEW c, NEW len, NEW total PROVE PrioWfqMark(c, len, total) \in BOOLEAN
BY DEF PrioWfqMark
LEMMA WrrMarkType == ASSUME NEW c, NEW len, NEW total PROVE WrrMark(c, len, total) \in BOOLEAN
BY DEF WrrMark
LEMMA StaticMarkType ==
    ASSUME NEW c, NEW len, NEW total PROVE StaticMark(c, len, total) \in BOOLEAN
BY DEF StaticMark

\* A packet that joins a DWRR queue.
LEMMA DwrrJoinKind ==
    ASSUME SetupFacts, PortType, event = "none", NEW c \in ShareQueues, NEW size \in PktSizes,
           NEW ect \in PktEcts, DwrrJoin(c, size, ect), UNCHANGED shareVars
    PROVE  PortStep /\ ShareStep /\ DwrrStepKind
<1> DEFINE mark == EnqueMark(c, size)
<1>1. mark \in BOOLEAN
  BY DEF EnqueMark
<1>2. Insert(c, size, ect, mark) /\ (mark <=> EnqueMark(c, size))
  BY DEF DwrrJoin
<1> HIDE DEF mark
<1>3. c \in PortQueues /\ ect \in BOOLEAN
  BY DEF SetupFacts
<1>4. Arrival
  BY <1>1, <1>2, <1>3, InsertKinds
<1>5. ShareStep /\ share' = share
  BY DEF ShareStep, shareVars
<1>6. DwrrArrival(c)
  BY <1>1, <1>2, <1>3, <1>5 DEF DwrrArrival, DwrrJoin
<1>7. QED
  BY <1>4, <1>5, <1>6 DEF PortStep, DwrrStepKind

\* The head of the list may send when its turn has come.
LEMMA DwrrHead ==
    ASSUME SetupFacts, PortType, DwrrTurn, Range(activeList) = Backlogged,
           activeList \in Seq(ShareQueues)
    PROVE  /\ activeList # <<>> /\ Head(activeList) \in ShareQueues
           /\ fifo[Head(activeList)] # <<>>
           /\ HighestWaiting(Head(activeList))
<1>1. ShareQueues \in SUBSET PortQueues /\ LengthOf(ShareQueues) > 0
  BY DEF SetupFacts, DwrrTurn
<1>2. Backlogged # {}
  BY <1>1, LengthZero DEF Backlogged
<1>3. activeList # <<>>
  <2>1. SUFFICES ASSUME activeList = <<>> PROVE FALSE
    OBVIOUS
  <2>2. Range(activeList) = {}
    BY <2>1 DEF Range
  <2>3. QED
    BY <1>2, <2>2
<1>4. Head(activeList) = activeList[1] /\ 1 \in DOMAIN activeList
  BY <1>3, LenProperties, EmptySeq
<1>5. Head(activeList) \in Backlogged
  BY <1>4 DEF Range
<1>6. Head(activeList) \in ShareQueues /\ fifo[Head(activeList)] # <<>>
  BY <1>5 DEF Backlogged
<1>7. HighestWaiting(Head(activeList))
  BY <1>1, <1>6, ShareMaySend DEF DwrrTurn
<1>8. QED
  BY <1>3, <1>6, <1>7

LEMMA DwrrServeKind ==
    ASSUME SetupFacts, PortType, Range(activeList) = Backlogged,
           activeList \in Seq(ShareQueues), Rotate \/ DwrrServe \/ DwrrServeNothing
    PROVE  PortStep /\ ShareStep /\ DwrrStepKind
<1>1. CASE Rotate
  BY <1>1 DEF Rotate, PortStep, ShareStep, DwrrStepKind, shareVars
<1>2. CASE DwrrServe
  <2> DEFINE h == Head(activeList)
             mark == DequeMark(h, Head(fifo[h]).size)
  <2>1. DwrrTurn /\ Leave(h, mark) /\ share' = share
        /\ NoteIdle(LengthOf(ShareQueues) - Head(fifo[h]).size)
    BY <1>2 DEF DwrrServe
  <2>2. mark \in BOOLEAN
    BY DEF DequeMark
  <2> HIDE DEF mark
  <2>3. h \in ShareQueues /\ HighestWaiting(h)
    BY <2>1, DwrrHead
  <2>4. h \in PortQueues
    BY <2>3 DEF SetupFacts
  <2>5. Departure
    BY <2>1, <2>2, <2>3, <2>4 DEF Departure, DwrrTurn
  <2>6. ShareStep
    BY <2>1 DEF ShareStep, NoteIdle
  <2>7. QED
    BY <1>2, <2>5, <2>6 DEF PortStep, DwrrStepKind
<1>3. CASE DwrrServeNothing
  <2>1. /\ event = "deque" /\ TotalByteLength = 0 /\ ReturnNull
        /\ share_sum' = share_sum /\ NoteIdle(0)
        /\ UNCHANGED <<share, start_time>> /\ UNCHANGED dwrrVars
    BY <1>3 DEF DwrrServeNothing, UpdateEstimate, roundVars
  <2>2. SameFifos
    BY <2>1 DEF ReturnNull, SameFifos
  <2>3. ShareStep /\ SameShare
    BY <2>1 DEF ShareStep, NoteIdle, SameShare
  <2>4. QED
    BY <2>1, <2>2, <2>3 DEF PortStep, DwrrStepKind, DwrrCalm
<1>4. QED
  BY <1>1, <1>2, <1>3

\* The steps that DWRR and PRIO_DWRR share: commands, timer and link.
LEMMA DwrrOtherKind ==
    ASSUME DwrrSetQuantum \/ DwrrTimeout \/ DwrrResume \/ DwrrTick
    PROVE  PortStep /\ ShareStep /\ DwrrStepKind
<1>1. CASE DwrrSetQuantum
  <2>1. PICK c \in ShareQueues, value \in ShareChoices :
            SetShare(c, value) /\ UNCHANGED <<roundVars, sumVars, dwrrVars>>
    BY <1>1 DEF DwrrSetQuantum
  <2>2. ShareStep /\ SameShare
    BY <2>1 DEF ShareStep, SetShare, SameShare
  <2>3. QED
    BY <2>1, <2>2 DEF SetShare, PortStep, DwrrStepKind, DwrrCalm, SameFifos, portVars,
                      sumVars, roundVars
<1>2. CASE DwrrTimeout
  <2>1. Timeout /\ UNCHANGED <<roundVars, dwrrVars>>
    BY <1>2 DEF DwrrTimeout
  <2>2. UNCHANGED portVars /\ UNCHANGED shareVars /\ share_sum' = share_sum
    BY <2>1 DEF Timeout
  <2>3. QED
    BY <2>1, <2>2 DEF PortStep, ShareStep, DwrrStepKind, DwrrCalm, SameFifos, SameShare,
                      portVars, shareVars, roundVars
<1>3. CASE DwrrResume
  <2>1. Resume /\ UNCHANGED <<shareVars, roundVars, sumVars, dwrrVars>>
    BY <1>3 DEF DwrrResume
  <2>2. fifo' = fifo
    BY <2>1 DEF Resume
  <2>3. QED
    BY <2>1, <2>2 DEF PortStep, ShareStep, DwrrStepKind, DwrrCalm, SameFifos, SameShare,
                      shareVars, roundVars, sumVars
<1>4. CASE DwrrTick
  <2>1. Tick /\ UNCHANGED <<shareVars, roundVars, sumVars, dwrrVars>>
    BY <1>4 DEF DwrrTick
  <2>2. fifo' = fifo
    BY <2>1 DEF Tick
  <2>3. QED
    BY <2>1, <2>2 DEF PortStep, ShareStep, DwrrStepKind, DwrrCalm, SameFifos, SameShare,
                      shareVars, roundVars, sumVars
<1>5. QED
  BY <1>1, <1>2, <1>3, <1>4

\* A packet that is dropped, or joins a priority queue.
LEMMA DropKind ==
    ASSUME event = "none", Drop, UNCHANGED shareVars
    PROVE  PortStep /\ ShareStep /\ SameFifos /\ SameShare
BY DEF PortStep, ShareStep, SameFifos, SameShare, Drop, shareVars

LEMMA DwrrStepFacts ==
    ASSUME SetupFacts, PortType, Range(activeList) = Backlogged,
           activeList \in Seq(ShareQueues), DwrrStep \/ PrioDwrrStep
    PROVE  PortStep /\ ShareStep /\ DwrrStepKind
<1>1. ASSUME NEW prio \in PktPrios, NEW size \in PktSizes, NEW ect \in PktEcts,
             DwrrEnque(prio, size, ect), class = "DWRR"
      PROVE  PortStep /\ ShareStep /\ DwrrStepKind
  <2>1. event = "none" /\ UNCHANGED shareVars
    BY <1>1 DEF DwrrEnque
  <2>2. CASE Overfilled(size)
    <3>1. Drop /\ UNCHANGED <<dwrrVars, start_time, share_sum>>
      BY <1>1, <2>2 DEF DwrrEnque
    <3>2. QED
      BY <2>1, <3>1, DropKind DEF DwrrStepKind, DwrrCalm
  <2>3. CASE ~Overfilled(size)
    <3>1. DwrrJoin(QueueOf(prio), size, ect)
      BY <1>1, <2>3 DEF DwrrEnque
    <3>2. QueueOf(prio) \in ShareQueues
      BY <1>1, QueueOfType DEF SetupFacts
    <3>3. QED
      BY <2>1, <3>1, <3>2, DwrrJoinKind
  <2>4. QED
    BY <2>2, <2>3
<1>2. ASSUME NEW prio \in PktPrios, NEW size \in PktSizes, NEW ect \in PktEcts,
             PrioDwrrEnque(prio, size, ect)
      PROVE  PortStep /\ ShareStep /\ DwrrStepKind
  <2>1. event = "none" /\ UNCHANGED shareVars
    BY <1>2 DEF PrioDwrrEnque
  <2> DEFINE c == QueueOf(prio)
  <2>2. c \in PortQueues
    BY QueueOfType
  <2>3. CASE Overfilled(size)
    <3>1. Drop /\ UNCHANGED <<dwrrVars, start_time, share_sum>>
      BY <1>2, <2>3 DEF PrioDwrrEnque
    <3>2. QED
      BY <2>1, <3>1, DropKind DEF DwrrStepKind, DwrrCalm
  <2>4. CASE ~Overfilled(size) /\ c \in PrioQueues
    <3> DEFINE mark == PrioDwrrMark(c, ByteLength(c) + size, TotalByteLength + size)
    <3>1. PrioDwrrJoin(c, size, ect)
      BY <1>2, <2>4 DEF PrioDwrrEnque
    <3>2. mark \in BOOLEAN
      BY PrioDwrrMarkType
    <3>3. Insert(c, size, ect, mark) /\ UNCHANGED <<dwrrVars, start_time, share_sum>>
      BY <3>1 DEF PrioDwrrJoin
    <3> HIDE DEF mark
    <3>4. c \notin ShareQueues
      BY <2>4 DEF ShareQueues
    <3> HIDE DEF c
    <3>5. Arrival /\ SameFifos
      BY <2>1, <2>2, <3>2, <3>3, <3>4, InsertKinds
    <3>6. ShareStep /\ SameShare
      BY <2>1 DEF ShareStep, SameShare, shareVars
    <3>7. QED
      BY <3>3, <3>5, <3>6 DEF PortStep, DwrrStepKind, DwrrCalm
  <2>5. CASE ~Overfilled(size) /\ c \notin PrioQueues
    <3>1. DwrrJoin(c, size, ect)
      BY <1>2, <2>5 DEF PrioDwrrEnque
    <3>2. c \in ShareQueues
      BY <2>2, <2>5 DEF ShareQueues
    <3>3. QED
      BY <2>1, <3>1, <3>2, DwrrJoinKind
  <2>6. QED
    BY <2>3, <2>4, <2>5
<1>3. ASSUME PrioDwrrServePrio PROVE PortStep /\ ShareStep /\ DwrrStepKind
  <2>1. /\ PrioTurn /\ Leave(PrioHead, FALSE)
        /\ UNCHANGED <<shareVars, roundVars, sumVars, dwrrVars>>
    BY <1>3 DEF PrioDwrrServePrio
  <2>2. Departure /\ SameFifos
    BY <2>1, PrioServeKinds
  <2>3. QED
    BY <2>1, <2>2 DEF PortStep, ShareStep, DwrrStepKind, DwrrCalm, SameShare, shareVars,
                      roundVars, sumVars
<1>4. CASE DwrrStep
  <2>1. class = "DWRR" /\ DwrrNext
    BY <1>4 DEF DwrrStep
  <2>2. CASE \E prio \in PktPrios, size \in PktSizes, ect \in PktEcts :
                 DwrrEnque(prio, size, ect)
    BY <1>1, <2>1, <2>2
  <2>3. CASE DwrrDeque
    BY <2>3, DwrrServeKind DEF DwrrDeque
  <2>4. CASE DwrrSetQuantum \/ DwrrTimeout \/ DwrrResume \/ DwrrTick
    BY <2>4, DwrrOtherKind
  <2>5. QED
    BY <2>1, <2>2, <2>3, <2>4 DEF DwrrNext
<1>5. CASE PrioDwrrStep
  <2>1. PrioDwrrNext
    BY <1>5 DEF PrioDwrrStep
  <2>2. CASE \E prio \in PktPrios, size \in PktSizes, ect \in PktEcts :
                 PrioDwrrEnque(prio, size, ect)
    BY <1>2, <2>2
  <2>3. CASE PrioDwrrDeque
    BY <1>3, <2>3, DwrrServeKind DEF PrioDwrrDeque, PrioDwrrServe
  <2>4. CASE PrioDwrrSetQuantum \/ PrioDwrrTimeout \/ DwrrResume \/ DwrrTick
    BY <2>4, DwrrOtherKind DEF PrioDwrrSetQuantum, PrioDwrrTimeout
  <2>5. QED
    BY <2>1, <2>2, <2>3, <2>4 DEF PrioDwrrNext
<1>6. QED
  BY <1>4, <1>5
-----------------------------------------------------------------------------
\* A packet that joins a WFQ queue.
LEMMA WfqJoinKind ==
    ASSUME SetupFacts, PortType, event = "none", NEW c \in ShareQueues, NEW size \in PktSizes,
           NEW ect \in PktEcts, WfqJoin(c, size, ect), UNCHANGED shareVars
    PROVE  PortStep /\ ShareStep /\ WfqStepKind
<1> DEFINE mark == WfqMark(c, ByteLength(c) + size, TotalByteLength + size)
<1>1. mark \in BOOLEAN
  BY WfqMarkType
<1>2. /\ Insert(c, size, ect, mark)
      /\ mark <=> WfqMark(c, ByteLength(c) + size, TotalByteLength + size)
  BY DEF WfqJoin
<1> HIDE DEF mark
<1>3. c \in PortQueues /\ ect \in BOOLEAN
  BY DEF SetupFacts
<1>4. Arrival
  BY <1>1, <1>2, <1>3, InsertKinds
<1>5. ShareStep /\ share' = share
  BY DEF ShareStep, shareVars
<1>6. WfqArrival(c)
  BY <1>1, <1>2, <1>3, <1>5 DEF WfqArrival, WfqJoin
<1>7. QED
  BY <1>4, <1>5, <1>6 DEF PortStep, WfqStepKind

LEMMA WfqServeKind ==
    ASSUME SetupFacts, PortType, headFinishTime \in [ShareQueues -> Int],
           WfqServe \/ WfqServeNothing
    PROVE  PortStep /\ ShareStep /\ WfqStepKind
<1>1. CASE WfqServe
  <2>1. /\ event = "deque" /\ LengthOf(PrioQueues) = 0 /\ LengthOf(ShareQueues) > 0
        /\ Leave(Earliest, FALSE) /\ share' = share
        /\ WfqNoteIdle(LengthOf(ShareQueues) - Head(fifo[Earliest]).size)
    BY <1>1 DEF WfqServe
  <2>2. Earliest \in ShareQueues /\ fifo[Earliest] # <<>>
    BY <2>1, EarliestFacts
  <2>3. Earliest \in PortQueues
    BY <2>2 DEF SetupFacts
  <2>4. HighestWaiting(Earliest)
    BY <2>1, <2>2, <2>3, ShareMaySend
  <2>5. Departure
    BY <2>1, <2>3, <2>4 DEF Departure
  <2>6. ShareStep
    BY <2>1 DEF ShareStep, WfqNoteIdle, NoteIdle
  <2>7. QED
    BY <1>1, <2>5, <2>6 DEF PortStep, WfqStepKind
<1>2. CASE WfqServeNothing
  <2>1. /\ event = "deque" /\ TotalByteLength = 0 /\ ReturnNull
        /\ share_sum' = share_sum /\ WfqNoteIdle(0)
        /\ share' = share /\ UNCHANGED wfqVars
    BY <1>2 DEF WfqServeNothing, UpdateEstimate
  <2>2. SameFifos
    BY <2>1 DEF ReturnNull, SameFifos
  <2>3. ShareStep /\ SameShare
    BY <2>1 DEF ShareStep, WfqNoteIdle, NoteIdle, SameShare
  <2>4. QED
    BY <2>1, <2>2, <2>3 DEF PortStep, WfqStepKind, WfqCalm
<1>3. QED
  BY <1>1, <1>2

\* The steps that WFQ and PRIO_WFQ share: commands, timer and link.
LEMMA WfqOtherKind ==
    ASSUME WfqSetWeight \/ WfqTimeout \/ WfqResume \/ WfqTick
    PROVE  PortStep /\ ShareStep /\ WfqStepKind
<1>1. CASE WfqSetWeight
  <2>1. PICK c \in ShareQueues, value \in ShareChoices :
            SetShare(c, value) /\ UNCHANGED <<sumVars, wfqVars>>
    BY <1>1 DEF WfqSetWeight
  <2>2. ShareStep /\ SameShare
    BY <2>1 DEF ShareStep, SetShare, SameShare
  <2>3. QED
    BY <2>1, <2>2 DEF SetShare, PortStep, WfqStepKind, WfqCalm, SameFifos, portVars, sumVars
<1>2. CASE WfqTimeout
  <2>1. Timeout /\ UNCHANGED wfqVars
    BY <1>2 DEF WfqTimeout
  <2>2. UNCHANGED portVars /\ UNCHANGED shareVars /\ share_sum' = share_sum
    BY <2>1 DEF Timeout
  <2>3. QED
    BY <2>1, <2>2 DEF PortStep, ShareStep, WfqStepKind, WfqCalm, SameFifos, SameShare,
                      portVars, shareVars
<1>3. CASE WfqResume
  <2>1. Resume /\ UNCHANGED <<shareVars, sumVars, wfqVars>>
    BY <1>3 DEF WfqResume
  <2>2. fifo' = fifo
    BY <2>1 DEF Resume
  <2>3. QED
    BY <2>1, <2>2 DEF PortStep, ShareStep, WfqStepKind, WfqCalm, SameFifos, SameShare,
                      shareVars, sumVars
<1>4. CASE WfqTick
  <2>1. Tick /\ UNCHANGED <<shareVars, sumVars, wfqVars>>
    BY <1>4 DEF WfqTick
  <2>2. fifo' = fifo
    BY <2>1 DEF Tick
  <2>3. QED
    BY <2>1, <2>2 DEF PortStep, ShareStep, WfqStepKind, WfqCalm, SameFifos, SameShare,
                      shareVars, sumVars
<1>5. QED
  BY <1>1, <1>2, <1>3, <1>4

LEMMA WfqStepFacts ==
    ASSUME SetupFacts, PortType, headFinishTime \in [ShareQueues -> Int],
           WfqStep \/ PrioWfqStep
    PROVE  PortStep /\ ShareStep /\ WfqStepKind
<1>1. ASSUME NEW prio \in PktPrios, NEW size \in PktSizes, NEW ect \in PktEcts,
             WfqEnque(prio, size, ect), class = "WFQ"
      PROVE  PortStep /\ ShareStep /\ WfqStepKind
  <2>1. event = "none" /\ UNCHANGED shareVars
    BY <1>1 DEF WfqEnque
  <2>2. CASE Overfilled(size)
    <3>1. Drop /\ UNCHANGED <<wfqVars, share_sum>>
      BY <1>1, <2>2 DEF WfqEnque
    <3>2. QED
      BY <2>1, <3>1, DropKind DEF WfqStepKind, WfqCalm
  <2>3. CASE ~Overfilled(size)
    <3>1. WfqJoin(QueueOf(prio), size, ect)
      BY <1>1, <2>3 DEF WfqEnque
    <3>2. QueueOf(prio) \in ShareQueues
      BY <1>1, QueueOfType DEF SetupFacts
    <3>3. QED
      BY <2>1, <3>1, <3>2, WfqJoinKind
  <2>4. QED
    BY <2>2, <2>3
<1>2. ASSUME NEW prio \in PktPrios, NEW size \in PktSizes, NEW ect \in PktEcts,
             PrioWfqEnque(prio, size, ect)
      PROVE  PortStep /\ ShareStep /\ WfqStepKind
  <2>1. event = "none" /\ UNCHANGED shareVars
    BY <1>2 DEF PrioWfqEnque
  <2> DEFINE c == QueueOf(prio)
  <2>2. c \in PortQueues
    BY QueueOfType
  <2>3. CASE Overfilled(size)
    <3>1. Drop /\ UNCHANGED <<wfqVars, share_sum>>
      BY <1>2, <2>3 DEF PrioWfqEnque
    <3>2. QED
      BY <2>1, <3>1, DropKind DEF WfqStepKind, WfqCalm
  <2>4. CASE ~Overfilled(size) /\ c \in PrioQueues
    <3> DEFINE mark == PrioWfqMark(c, ByteLength(c) + size, TotalByteLength + size)
    <3>1. PrioWfqJoin(c, size, ect)
      BY <1>2, <2>4 DEF PrioWfqEnque
    <3>2. mark \in BOOLEAN
      BY PrioWfqMarkType
    <3>3. Insert(c, size, ect, mark) /\ UNCHANGED <<wfqVars, share_sum>>
      BY <3>1 DEF PrioWfqJoin
    <3> HIDE DEF mark
    <3>4. c \notin ShareQueues
      BY <2>4 DEF ShareQueues
    <3> HIDE DEF c
    <3>5. Arrival /\ SameFifos
      BY <2>1, <2>2, <3>2, <3>3, <3>4, InsertKinds
    <3>6. ShareStep /\ SameShare
      BY <2>1 DEF ShareStep, SameShare, shareVars
    <3>7. QED
      BY <3>3, <3>5, <3>6 DEF PortStep, WfqStepKind, WfqCalm
  <2>5. CASE ~Overfilled(size) /\ c \notin PrioQueues
    <3>1. WfqJoin(c, size, ect)
      BY <1>2, <2>5 DEF PrioWfqEnque
    <3>2. c \in ShareQueues
      BY <2>2, <2>5 DEF ShareQueues
    <3>3. QED
      BY <2>1, <3>1, <3>2, WfqJoinKind
  <2>6. QED
    BY <2>3, <2>4, <2>5
<1>3. ASSUME PrioWfqServePrio PROVE PortStep /\ ShareStep /\ WfqStepKind
  <2>1. PrioTurn /\ Leave(PrioHead, FALSE) /\ UNCHANGED <<shareVars, sumVars, wfqVars>>
    BY <1>3 DEF PrioWfqServePrio
  <2>2. Departure /\ SameFifos
    BY <2>1, PrioServeKinds
  <2>3. QED
    BY <2>1, <2>2 DEF PortStep, ShareStep, WfqStepKind, WfqCalm, SameShare, shareVars, sumVars
<1>4. CASE WfqStep
  <2>1. class = "WFQ" /\ WfqNext
    BY <1>4 DEF WfqStep
  <2>2. CASE \E prio \in PktPrios, size \in PktSizes, ect \in PktEcts :
                 WfqEnque(prio, size, ect)
    BY <1>1, <2>1, <2>2
  <2>3. CASE WfqDeque
    BY <2>3, WfqServeKind DEF WfqDeque
  <2>4. CASE WfqSetWeight \/ WfqTimeout \/ WfqResume \/ WfqTick
    BY <2>4, WfqOtherKind
  <2>5. QED
    BY <2>1, <2>2, <2>3, <2>4 DEF WfqNext
<1>5. CASE PrioWfqStep
  <2>1. PrioWfqNext
    BY <1>5 DEF PrioWfqStep
  <2>2. CASE \E prio \in PktPrios, size \in PktSizes, ect \in PktEcts :
                 PrioWfqEnque(prio, size, ect)
    BY <1>2, <2>2
  <2>3. CASE PrioWfqDeque
    BY <1>3, <2>3, WfqServeKind DEF PrioWfqDeque, PrioWfqServe
  <2>4. CASE PrioWfqSetWeight \/ PrioWfqTimeout \/ WfqResume \/ WfqTick
    BY <2>4, WfqOtherKind DEF PrioWfqSetWeight, PrioWfqTimeout
  <2>5. QED
    BY <2>1, <2>2, <2>3, <2>4 DEF PrioWfqNext
<1>6. QED
  BY <1>4, <1>5
-----------------------------------------------------------------------------
LEMMA WrrServeKind ==
    ASSUME SetupFacts, PortType, class = "WRR", current \in PortQueues, WrrServe
    PROVE  PortStep /\ ShareStep
<1> DEFINE size == Head(fifo[current]).size
<1>1. /\ event = "deque" /\ fifo[current] # <<>> /\ Leave(current, FALSE)
      /\ share' = share /\ NoteIdle(TotalByteLength - size)
  BY DEF WrrServe, WrrTurn
<1>2. PrioQueues = {}
  BY DEF SetupFacts
<1>3. HighestWaiting(current)
  BY <1>1, <1>2 DEF HighestWaiting
<1>4. Departure
  BY <1>1, <1>3 DEF Departure
<1>5. ShareStep
  BY <1>1 DEF ShareStep, NoteIdle
<1>6. QED
  BY <1>4, <1>5 DEF PortStep

LEMMA WrrStepFacts ==
    ASSUME SetupFacts, PortType, class = "WRR", current \in PortQueues, WrrStep
    PROVE  PortStep /\ ShareStep /\ WrrStepKind
<1>1. ASSUME NEW prio \in PktPrios, NEW size \in PktSizes, NEW ect \in PktEcts,
             WrrEnque(prio, size, ect)
      PROVE  PortStep /\ ShareStep /\ WrrStepKind
  <2> DEFINE c == QueueOf(prio)
             mark == WrrMark(c, ByteLength(c) + size, TotalByteLength + size)
  <2>1. event = "none" /\ UNCHANGED shareVars /\ WrrAfterIdle /\ current' = current
    BY <1>1 DEF WrrEnque, wrrVars
  <2>2. ShareStep
    BY <2>1 DEF ShareStep, shareVars
  <2>3. mark \in BOOLEAN /\ c \in PortQueues
    BY WrrMarkType, QueueOfType
  <2>4. Drop \/ Insert(c, size, ect, mark)
    BY <1>1 DEF WrrEnque
  <2> HIDE DEF mark, c
  <2>5. PortStep
    BY <2>1, <2>3, <2>4, InsertKinds DEF PortStep
  <2>6. WrrArrival
    BY <2>1, <2>4 DEF WrrArrival, Drop, Insert
  <2>7. QED
    BY <2>2, <2>5, <2>6 DEF WrrStepKind
<1>2. CASE WrrDeque
  <2>1. CASE PassEmpty \/ PassSpent
    BY <2>1 DEF PassEmpty, PassSpent, PortStep, ShareStep, WrrStepKind, shareVars
  <2>2. CASE WrrServe
    BY <2>2, WrrServeKind DEF WrrStepKind
  <2>3. CASE WrrServeNothing
    <3>1. /\ event = "deque" /\ TotalByteLength = 0 /\ ReturnNull /\ NoteIdle(0)
          /\ share' = share /\ UNCHANGED <<roundVars, wrrVars>>
      BY <2>3 DEF WrrServeNothing
    <3>2. QED
      BY <3>1 DEF PortStep, ShareStep, NoteIdle, WrrStepKind, WrrCalm, ReturnNull, roundVars,
                  wrrVars
  <2>4. QED
    BY <1>2, <2>1, <2>2, <2>3 DEF WrrDeque
<1>3. CASE WrrSetQuantum
  <2>1. PICK c \in PortQueues, value \in ShareChoices :
            SetShare(c, value) /\ UNCHANGED <<roundVars, wrrVars>>
    BY <1>3 DEF WrrSetQuantum
  <2>2. c \in ShareQueues
    BY DEF SetupFacts
  <2>3. QED
    BY <2>1, <2>2 DEF SetShare, PortStep, ShareStep, WrrStepKind, WrrCalm, portVars, roundVars,
                      wrrVars
<1>4. CASE WrrResume
  BY <1>4 DEF WrrResume, PortStep, ShareStep, WrrStepKind, WrrCalm, shareVars, roundVars,
                wrrVars
<1>5. CASE WrrTick
  <2>1. Tick /\ UNCHANGED <<shareVars, roundVars, wrrVars>>
    BY <1>5 DEF WrrTick
  <2>2. link' = link
    BY <2>1 DEF Tick
  <2>3. QED
    BY <2>1, <2>2 DEF PortStep, ShareStep, WrrStepKind, WrrCalm, shareVars, roundVars, wrrVars
<1>6. QED
  BY <1>1, <1>2, <1>3, <1>4, <1>5 DEF WrrStep, WrrNext

LEMMA PriorityStepFacts ==
    ASSUME SetupFacts, PortType, PriorityStep
    PROVE  PortStep /\ ShareStep
<1>1. PriorityNext /\ UNCHANGED shareVars
  BY DEF PriorityStep
<1>2. ShareStep
  BY <1>1 DEF ShareStep, shareVars
<1>3. ASSUME NEW prio \in PktPrios, NEW size \in PktSizes, NEW ect \in PktEcts,
             PriorityEnque(prio, size, ect)
      PROVE  PortStep
  <2> DEFINE c == QueueOf(prio)
             mark == StaticMark(c, ByteLength(c) + size, TotalByteLength + size)
  <2>1. mark \in BOOLEAN /\ c \in PortQueues
    BY StaticMarkType, QueueOfType
  <2>2. event = "none" /\ (Drop \/ Insert(c, size, ect, mark))
    BY <1>3 DEF PriorityEnque
  <2> HIDE DEF mark, c
  <2>3. QED
    BY <2>1, <2>2, InsertKinds DEF PortStep
<1>4. ASSUME PriorityDeque PROVE PortStep
  <2>1. CASE PrioTurn /\ Leave(PrioHead, FALSE)
    BY <2>1, PrioServeKinds DEF PortStep
  <2>2. CASE event = "deque" /\ TotalByteLength = 0 /\ ReturnNull
    BY <2>2 DEF PortStep
  <2>3. QED
    BY <1>4, <2>1, <2>2 DEF PriorityDeque
<1>5. QED
  BY <1>1, <1>2, <1>3, <1>4 DEF PriorityNext, PortStep
-----------------------------------------------------------------------------
(***************************************************************************)
(* The measurement of the drain rate.                                      *)
(***************************************************************************)
LEMMA Quotients ==
    ASSUME NEW n \in Int, NEW d \in Nat \ {0}
    PROVE  /\ n \div d \in Int
           /\ d * (n \div d) <= n /\ n < d * (n \div d) + d
<1> DEFINE q == n \div d
           r == n % d
<1>1. q \in Int /\ r \in 0 .. d - 1 /\ n = d * q + r
  OBVIOUS
<1> HIDE DEF q, r
<1>2. d * q \in Int
  BY <1>1
<1>3. QED
  BY <1>1, <1>2 DEF q

LEMMA QuotientAtMost ==
    ASSUME NEW n \in Int, NEW d \in Nat \ {0}, NEW b \in Int, n <= d * b
    PROVE  n \div d <= b
<1> DEFINE q == n \div d
<1>1. q \in Int /\ d * q <= n
  BY Quotients
<1> HIDE DEF q
<1>2. SUFFICES ASSUME q > b PROVE FALSE
  BY <1>1 DEF q
<1>3. q - b - 1 \in Nat /\ d \in Nat
  BY <1>1, <1>2
<1>4. d * (q - b - 1) \in Nat
  BY <1>3
<1>5. d * (q - b - 1) = d * q - d * b - d
  BY <1>1
<1>6. d * q \in Int /\ d * b \in Int
  BY <1>1
<1>7. QED
  BY <1>1, <1>4, <1>5, <1>6

LEMMA EwmaAtMost ==
    ASSUME NEW smooth \in Nat, NEW sample \in Nat, NEW alpha \in 0 .. AlphaUnit,
           NEW b \in Nat, smooth <= b, sample <= b
    PROVE  Ewma(smooth, sample, alpha) \in Int /\ Ewma(smooth, sample, alpha) <= b
<1>1. AlphaUnit \in Nat \ {0}
  BY Ns2PortAssumption
<1>2. alpha \in Nat /\ AlphaUnit - alpha \in Nat
  BY <1>1
<1>3. smooth * alpha \in Nat /\ smooth * alpha <= b * alpha
  BY <1>2, Products
<1>4. /\ sample * (AlphaUnit - alpha) \in Nat
      /\ sample * (AlphaUnit - alpha) <= b * (AlphaUnit - alpha)
  BY <1>2, Products
<1>5. b * alpha + b * (AlphaUnit - alpha) = AlphaUnit * b
  BY <1>1, <1>2
<1> DEFINE n == smooth * alpha + sample * (AlphaUnit - alpha)
<1>6. b * alpha \in Int /\ b * (AlphaUnit - alpha) \in Int /\ AlphaUnit * b \in Int
  BY <1>1, <1>2
<1>7. n \in Int /\ n <= AlphaUnit * b
  BY <1>3, <1>4, <1>5, <1>6
<1>8. Ewma(smooth, sample, alpha) = n \div AlphaUnit
  BY DEF Ewma
<1> HIDE DEF n
<1>9. QED
  BY <1>1, <1>7, <1>8, Quotients, QuotientAtMost

\* A cycle never counts more bytes than the link can have sent since it began, so that
\* the measured rate is at most that of the link.
RateInv(d, free) ==
    /\ d \in Drains /\ d.rate <= RateUnit
    /\ d.count # DQ_COUNT_INVALID => d.tstamp <= free /\ d.count <= free - d.tstamp

LEMMA MeasureInv ==
    ASSUME DqThresh \in Nat \ {0}, now \in Nat, NEW d, RateInv(d, now),
           NEW size \in Nat \ {0}, NEW rest \in Int
    PROVE  RateInv(Measure(d, size, rest), now + size)
<1> DEFINE begun     == IF rest >= DqThresh /\ d.count = DQ_COUNT_INVALID
                        THEN [d EXCEPT !.tstamp = now, !.count = 0] ELSE d
           bytesSent == begun.count + size
           sample    == RateSample(bytesSent, begun.tstamp, size)
           rate      == IF d.rate < 0 THEN sample ELSE Ewma(d.rate, sample, RateAlpha)
<1>1. RateUnit \in Nat \ {0} /\ RateAlpha \in 0 .. AlphaUnit /\ DQ_COUNT_INVALID = -1
  BY Ns2PortAssumption DEF DQ_COUNT_INVALID
<1>2. /\ d \in Drains /\ d.tstamp \in Nat /\ d.count \in Nat \cup {-1} /\ d.rate \in Int
      /\ d.rate <= RateUnit
      /\ d.count # -1 => d.tstamp <= now /\ d.count <= now - d.tstamp
  BY <1>1 DEF RateInv, Drains
<1>3. /\ begun \in Drains /\ begun.rate = d.rate
      /\ begun.tstamp \in Nat /\ begun.count \in Nat \cup {-1}
      /\ begun.count # -1 => begun.tstamp <= now /\ begun.count <= now - begun.tstamp
  <2>1. CASE rest >= DqThresh /\ d.count = DQ_COUNT_INVALID
    <3>1. begun = [d EXCEPT !.tstamp = now, !.count = 0]
      BY <2>1
    <3> HIDE DEF begun
    <3>2. begun \in Drains /\ begun.rate = d.rate /\ begun.tstamp = now /\ begun.count = 0
      BY <1>2, <3>1 DEF Drains
    <3>3. QED
      BY <3>2
  <2>2. CASE ~ (rest >= DqThresh /\ d.count = DQ_COUNT_INVALID)
    <3>1. begun = d
      BY <2>2
    <3>2. QED
      BY <1>2, <3>1
  <2>3. QED
    BY <2>1, <2>2
<1>4. Measure(d, size, rest) =
          IF begun.count = DQ_COUNT_INVALID THEN begun
          ELSE IF bytesSent < DqThresh THEN [begun EXCEPT !.count = bytesSent]
          ELSE IF rest < DqThresh
               THEN [begun EXCEPT !.rate = rate, !.count = DQ_COUNT_INVALID]
          ELSE [tstamp |-> now + TxTime(size), count |-> 0, rate |-> rate]
  BY DEF Measure
<1> HIDE DEF begun
<1>5. CASE begun.count = -1
  BY <1>1, <1>2, <1>3, <1>4, <1>5 DEF RateInv
<1>6. CASE begun.count # -1
  <2>1. bytesSent \in Nat /\ begun.tstamp <= now /\ bytesSent <= now + size - begun.tstamp
    BY <1>3, <1>6
  <2> DEFINE time == now - begun.tstamp + size
  <2>2. time \in Nat \ {0} /\ bytesSent <= time
    BY <1>3, <2>1
  <2>3. sample = (bytesSent * RateUnit) \div time
    BY DEF RateSample, TxTime
  <2> HIDE DEF bytesSent, time
  <2>4. bytesSent * RateUnit \in Nat /\ bytesSent * RateUnit <= time * RateUnit
    BY <1>1, <2>1, <2>2, Products
  <2> DEFINE bytes == bytesSent * RateUnit
  <2>5. bytes \div time \in Int /\ bytes \div time <= RateUnit
    <3> HIDE DEF bytes
    <3>1. bytes \in Int /\ bytes <= time * RateUnit /\ RateUnit \in Int
      BY <1>1, <2>4 DEF bytes
    <3>2. QED
      BY <2>2, <3>1, Quotients, QuotientAtMost
  <2>6. sample \in Nat
    <3>1. bytes >= 0 /\ time > 0
      BY <2>2, <2>4
    <3> HIDE DEF bytes
    <3>2. bytes \in Int /\ time \in Int
      BY <2>2, <2>4 DEF bytes
    <3>3. bytes \div time >= 0
      BY <3>1, <3>2
    <3>4. QED
      BY <2>3, <2>5, <3>3 DEF bytes
  <2>7. sample <= RateUnit
    BY <2>3, <2>5
  <2> HIDE DEF sample
  <2>8. rate \in Int /\ rate <= RateUnit
    <3>1. CASE d.rate < 0
      BY <2>6, <2>7, <3>1
    <3>2. CASE d.rate >= 0
      <4>1. d.rate \in Nat /\ RateUnit \in Nat
        BY <1>1, <1>2, <3>2
      <4>2. QED
        BY <1>1, <1>2, <2>6, <2>7, <3>2, <4>1, EwmaAtMost
    <3>3. QED
      BY <1>2, <3>1, <3>2
  <2> HIDE DEF rate
  <2>9. CASE bytesSent < DqThresh
    <3>1. Measure(d, size, rest) = [begun EXCEPT !.count = bytesSent]
      BY <1>1, <1>4, <1>6, <2>9
    <3>2. now + size - begun.tstamp \in Int /\ begun.tstamp <= now + size
      BY <1>3, <2>1
    <3>3. [begun EXCEPT !.count = bytesSent] \in Drains
      BY <1>3, <2>1 DEF Drains
    <3>4. QED
      BY <1>2, <1>3, <2>1, <3>1, <3>2, <3>3 DEF RateInv, Drains
  <2>10. CASE bytesSent >= DqThresh /\ rest < DqThresh
    <3>1. Measure(d, size, rest) = [begun EXCEPT !.rate = rate, !.count = -1]
      BY <1>1, <1>4, <1>6, <2>1, <2>10
    <3>2. QED
      BY <1>1, <1>3, <2>8, <3>1 DEF RateInv, Drains
  <2>11. CASE bytesSent >= DqThresh /\ ~ (rest < DqThresh)
    <3>1. Measure(d, size, rest) = [tstamp |-> now + size, count |-> 0, rate |-> rate]
      BY <1>1, <1>4, <1>6, <2>1, <2>11 DEF TxTime
    <3>2. now + size \in Nat /\ (now + size) - (now + size) = 0
      OBVIOUS
    <3>3. QED
      BY <1>1, <2>8, <3>1, <3>2 DEF RateInv, Drains
  <2>12. QED
    BY <2>1, <2>9, <2>10, <2>11
<1>7. QED
  BY <1>3, <1>5, <1>6
-----------------------------------------------------------------------------
(***************************************************************************)
(* What the port keeps.                                                    *)
(***************************************************************************)
DrainInv == \A c \in PortQueues : RateInv(drain[c], LinkFree)
PortInv  == PortType /\ LinkInv /\ DrainInv

LEMMA RateInvLater ==
    ASSUME NEW d, NEW free \in Nat, RateInv(d, free), NEW later \in Nat, free <= later
    PROVE  RateInv(d, later)
<1>1. d.count # DQ_COUNT_INVALID => d.tstamp \in Nat /\ d.count \in Nat
  BY DEF RateInv, Drains
<1>2. QED
  BY <1>1 DEF RateInv

LEMMA LinkFreeType ==
    ASSUME PortType, LinkInv
    PROVE  /\ LinkFree \in Nat /\ now <= LinkFree
           /\ event = "deque" => LinkFree = now
BY DEF PortType, LinkInv, LinkFree, Idle

LEMMA PortStepInv ==
    ASSUME SetupFacts, PortInv, PortStep
    PROVE  /\ PortInv' /\ SameSetup
           /\ now <= now' /\ LinkFree <= LinkFree'
<1> USE DEF Idle
<1>1. /\ setup \in DOMAIN Setups /\ now \in Nat /\ link \in Nat \cup {Idle}
      /\ event \in {"none", "deque"}
      /\ fifo \in [PortQueues -> Seq(Pkts)] /\ drain \in [PortQueues -> Drains]
      /\ event = "deque" => link = Idle
      /\ link # Idle => now <= link
      /\ \A c \in PortQueues : RateInv(drain[c], LinkFree)
  BY DEF PortInv, PortType, LinkInv, DrainInv
<1>2. LinkFree \in Nat /\ now <= LinkFree /\ (event = "deque" => LinkFree = now)
  BY LinkFreeType DEF PortInv
<1>3. setup' = setup
  BY DEF PortStep, Arrival, Insert, Drop, Departure, Leave, ReturnNull, Resume, Tick, portVars
<1>4. SameSetup
  BY <1>3, SetupStays
<1>5. PortQueues' = PortQueues /\ Pkts' = Pkts
  BY <1>4 DEF SameSetup, Pkts
\* A step that moves no packet and measures no rate.
<1>6. ASSUME UNCHANGED <<fifo, drain>>, now' \in Nat, link' \in Nat \cup {Idle},
             event' \in {"none", "deque"}, event' = "deque" => link' = Idle,
             link' # Idle => now' <= link', now <= now', LinkFree <= LinkFree',
             LinkFree' \in Nat
      PROVE  PortInv'
  <2>1. PortType'
    BY <1>1, <1>3, <1>5, <1>6 DEF PortType
  <2>2. LinkInv'
    BY <1>6 DEF LinkInv
  <2>3. DrainInv'
    <3>1. SUFFICES ASSUME NEW c \in PortQueues PROVE RateInv(drain'[c], LinkFree')
      BY <1>5 DEF DrainInv, RateInv, Drains
    <3>2. RateInv(drain[c], LinkFree)
      BY <1>1
    <3>3. QED
      BY <1>2, <1>6, <3>2, RateInvLater
  <2>4. QED
    BY <2>1, <2>2, <2>3 DEF PortInv
<1>7. CASE Arrival
  <2>1. PICK c \in PortQueues, size \in PktSizes, ect \in BOOLEAN, mark \in BOOLEAN :
                 Insert(c, size, ect, mark)
    BY <1>7 DEF Arrival
  <2> DEFINE pkt == [size |-> size, ect |-> ect, ce |-> ect /\ mark, stamp |-> Stamp(ect)]
  <2>2. /\ fifo' = [fifo EXCEPT ![c] = Append(@, pkt)]
        /\ event' = IF link = Idle THEN "deque" ELSE "none"
        /\ UNCHANGED <<now, link, drain>>
    BY <2>1 DEF Insert
  <2>3. Stamp(ect) \in Nat
    BY <1>1 DEF Stamp
  <2>4. pkt \in Pkts
    BY <2>3 DEF Pkts
  <2> HIDE DEF pkt
  <2>5. Append(fifo[c], pkt) \in Seq(Pkts)
    BY <1>1, <2>4, AppendProperties
  <2>6. PortType'
    BY <1>1, <1>3, <1>5, <2>2, <2>5 DEF PortType
  <2>7. LinkInv' /\ LinkFree' = LinkFree
    BY <1>1, <2>2 DEF LinkInv, LinkFree
  <2>8. DrainInv'
    BY <1>1, <1>5, <2>2, <2>7 DEF DrainInv, RateInv, Drains
  <2>9. QED
    BY <1>2, <1>4, <1>1, <2>2, <2>6, <2>7, <2>8 DEF PortInv
<1>8. CASE Departure
  <2>1. PICK c \in PortQueues, mark \in BOOLEAN :
            event = "deque" /\ HighestWaiting(c) /\ Leave(c, mark)
    BY <1>8 DEF Departure
  <2> DEFINE pkt == Head(fifo[c])
             rest == ByteLength(c) - pkt.size
  <2>2. fifo[c] # <<>> /\ fifo[c] \in Seq(Pkts)
    BY <1>1, <2>1 DEF HighestWaiting
  <2>3. pkt \in Pkts /\ Tail(fifo[c]) \in Seq(Pkts)
    BY <2>2, HeadTailProperties
  <2>4. pkt.size \in Nat \ {0}
    BY <2>3, PktFacts
  <2>5. rest \in Int
    BY <2>4, LengthBytes DEF PortInv
  <2>6. /\ fifo' = [fifo EXCEPT ![c] = Tail(@)]
        /\ drain' = [drain EXCEPT ![c] = Measure(@, pkt.size, rest)]
        /\ link' = now + pkt.size /\ event' = "none" /\ now' = now
    BY <2>1 DEF Leave, TxTime
  <2> HIDE DEF rest
  <2>7. LinkFree = now /\ link' \in Nat /\ LinkFree' = now + pkt.size
    BY <1>1, <1>2, <2>1, <2>4, <2>6 DEF LinkFree
  <2>8. RateInv(Measure(drain[c], pkt.size, rest), now + pkt.size)
    <3>1. RateInv(drain[c], now)
      BY <1>1, <2>7
    <3>2. DqThresh \in Nat \ {0}
      BY DEF SetupFacts
    <3>3. QED
      BY <1>1, <2>4, <2>5, <3>1, <3>2, MeasureInv
  <2>9. PortType'
    <3>1. Measure(drain[c], pkt.size, rest) \in Drains
      BY <2>8 DEF RateInv
    <3>2. drain' \in [PortQueues -> Drains]
      BY <1>1, <2>6, <3>1
    <3>3. fifo' \in [PortQueues -> Seq(Pkts)]
      BY <1>1, <2>3, <2>6
    <3>4. QED
      BY <1>1, <1>3, <1>5, <2>6, <2>7, <3>2, <3>3 DEF PortType
  <2>10. LinkInv'
    BY <1>1, <2>4, <2>6 DEF LinkInv
  <2>11. DrainInv'
    <3>1. SUFFICES ASSUME NEW q \in PortQueues PROVE RateInv(drain'[q], LinkFree')
      BY <1>5 DEF DrainInv, RateInv, Drains
    <3>2. CASE q = c
      <4>1. drain'[q] = Measure(drain[c], pkt.size, rest)
        BY <1>1, <2>6, <3>2
      <4>2. QED
        BY <2>7, <2>8, <4>1
    <3>3. CASE q # c
      <4>1. drain'[q] = drain[q] /\ RateInv(drain[q], now)
        BY <1>1, <2>6, <2>7, <3>3
      <4>2. QED
        BY <1>1, <2>4, <2>7, <4>1, RateInvLater
    <3>4. QED
      BY <3>2, <3>3
  <2>12. QED
    BY <1>1, <1>4, <2>4, <2>6, <2>7, <2>9, <2>10, <2>11 DEF PortInv
<1>9. CASE (event = "none" /\ Drop) \/ (event = "deque" /\ ReturnNull)
  <2>1. /\ UNCHANGED <<fifo, drain, now, link>>
        /\ event' \in {"none", "deque"} /\ (event' = "deque" => link = Idle)
    BY <1>1, <1>9 DEF Drop, ReturnNull
  <2>2. LinkFree' = LinkFree
    BY <2>1 DEF LinkFree
  <2>3. QED
    BY <1>1, <1>2, <1>4, <1>6, <2>1, <2>2
<1>10. CASE Resume
  <2>1. UNCHANGED <<fifo, drain, now>> /\ link = now /\ link' = Idle /\ event' = "deque"
    BY <1>10 DEF Resume
  <2>2. LinkFree' = now /\ LinkFree = now
    BY <1>1, <2>1 DEF LinkFree
  <2>3. QED
    BY <1>1, <1>2, <1>4, <1>6, <2>1, <2>2
<1>11. CASE Tick
  <2>1. /\ UNCHANGED <<fifo, drain, link, event>> /\ now' = now + 1 /\ link # now
        /\ event = "none"
    BY <1>11 DEF Tick
  <2>2. link # Idle => now + 1 <= link
    BY <1>1, <2>1
  <2>3. LinkFree' = IF link = Idle THEN now + 1 ELSE link
    BY <2>1 DEF LinkFree
  <2>4. LinkFree <= LinkFree' /\ LinkFree' \in Nat
    BY <1>1, <2>3 DEF LinkFree
  <2>5. QED
    BY <1>1, <1>2, <1>4, <1>6, <2>1, <2>2, <2>4
<1>12. CASE UNCHANGED portVars
  <2>1. UNCHANGED <<fifo, drain, now, link, event>>
    BY <1>12 DEF portVars
  <2>2. LinkFree' = LinkFree
    BY <2>1 DEF LinkFree
  <2>3. QED
    BY <1>1, <1>2, <1>4, <1>6, <2>1, <2>2
<1>13. QED
  BY <1>7, <1>8, <1>9, <1>10, <1>11, <1>12 DEF PortStep

LEMMA ShareStepInv ==
    ASSUME SetupFacts, ShareType, ShareStep, SameSetup, now \in Nat, now' \in Nat, now <= now'
    PROVE  ShareType'
<1>1. /\ share \in [ShareQueues -> Nat \ {0}]
      /\ \A c \in ShareQueues : share[c] \in {InitShare[c]} \cup ShareChoices
      /\ last_idle_time \in Nat /\ last_idle_time <= now
  BY DEF ShareType
<1>2. ShareQueues' = ShareQueues /\ ShareChoices' = ShareChoices /\ InitShare' = InitShare
  BY DEF SameSetup
<1>3. /\ share' \in [ShareQueues -> Nat \ {0}]
      /\ \A c \in ShareQueues : share'[c] \in {InitShare[c]} \cup ShareChoices
  <2>1. CASE share' = share
    BY <1>1, <2>1
  <2>2. ASSUME NEW c \in ShareQueues, NEW value \in ShareChoices,
               share' = [share EXCEPT ![c] = value]
        PROVE  /\ share' \in [ShareQueues -> Nat \ {0}]
               /\ \A d \in ShareQueues : share'[d] \in {InitShare[d]} \cup ShareChoices
    <3>1. value \in Nat \ {0}
      BY DEF SetupFacts
    <3>2. QED
      BY <1>1, <2>2, <3>1
  <2>3. QED
    BY <2>1, <2>2 DEF ShareStep
<1>4. last_idle_time' \in Nat /\ last_idle_time' <= now'
  BY <1>1 DEF ShareStep
<1>5. QED
  BY <1>2, <1>3, <1>4 DEF ShareType
-----------------------------------------------------------------------------
(***************************************************************************)
(* The base: the types, the port, and for each class what finds the queue  *)
(* to serve: the active list, the current queue, the finish times.         *)
(***************************************************************************)
DwrrType ==
    class \in DwrrClasses =>
        /\ activeList \in Seq(ShareQueues)
        /\ deficitCounter \in [ShareQueues -> Int]
        /\ in_turn \in [ShareQueues -> BOOLEAN]
        /\ start_time \in [ShareQueues -> Int]
        /\ share_sum \in Int
WrrType ==
    class = "WRR" => current \in PortQueues /\ start_time \in [ShareQueues -> Int]
WfqType ==
    class \in WfqClasses =>
        /\ headFinishTime \in [ShareQueues -> Int] /\ currTime \in Int
        /\ share_sum \in Int

Base == PortInv /\ ShareType /\ DwrrType /\ WrrType /\ WfqType /\ ActiveListExact

\* The list of the DWRR queues stays exact.
ListInv ==
    /\ IsInjective(activeList)
    /\ Range(activeList) = Backlogged
    /\ \A c \in ShareQueues :
          /\ in_turn[c] => activeList # <<>> /\ c = Head(activeList)
          /\ deficitCounter[c] > 0 => c \in Backlogged

LEMMA AppendHead ==
    ASSUME NEW S, NEW s \in Seq(S), NEW e \in S
    PROVE  Head(Append(s, e)) = IF s = <<>> THEN e ELSE Head(s)
<1>1. Len(s) \in Nat /\ (s = <<>> <=> Len(s) = 0)
  BY LenProperties, EmptySeq
<1>2. /\ Append(s, e) \in Seq(S) /\ Append(s, e) # <<>>
      /\ \A i \in 1 .. Len(s) : Append(s, e)[i] = s[i]
      /\ Append(s, e)[Len(s) + 1] = e
  BY AppendProperties
<1>3. Head(Append(s, e)) = Append(s, e)[1] /\ (s # <<>> => Head(s) = s[1])
  BY <1>2
<1>4. QED
  BY <1>1, <1>2, <1>3

LEMMA DwrrStepInv ==
    ASSUME SetupFacts, PortInv, PortType', ShareType, SameSetup, class \in DwrrClasses,
           activeList \in Seq(ShareQueues), deficitCounter \in [ShareQueues -> Int],
           in_turn \in [ShareQueues -> BOOLEAN], start_time \in [ShareQueues -> Int],
           share_sum \in Int, ListInv, DwrrStepKind
    PROVE  /\ activeList' \in Seq(ShareQueues)
           /\ deficitCounter' \in [ShareQueues -> Int]
           /\ in_turn' \in [ShareQueues -> BOOLEAN]
           /\ start_time' \in [ShareQueues -> Int]
           /\ share_sum' \in Int
           /\ ListInv'
<1>1. /\ ShareQueues' = ShareQueues /\ ShareQueues \subseteq PortQueues
      /\ fifo \in [PortQueues -> Seq(Pkts)] /\ now \in Nat
      /\ PortType
  BY DEF SetupFacts, SameSetup, PortInv, PortType
<1>2. /\ IsInjective(activeList)
      /\ Range(activeList) = Backlogged
      /\ \A c \in ShareQueues : in_turn[c] => activeList # <<>> /\ c = Head(activeList)
      /\ \A c \in ShareQueues : deficitCounter[c] > 0 => c \in Backlogged
  BY DEF ListInv
<1>3. \A c : c \in Backlogged <=> c \in ShareQueues /\ fifo[c] # <<>>
  BY DEF Backlogged
<1>4. \A c : c \in Backlogged' <=> c \in ShareQueues /\ fifo'[c] # <<>>
  BY <1>1 DEF Backlogged
<1>5. share \in [ShareQueues -> Nat \ {0}]
  BY DEF ShareType
<1>6. CASE DwrrCalm
  <2>1. UNCHANGED <<activeList, deficitCounter, in_turn, start_time, share_sum>>
    BY <1>6 DEF DwrrCalm, dwrrVars
  <2>2. Backlogged' = Backlogged
    BY <1>3, <1>4, <1>6 DEF DwrrCalm, SameFifos
  <2>3. QED
    BY <1>1, <1>2, <2>1, <2>2 DEF ListInv
<1>7. ASSUME NEW c \in ShareQueues, DwrrArrival(c)
      PROVE  /\ activeList' \in Seq(ShareQueues)
             /\ deficitCounter' \in [ShareQueues -> Int]
             /\ in_turn' \in [ShareQueues -> BOOLEAN]
             /\ start_time' \in [ShareQueues -> Int]
             /\ share_sum' \in Int
             /\ ListInv'
  <2>1. PICK size \in PktSizes, ect \in BOOLEAN, mark \in BOOLEAN : Insert(c, size, ect, mark)
    BY <1>7 DEF DwrrArrival
  <2>2. fifo'[c] # <<>> /\ \A d \in ShareQueues \ {c} : fifo'[d] = fifo[d]
    BY <1>1, <2>1, InsertFacts
  <2>3. Backlogged' = Backlogged \cup {c}
    BY <1>3, <1>4, <2>2
  <2>4. CASE fifo[c] = <<>>
    <3>1. /\ activeList' = Append(activeList, c)
          /\ deficitCounter' = [deficitCounter EXCEPT ![c] = 0]
          /\ in_turn' = [in_turn EXCEPT ![c] = FALSE]
          /\ start_time' = [start_time EXCEPT ![c] = now]
          /\ share_sum' = share_sum + share[c]
      BY <1>7, <2>4 DEF DwrrArrival, DwrrActivate
    <3>2. c \notin Range(activeList)
      BY <1>2, <1>3, <2>4
    <3>3. /\ activeList' \in Seq(ShareQueues) /\ activeList' # <<>>
          /\ Range(activeList') = Range(activeList) \cup {c}
          /\ IsInjective(activeList')
      BY <1>2, <3>1, <3>2, AppendList
    <3>4. \A d \in ShareQueues : in_turn'[d] => d = Head(activeList')
      BY <1>2, <3>1, AppendHead
    <3>5. \A d \in ShareQueues : deficitCounter'[d] > 0 => d \in Backlogged'
      BY <1>2, <2>3, <3>1
    <3>6. /\ deficitCounter' \in [ShareQueues -> Int] /\ in_turn' \in [ShareQueues -> BOOLEAN]
          /\ start_time' \in [ShareQueues -> Int] /\ share_sum' \in Int
      BY <1>1, <1>5, <3>1
    <3>7. ListInv'
      BY <1>1, <1>2, <2>3, <3>3, <3>4, <3>5 DEF ListInv
    <3>8. QED
      BY <3>3, <3>6, <3>7
  <2>5. CASE fifo[c] # <<>>
    <3>1. UNCHANGED <<activeList, deficitCounter, in_turn, start_time, share_sum>>
      BY <1>7, <2>5 DEF DwrrArrival, dwrrVars
    <3>2. Backlogged' = Backlogged
      BY <1>3, <2>3, <2>5
    <3>3. QED
      BY <1>1, <1>2, <3>1, <3>2 DEF ListInv
  <2>6. QED
    BY <2>4, <2>5
<1> DEFINE h == Head(activeList)
<1>8. ASSUME DwrrTurn
      PROVE  /\ activeList # <<>> /\ h \in ShareQueues /\ fifo[h] # <<>>
             /\ Deficit(h) \in Int
             /\ \A d \in ShareQueues : d # h => ~in_turn[d]
             /\ Tail(activeList) \in Seq(ShareQueues) /\ IsInjective(Tail(activeList))
             /\ Range(Tail(activeList)) = Range(activeList) \ {h}
  <2>1. activeList # <<>> /\ h \in ShareQueues /\ fifo[h] # <<>>
    BY <1>1, <1>2, <1>8, DwrrHead
  <2>2. Deficit(h) \in Int
    BY <1>5, <2>1 DEF Deficit
  <2>3. \A d \in ShareQueues : d # h => ~in_turn[d]
    BY <1>2
  <2>4. QED
    BY <1>2, <2>1, <2>2, <2>3, TailList
<1>9. CASE Rotate
  <2>1. /\ DwrrTurn
        /\ deficitCounter' = [deficitCounter EXCEPT ![h] = Deficit(h)]
        /\ in_turn' = [in_turn EXCEPT ![h] = FALSE]
        /\ start_time' = [start_time EXCEPT ![h] = now]
        /\ activeList' = Append(Tail(activeList), h)
        /\ fifo' = fifo /\ share_sum' = share_sum
    BY <1>9 DEF Rotate, portVars, sumVars
  <2>2. h \notin Range(Tail(activeList)) /\ h \in Range(activeList)
    BY <1>2, <1>3, <1>8, <2>1
  <2> DEFINE t == Tail(activeList)
  <2>3. /\ activeList' \in Seq(ShareQueues)
        /\ Range(activeList') = Range(activeList)
        /\ IsInjective(activeList')
    <3>1. /\ t \in Seq(ShareQueues) /\ IsInjective(t) /\ h \in ShareQueues
          /\ Range(t) = Range(activeList) \ {h} /\ h \notin Range(t)
      BY <1>8, <2>1, <2>2
    <3>2. activeList' = Append(t, h)
      BY <2>1
    <3> HIDE DEF t, h
    <3>3. /\ Append(t, h) \in Seq(ShareQueues)
          /\ Range(Append(t, h)) = Range(t) \cup {h} /\ IsInjective(Append(t, h))
      BY <3>1, AppendList
    <3>4. QED
      BY <2>2, <3>1, <3>2, <3>3 DEF h
  <2>4. Backlogged' = Backlogged
    BY <1>3, <1>4, <2>1
  <2>5. \A d \in ShareQueues : ~in_turn'[d]
    BY <1>8, <2>1
  <2>6. \A d \in ShareQueues : deficitCounter'[d] > 0 => d \in Backlogged'
    BY <1>2, <1>3, <1>8, <2>1, <2>4
  <2>7. QED
    BY <1>1, <1>2, <1>8, <2>1, <2>3, <2>4, <2>5, <2>6 DEF ListInv
<1>10. CASE DwrrServe
  <2> DEFINE size == Head(fifo[h]).size
  <2>1. /\ DwrrTurn /\ size <= Deficit(h)
        /\ start_time' = start_time
        /\ fifo' = [fifo EXCEPT ![h] = Tail(@)]
    BY <1>10 DEF DwrrServe, Leave
  <2>2. size \in Int /\ Len(fifo[h]) \in Nat
        /\ Tail(fifo[h]) \in Seq(Pkts) /\ Len(Tail(fifo[h])) = Len(fifo[h]) - 1
    <3>1. fifo[h] \in Seq(Pkts) /\ fifo[h] # <<>>
      BY <1>1, <1>8, <2>1
    <3>2. Head(fifo[h]) \in Pkts /\ Tail(fifo[h]) \in Seq(Pkts)
          /\ Len(Tail(fifo[h])) = Len(fifo[h]) - 1
      BY <3>1, HeadTailProperties
    <3>3. QED
      BY <3>1, <3>2, PktFacts, LenProperties
  <2>3. fifo'[h] = Tail(fifo[h]) /\ \A d \in ShareQueues \ {h} : fifo'[d] = fifo[d]
    BY <1>1, <1>8, <2>1
  <2>4. h \in ShareQueues /\ h \in Range(activeList)
    BY <1>2, <1>3, <1>8, <2>1
  <2>5. CASE Len(fifo[h]) = 1
    <3>1. /\ activeList' = Tail(activeList)
          /\ deficitCounter' = [deficitCounter EXCEPT ![h] = 0]
          /\ in_turn' = [in_turn EXCEPT ![h] = FALSE]
          /\ share_sum' = share_sum - share[h]
      BY <1>10, <2>5 DEF DwrrServe, DwrrDeactivate, UpdateEstimate
    <3>2. fifo'[h] = <<>>
      <4>1. Len(Tail(fifo[h])) = 0
        BY <2>2, <2>5
      <4>2. QED
        BY <2>2, <2>3, <4>1, EmptySeq
    <3>3. Backlogged' = Backlogged \ {h}
      BY <1>3, <1>4, <2>3, <3>2
    <3>4. \A d \in ShareQueues : ~in_turn'[d]
      BY <1>8, <2>1, <3>1
    <3>5. \A d \in ShareQueues : deficitCounter'[d] > 0 => d \in Backlogged'
      BY <1>2, <2>4, <3>1, <3>3
    <3>6. /\ activeList' \in Seq(ShareQueues)
          /\ deficitCounter' \in [ShareQueues -> Int] /\ in_turn' \in [ShareQueues -> BOOLEAN]
          /\ start_time' \in [ShareQueues -> Int] /\ share_sum' \in Int
      BY <1>5, <1>8, <2>1, <2>4, <3>1
    <3>7. Range(activeList') = Backlogged' /\ IsInjective(activeList')
      BY <1>2, <1>8, <2>1, <3>1, <3>3
    <3>8. ListInv'
      BY <1>1, <3>4, <3>5, <3>7 DEF ListInv
    <3>9. QED
      BY <3>6, <3>8
  <2>6. CASE Len(fifo[h]) # 1
    <3>1. /\ deficitCounter' = [deficitCounter EXCEPT ![h] = Deficit(h) - size]
          /\ in_turn' = [in_turn EXCEPT ![h] = TRUE]
          /\ activeList' = activeList
          /\ share_sum' = share_sum
      BY <1>10, <2>6 DEF DwrrServe, UpdateEstimate
    <3>2. fifo'[h] # <<>>
      <4>1. Len(fifo[h]) # 0
        BY <1>1, <1>8, <2>1, EmptySeq
      <4>2. Len(fifo'[h]) # 0
        BY <2>2, <2>3, <2>6, <4>1
      <4>3. QED
        BY <2>2, <2>3, <4>2, EmptySeq
    <3>3. Backlogged' = Backlogged
      BY <1>3, <1>4, <1>8, <2>1, <2>3, <3>2
    <3>4. \A d \in ShareQueues : in_turn'[d] => d = h
      BY <1>8, <2>1, <3>1
    <3>5. \A d \in ShareQueues : deficitCounter'[d] > 0 => d \in Backlogged'
      BY <1>2, <2>4, <3>1, <3>3
    <3>6. deficitCounter' \in [ShareQueues -> Int] /\ in_turn' \in [ShareQueues -> BOOLEAN]
      BY <1>8, <2>1, <2>2, <3>1
    <3>7. QED
      BY <1>1, <1>2, <1>8, <2>1, <3>1, <3>3, <3>4, <3>5, <3>6 DEF ListInv
  <2>7. QED
    BY <2>5, <2>6
<1>11. QED
  BY <1>6, <1>7, <1>9, <1>10 DEF DwrrStepKind

LEMMA VirtualTimeType ==
    ASSUME SetupFacts, ShareType, NEW c \in ShareQueues, NEW size \in Nat
    PROVE  VirtualTime(c, size) \in Nat
<1>1. share[c] \in Nat \ {0}
  BY DEF ShareType
<1>2. FinishUnit \in Nat \ {0}
  BY FinishUnitAssumption
<1>3. size * FinishUnit \in Nat
  BY <1>2
<1> DEFINE n == size * FinishUnit
           d == share[c]
<1>4. n \div d \in Nat
  <2> HIDE DEF n, d
  <2>1. n \in Nat /\ d \in Nat \ {0}
    BY <1>1, <1>3 DEF n, d
  <2>2. QED
    BY <2>1
<1>5. QED
  BY <1>4 DEF VirtualTime

LEMMA WfqStepInv ==
    ASSUME SetupFacts, PortInv, ShareType, SameSetup,
           headFinishTime \in [ShareQueues -> Int], currTime \in Int, share_sum \in Int,
           WfqStepKind
    PROVE  /\ headFinishTime' \in [ShareQueues -> Int] /\ currTime' \in Int
           /\ share_sum' \in Int
<1>1. \A c \in ShareQueues : share[c] \in Int
  BY DEF ShareType
<1>2. ShareQueues \subseteq PortQueues /\ PortType
  BY DEF SetupFacts, PortInv
<1>3. CASE WfqCalm
  BY <1>3 DEF WfqCalm, wfqVars
<1>4. ASSUME NEW c \in ShareQueues, WfqArrival(c)
      PROVE  /\ headFinishTime' \in [ShareQueues -> Int] /\ currTime' \in Int
             /\ share_sum' \in Int
  <2>1. PICK size \in PktSizes :
            IF fifo[c] = <<>> THEN WfqActivate(c, size) ELSE UNCHANGED <<wfqVars, share_sum>>
    BY <1>4 DEF WfqArrival
  <2>2. size \in Nat
    BY DEF SetupFacts
  <2>3. VirtualTime(c, size) \in Nat
    BY <2>2, VirtualTimeType
  <2>4. QED
    BY <1>1, <2>1, <2>3 DEF WfqActivate, wfqVars
<1>5. CASE WfqServe
  <2> DEFINE c == Earliest
  <2>1. Advance(c) /\ LengthOf(ShareQueues) > 0
    BY <1>5 DEF WfqServe
  <2>2. c \in ShareQueues /\ fifo[c] # <<>>
    BY <1>2, <2>1, EarliestFacts
  <2> HIDE DEF c
  <2>3. CASE Len(fifo[c]) > 1
    <3>1. fifo[c] \in Seq(Pkts)
      BY <1>2, <2>2 DEF PortType
    <3>2. 2 \in 1 .. Len(fifo[c])
      BY <2>3, <3>1, LenProperties
    <3>3. fifo[c][2] \in Pkts
      BY <3>1, <3>2, ElementOfSeq
    <3>4. fifo[c][2].size \in Nat
      BY <3>3, PktFacts
    <3>5. VirtualTime(c, fifo[c][2].size) \in Nat
      BY <2>2, <3>4, VirtualTimeType
    <3>6. QED
      BY <2>1, <2>2, <2>3, <3>5 DEF Advance, UpdateEstimate
  <2>4. CASE ~ (Len(fifo[c]) > 1)
    BY <1>1, <2>1, <2>2, <2>4 DEF Advance, UpdateEstimate, NoFinish
  <2>5. QED
    BY <2>3, <2>4
<1>6. QED
  BY <1>3, <1>4, <1>5 DEF WfqStepKind

LEMMA WrrStepInv ==
    ASSUME SetupFacts, PortInv, SameSetup, class = "WRR", current \in PortQueues,
           start_time \in [ShareQueues -> Int], WrrStepKind
    PROVE  current' \in PortQueues /\ start_time' \in [ShareQueues -> Int]
<1>1. ShareQueues = PortQueues /\ now \in Int /\ queue_num_ \in Nat \ {0}
      /\ PortQueues = 0 .. queue_num_ - 1
  BY DEF SetupFacts, PortInv, PortType
<1>2. ASSUME NEW start \in Int, NextQueue(start)
      PROVE  current' \in PortQueues /\ start_time' \in [ShareQueues -> Int]
  <2>1. (current + 1) % queue_num_ \in 0 .. queue_num_ - 1
    BY <1>1
  <2>2. QED
    BY <1>1, <1>2, <2>1 DEF NextQueue
<1>3. CASE WrrCalm
  BY <1>3 DEF WrrCalm
<1>4. CASE WrrArrival
  BY <1>1, <1>4 DEF WrrArrival, WrrAfterIdle
<1>5. CASE PassEmpty \/ PassSpent
  BY <1>1, <1>2, <1>5 DEF PassEmpty, PassSpent
<1>6. CASE WrrServe
  <2> DEFINE size == Head(fifo[current]).size
  <2>1. fifo[current] \in Seq(Pkts) /\ fifo[current] # <<>>
    BY <1>6 DEF WrrServe, PortInv, PortType
  <2>2. Head(fifo[current]) \in Pkts
    BY <2>1, HeadTailProperties
  <2>3. now + TxTime(size) \in Int
    BY <1>1, <2>2, PktFacts DEF TxTime
  <2>4. NextQueue(now + TxTime(size)) \/ UNCHANGED <<roundVars, current>>
    BY <1>6 DEF WrrServe
  <2>5. QED
    BY <1>2, <2>3, <2>4 DEF roundVars
<1>7. QED
  BY <1>3, <1>4, <1>5, <1>6 DEF WrrStepKind
-----------------------------------------------------------------------------
LEMMA NextFacts ==
    ASSUME Base, [Next]_vars
    PROVE  /\ SetupFacts /\ PortStep /\ ShareStep
           /\ class \in DwrrClasses => DwrrStepKind
           /\ class \in WfqClasses => WfqStepKind
           /\ class = "WRR" => WrrStepKind
<1> USE DEF DwrrClasses, WfqClasses
<1>1. SetupFacts /\ PortType
  BY SetupIsOK DEF Base, PortInv, PortType
<1>2. CASE PriorityStep
  BY <1>1, <1>2, PriorityStepFacts DEF PriorityStep
<1>3. CASE WrrStep
  BY <1>1, <1>3, WrrStepFacts DEF WrrStep, Base, WrrType
<1>4. CASE DwrrStep \/ PrioDwrrStep
  <2>1. class \in DwrrClasses
    BY <1>4 DEF DwrrStep, PrioDwrrStep
  <2>2. Range(activeList) = Backlogged /\ activeList \in Seq(ShareQueues)
    BY <2>1 DEF Base, ActiveListExact, DwrrType
  <2>3. QED
    BY <1>1, <1>4, <2>1, <2>2, DwrrStepFacts
<1>5. CASE WfqStep \/ PrioWfqStep
  <2>1. class \in WfqClasses
    BY <1>5 DEF WfqStep, PrioWfqStep
  <2>2. headFinishTime \in [ShareQueues -> Int]
    BY <2>1 DEF Base, WfqType
  <2>3. QED
    BY <1>1, <1>5, <2>1, <2>2, WfqStepFacts
<1>6. CASE UNCHANGED vars
  BY <1>1, <1>6 DEF vars, PortStep, ShareStep, DwrrStepKind, DwrrCalm, WfqStepKind, WfqCalm,
                    WrrStepKind, WrrCalm, SameFifos, SameShare, portVars, shareVars, roundVars,
                    sumVars, wrrVars
<1>7. QED
  BY <1>2, <1>3, <1>4, <1>5, <1>6 DEF Next

LEMMA BaseInit == Init => Base
<1> SUFFICES ASSUME Init PROVE Base
  OBVIOUS
<1> USE DEF Idle
<1>1. /\ setup \in DOMAIN Setups
      /\ now = 0 /\ link = Idle /\ event = "none"
      /\ fifo = [c \in PortQueues |-> <<>>]
      /\ drain = [c \in PortQueues |->
                     [tstamp |-> 0, count |-> DQ_COUNT_INVALID, rate |-> NoRate]]
  BY DEF Init, PortInit
<1>2. SetupFacts
  BY <1>1, SetupIsOK
<1>3. PortType
  BY <1>1 DEF PortType, Drains, NoRate
<1>4. PortInv
  <2>1. RateUnit \in Nat
    BY Ns2PortAssumption
  <2>2. DrainInv
    BY <1>1, <2>1 DEF DrainInv, RateInv, Drains, NoRate
  <2>3. QED
    BY <1>1, <1>3, <2>2 DEF PortInv, LinkInv
<1>5. ShareType
  BY <1>1, <1>2 DEF Init, SharesInit, ShareType, SetupFacts
<1>6. DwrrType
  BY DEF Init, DwrrInit, RoundInit, SumInit, DwrrType
<1>7. WrrType
  BY <1>2 DEF Init, WrrInit, RoundInit, WrrType, SetupFacts
<1>8. WfqType
  BY DEF Init, WfqInit, SumInit, WfqType
<1>9. ActiveListExact
  <2>1. \A c \in ShareQueues : fifo[c] = <<>>
    BY <1>1, <1>2 DEF SetupFacts
  <2>2. Backlogged = {}
    BY <2>1 DEF Backlogged
  <2>3. activeList = <<>> /\ deficitCounter = [c \in ShareQueues |-> 0]
        /\ in_turn = [c \in ShareQueues |-> FALSE]
    BY DEF Init, DwrrInit
  <2>4. Range(<<>>) = {} /\ IsInjective(<<>>)
    BY DEF Range, IsInjective
  <2>5. QED
    BY <2>2, <2>3, <2>4 DEF ActiveListExact
<1>10. QED
  BY <1>4, <1>5, <1>6, <1>7, <1>8, <1>9 DEF Base

LEMMA BaseStep ==
    ASSUME Base, [Next]_vars
    PROVE  Base' /\ SameSetup
<1>1. /\ SetupFacts /\ PortStep /\ ShareStep
      /\ class \in DwrrClasses => DwrrStepKind
      /\ class \in WfqClasses => WfqStepKind
      /\ class = "WRR" => WrrStepKind
  BY NextFacts
<1>2. PortInv /\ ShareType
  BY DEF Base
<1>3. PortInv' /\ SameSetup /\ now <= now' /\ PortType /\ PortType'
  BY <1>1, <1>2, PortStepInv DEF PortInv
<1>4. ShareType'
  BY <1>1, <1>2, <1>3, ShareStepInv DEF PortType
<1>5. ShareQueues' = ShareQueues /\ PortQueues' = PortQueues /\ class' = class
  BY <1>3 DEF SameSetup
<1>6. DwrrType' /\ ActiveListExact'
  <2>1. CASE class \notin DwrrClasses
    BY <1>5, <2>1 DEF DwrrType, ActiveListExact, DwrrClasses
  <2>2. CASE class \in DwrrClasses
    <3>1. /\ activeList \in Seq(ShareQueues) /\ deficitCounter \in [ShareQueues -> Int]
          /\ in_turn \in [ShareQueues -> BOOLEAN] /\ start_time \in [ShareQueues -> Int]
          /\ share_sum \in Int
      BY <2>2 DEF Base, DwrrType
    <3>2. ListInv
      BY <2>2 DEF Base, ActiveListExact, ListInv, DwrrClasses
    <3>3. /\ activeList' \in Seq(ShareQueues) /\ deficitCounter' \in [ShareQueues -> Int]
          /\ in_turn' \in [ShareQueues -> BOOLEAN] /\ start_time' \in [ShareQueues -> Int]
          /\ share_sum' \in Int /\ ListInv'
      BY <1>1, <1>2, <1>3, <2>2, <3>1, <3>2, DwrrStepInv
    <3>4. DwrrType'
      BY <1>5, <3>3 DEF DwrrType
    <3>5. ActiveListExact'
      BY <3>3 DEF ActiveListExact, ListInv
    <3>6. QED
      BY <3>4, <3>5
  <2>3. QED
    BY <2>1, <2>2
<1>7. WrrType'
  BY <1>1, <1>2, <1>3, <1>5, WrrStepInv DEF Base, WrrType
<1>8. WfqType'
  BY <1>1, <1>2, <1>3, <1>5, WfqStepInv DEF Base, WfqType
<1>9. QED
  BY <1>3, <1>4, <1>6, <1>7, <1>8 DEF Base

\* The types of the ns-2 queues, and what every other theorem about them needs: a deque
\* is due at an idle link only, the rates and the active lists are exact.
THEOREM BaseInvariant == Spec => []Base
<1>1. Init => Base
  BY BaseInit
<1>2. Base /\ [Next]_vars => Base'
  BY BaseStep
<1>3. QED
  BY <1>1, <1>2, PTL DEF Spec

\* A DWRR or PRIO_DWRR queue is in the active list if and only if it has packets, once,
\* and what a turn leaves behind belongs to a queue that has packets: with any number of
\* queues, packet sizes, quanta and changes of them.
THEOREM ListsExact == Spec => []ActiveListExact
<1>1. Base => ActiveListExact
  BY DEF Base
<1>2. QED
  BY <1>1, BaseInvariant, PTL

\* No queue of any class appears to drain faster than the link sends.
THEOREM DrainRatesBounded == Spec => []DrainRateWithinCapacity
<1>1. Base => DrainRateWithinCapacity
  BY DEF Base, PortInv, DrainInv, RateInv, DrainRateWithinCapacity
<1>2. QED
  BY <1>1, BaseInvariant, PTL
-----------------------------------------------------------------------------
(***************************************************************************)
(* The sum of the shares.                                                  *)
(***************************************************************************)
LEMMA SumOverIsSumN == ASSUME NEW S, NEW f PROVE SumOver(S, f) = SumN(queue_num_, S, f)
BY DEF SumOver, SumN

LEMMA SumJoin ==
    ASSUME NEW n \in Nat, NEW S \in SUBSET (0 .. n - 1), NEW c \in 0 .. n - 1, c \notin S,
           NEW f, \A q \in S \cup {c} : f[q] \in Int
    PROVE  SumN(n, S \cup {c}, f) = SumN(n, S, f) + f[c]
<1> DEFINE T == S \cup {c}
           F == [i \in 1 .. n |-> IF i - 1 \in S THEN f[i - 1] ELSE 0]
           H == [i \in 1 .. n |-> IF i - 1 \in T THEN f[i - 1] ELSE 0]
           j == c + 1
           d == f[c]
<1>1. F \in [1 .. n -> Int] /\ H \in [1 .. n -> Int] /\ d \in Int
  OBVIOUS
<1>2. j \in 1 .. n /\ H[j] = F[j] + d
  OBVIOUS
<1>3. \A k \in 1 .. n : k # j => H[k] = F[k]
  <2>1. SUFFICES ASSUME NEW k \in 1 .. n, k # c + 1 PROVE H[k] = F[k]
    OBVIOUS
  <2>2. k - 1 \in 0 .. n - 1 /\ k - 1 # c
    BY <2>1
  <2>3. QED
    BY <2>2
<1>4. SumN(n, S, f) = SumTo(F, n) /\ SumN(n, T, f) = SumTo(H, n)
  BY DEF SumN
<1> HIDE DEF F, H, j, d
<1>5. SumTo(H, n) = SumTo(F, n) + d
  BY <1>1, <1>2, <1>3, SumChange
<1>6. QED
  BY <1>4, <1>5 DEF d

LEMMA SumLeave ==
    ASSUME NEW n \in Nat, NEW S \in SUBSET (0 .. n - 1), NEW c \in S,
           NEW f, \A q \in S : f[q] \in Nat
    PROVE  SumN(n, S \ {c}, f) = SumN(n, S, f) - f[c]
<1> DEFINE T == S \ {c}
<1>1. /\ T \in SUBSET (0 .. n - 1) /\ c \in 0 .. n - 1 /\ c \notin T /\ T \cup {c} = S
      /\ f[c] \in Int
  OBVIOUS
<1>2. \A q \in T \cup {c} : f[q] \in Int
  OBVIOUS
<1>3. SumN(n, T, f) \in Int
  <2>1. \A q \in T : f[q] \in Nat
    OBVIOUS
  <2> HIDE DEF T
  <2>2. QED
    BY <1>1, <2>1, SumNType
<1> HIDE DEF T
<1>4. SumN(n, T \cup {c}, f) = SumN(n, T, f) + f[c]
  BY <1>1, <1>2, SumJoin
<1>5. QED
  BY <1>1, <1>3, <1>4 DEF T

\* How the set of queues with packets changes.
LEMMA BacklogSame == ASSUME SameSetup, SameFifos PROVE Backlogged' = Backlogged
BY DEF SameSetup, SameFifos, Backlogged

LEMMA BacklogArrival ==
    ASSUME SetupFacts, PortType, SameSetup, NEW c \in ShareQueues, NEW size \in PktSizes,
           NEW ect \in BOOLEAN, NEW mark \in BOOLEAN, Insert(c, size, ect, mark)
    PROVE  /\ Backlogged' = Backlogged \cup {c}
           /\ fifo[c] = <<>> <=> c \notin Backlogged
<1>1. c \in PortQueues /\ ShareQueues \subseteq PortQueues
  BY DEF SetupFacts
<1>2. fifo'[c] # <<>> /\ \A d \in PortQueues \ {c} : fifo'[d] = fifo[d]
  BY <1>1, InsertFacts
<1>3. QED
  BY <1>1, <1>2 DEF Backlogged, SameSetup

LEMMA BacklogLeave ==
    ASSUME SetupFacts, PortType, SameSetup, NEW c \in ShareQueues, NEW mark, Leave(c, mark),
           fifo[c] # <<>>
    PROVE  /\ Backlogged' = IF Len(fifo[c]) = 1 THEN Backlogged \ {c} ELSE Backlogged
           /\ c \in Backlogged
<1>1. c \in PortQueues /\ ShareQueues \subseteq PortQueues
  BY DEF SetupFacts
<1>2. /\ fifo'[c] = <<>> <=> Len(fifo[c]) = 1
      /\ \A d \in PortQueues \ {c} : fifo'[d] = fifo[d]
  BY <1>1, LeaveFacts
<1>3. QED
  BY <1>1, <1>2 DEF Backlogged, SameSetup

ShareSumInv ==
    class \in DwrrClasses \cup WfqClasses /\ ShareChoices = {} =>
        share_sum = SumN(queue_num_, Backlogged, share)

\* What the queue that a deque serves and the queue that a packet joins do to the sum.
LEMMA ShareSumChange ==
    ASSUME SetupFacts, ShareType, SameSetup, share' = share,
           share_sum = SumN(queue_num_, Backlogged, share)
    PROVE  /\ Backlogged' = Backlogged /\ share_sum' = share_sum
                  => share_sum' = SumN(queue_num_, Backlogged, share)'
           /\ \A c \in ShareQueues \ Backlogged :
                  Backlogged' = Backlogged \cup {c} /\ share_sum' = share_sum + share[c]
                      => share_sum' = SumN(queue_num_, Backlogged, share)'
           /\ \A c \in Backlogged :
                  Backlogged' = Backlogged \ {c} /\ share_sum' = share_sum - share[c]
                      => share_sum' = SumN(queue_num_, Backlogged, share)'
<1>1. /\ queue_num_ \in Nat /\ queue_num_' = queue_num_
      /\ Backlogged \in SUBSET (0 .. queue_num_ - 1)
      /\ ShareQueues \subseteq 0 .. queue_num_ - 1
      /\ \A c \in ShareQueues : share[c] \in Nat /\ share[c] \in Int
      /\ Backlogged \subseteq ShareQueues
  BY DEF SetupFacts, SameSetup, ShareType, Backlogged
<1>2. SumN(queue_num_, Backlogged, share)' = SumN(queue_num_, Backlogged', share)
  BY <1>1
<1>3. \A c \in ShareQueues \ Backlogged :
          SumN(queue_num_, Backlogged \cup {c}, share)
              = SumN(queue_num_, Backlogged, share) + share[c]
  <2>1. TAKE c \in ShareQueues \ Backlogged
  <2>2. c \in 0 .. queue_num_ - 1 /\ \A q \in Backlogged \cup {c} : share[q] \in Int
    BY <1>1
  <2>3. QED
    BY <1>1, <2>2, SumJoin
<1>4. \A c \in Backlogged :
          SumN(queue_num_, Backlogged \ {c}, share)
              = SumN(queue_num_, Backlogged, share) - share[c]
  BY <1>1, SumLeave
<1>5. QED
  BY <1>2, <1>3, <1>4

LEMMA ShareSumStep ==
    ASSUME Base, ShareSumInv, [Next]_vars
    PROVE  ShareSumInv'
<1>1. /\ SetupFacts /\ ShareType /\ PortType /\ SameSetup
      /\ class \in DwrrClasses => DwrrStepKind
      /\ class \in WfqClasses => WfqStepKind
  BY NextFacts, BaseStep DEF Base, PortInv
<1>2. SUFFICES ASSUME class \in DwrrClasses \cup WfqClasses, ShareChoices = {}
               PROVE  share_sum' = SumN(queue_num_, Backlogged, share)'
  BY <1>1 DEF ShareSumInv, SameSetup
<1>3. share_sum = SumN(queue_num_, Backlogged, share)
  BY <1>2 DEF ShareSumInv
<1>4. CASE DwrrCalm \/ WfqCalm
  <2>1. Backlogged' = Backlogged /\ share_sum' = share_sum /\ share' = share
    BY <1>1, <1>2, <1>4, BacklogSame DEF DwrrCalm, WfqCalm, SameShare
  <2>2. QED
    BY <1>1, <1>3, <2>1, ShareSumChange
<1>5. ASSUME NEW c \in ShareQueues, DwrrArrival(c) \/ WfqArrival(c)
      PROVE  share_sum' = SumN(queue_num_, Backlogged, share)'
  <2>1. share' = share
    BY <1>5 DEF DwrrArrival, WfqArrival
  <2>2. /\ Backlogged' = Backlogged \cup {c}
        /\ fifo[c] = <<>> <=> c \notin Backlogged
    BY <1>1, <1>5, BacklogArrival DEF DwrrArrival, WfqArrival
  <2>3. CASE fifo[c] = <<>>
    <3>1. share_sum' = share_sum + share[c]
      BY <1>5, <2>3 DEF DwrrArrival, WfqArrival, DwrrActivate, WfqActivate
    <3>2. QED
      BY <1>1, <1>3, <2>1, <2>2, <2>3, <3>1, ShareSumChange
  <2>4. CASE fifo[c] # <<>>
    <3>1. share_sum' = share_sum
      BY <1>5, <2>4 DEF DwrrArrival, WfqArrival
    <3>2. Backlogged' = Backlogged
      BY <2>2, <2>4
    <3>3. QED
      BY <1>1, <1>3, <2>1, <3>1, <3>2, ShareSumChange
  <2>5. QED
    BY <2>3, <2>4
<1>6. CASE Rotate
  <2>1. fifo' = fifo /\ share' = share /\ share_sum' = share_sum
    BY <1>6 DEF Rotate, portVars, shareVars, sumVars
  <2>2. Backlogged' = Backlogged
    BY <1>1, <2>1, BacklogSame DEF SameFifos
  <2>3. QED
    BY <1>1, <1>3, <2>1, <2>2, ShareSumChange
\* The queue that is served.
<1>7. ASSUME NEW c \in ShareQueues, NEW mark, Leave(c, mark), fifo[c] # <<>>, share' = share,
             share_sum' = IF Len(fifo[c]) = 1 THEN share_sum - share[c] ELSE share_sum
      PROVE  share_sum' = SumN(queue_num_, Backlogged, share)'
  <2>1. /\ Backlogged' = IF Len(fifo[c]) = 1 THEN Backlogged \ {c} ELSE Backlogged
        /\ c \in Backlogged
    BY <1>1, <1>7, BacklogLeave
  <2>2. QED
    BY <1>1, <1>3, <1>7, <2>1, ShareSumChange
<1>8. CASE class \in DwrrClasses /\ DwrrServe
  <2> DEFINE h == Head(activeList)
             mark == DequeMark(h, Head(fifo[h]).size)
  <2>1. DwrrTurn /\ Leave(h, mark) /\ share' = share
    BY <1>8 DEF DwrrServe
  <2>2. share_sum' = IF Len(fifo[h]) = 1 THEN share_sum - share[h] ELSE share_sum
    BY <1>8 DEF DwrrServe, DwrrDeactivate, UpdateEstimate
  <2> HIDE DEF mark
  <2>3. Range(activeList) = Backlogged /\ activeList \in Seq(ShareQueues)
    BY <1>8 DEF Base, ActiveListExact, DwrrType, DwrrClasses
  <2>4. h \in ShareQueues /\ fifo[h] # <<>>
    BY <1>1, <2>1, <2>3, DwrrHead
  <2> HIDE DEF h
  <2>5. QED
    BY <1>7, <2>1, <2>2, <2>4
<1>9. CASE class \in WfqClasses /\ WfqServe
  <2> DEFINE c == Earliest
  <2>1. LengthOf(ShareQueues) > 0 /\ Leave(c, FALSE) /\ Advance(c) /\ share' = share
    BY <1>9 DEF WfqServe
  <2>2. c \in ShareQueues /\ fifo[c] # <<>>
    BY <1>1, <1>9, <2>1, EarliestFacts DEF Base, WfqType
  <2> HIDE DEF c
  <2>3. c \in PortQueues
    BY <1>1, <2>2 DEF SetupFacts
  <2> DEFINE n == Len(fifo[c])
  <2>4. n \in Nat \ {0}
    BY <1>1, <2>1, <2>2, <2>3, LeaveFacts
  <2>5. share_sum' = IF n = 1 THEN share_sum - share[c] ELSE share_sum
    <3>1. CASE n > 1
      <4>1. UpdateEstimate(share_sum)
        BY <2>1, <3>1 DEF Advance
      <4> HIDE DEF n
      <4>2. n # 1
        BY <2>4, <3>1
      <4>3. QED
        BY <4>1, <4>2 DEF UpdateEstimate
    <3>2. CASE n = 1
      <4>1. UpdateEstimate(share_sum - share[c])
        BY <2>1, <3>2 DEF Advance
      <4>2. QED
        BY <3>2, <4>1 DEF UpdateEstimate
    <3> HIDE DEF n
    <3>3. n > 1 \/ n = 1
      BY <2>4
    <3>4. QED
      BY <3>1, <3>2, <3>3
  <2>6. QED
    BY <1>7, <2>1, <2>2, <2>5
<1>10. QED
  BY <1>1, <1>2, <1>4, <1>5, <1>6, <1>8, <1>9 DEF DwrrStepKind, WfqStepKind

LEMMA ShareSumInit == Init => ShareSumInv
<1>1. SUFFICES ASSUME Init PROVE share_sum = SumN(queue_num_, Backlogged, share)
  BY DEF ShareSumInv
<1>2. SetupFacts /\ PortType
  BY <1>1, BaseInit, SetupIsOK DEF Base, PortInv, PortType
<1>3. Backlogged = {}
  BY <1>1, <1>2 DEF Init, PortInit, Backlogged, SetupFacts
<1>4. queue_num_ \in Nat /\ {} \in SUBSET (0 .. queue_num_ - 1)
  BY <1>2 DEF SetupFacts
<1>5. SumN(queue_num_, {}, share) = 0
  BY <1>4, SumNType
<1>6. QED
  BY <1>1, <1>3, <1>5 DEF Init, SumInit

\* The sum of the quanta or weights that the "gener" threshold divides by is that of the
\* queues with packets, for any shares the script sets before the simulation.
THEOREM ShareSumsExact == Spec => []ShareSumExact
<1>1. Init => ShareSumInv
  BY ShareSumInit
<1>2. Base /\ ShareSumInv /\ [Next]_vars => ShareSumInv'
  BY ShareSumStep
<1>3. ShareSumInv => ShareSumExact
  BY SumOverIsSumN DEF ShareSumInv, ShareSumExact, SumOfShares, DwrrClasses, WfqClasses
<1>4. QED
  BY <1>1, <1>2, <1>3, BaseInvariant, PTL DEF Spec
-----------------------------------------------------------------------------
(***************************************************************************)
(* The order in which the rounds of the queues began.                      *)
(***************************************************************************)
\* The rounds of the queues in a list began one after the other, the last one by then.
InOrder(list, start, then) ==
    /\ \A i, j \in DOMAIN list : i < j => start[list[i]] <= start[list[j]]
    /\ \A i \in DOMAIN list : start[list[i]] <= then

LEMMA InOrderAppend ==
    ASSUME NEW S, NEW s \in Seq(S), NEW e \in S, e \notin Range(s),
           NEW start \in [S -> Int], NEW then \in Int, InOrder(s, start, then)
    PROVE  InOrder(Append(s, e), [start EXCEPT ![e] = then], then)
<1> DEFINE t == Append(s, e)
           n == Len(s)
           after == [start EXCEPT ![e] = then]
<1>1. /\ t \in Seq(S) /\ Len(t) = n + 1
      /\ \A i \in 1 .. n : t[i] = s[i]
      /\ t[n + 1] = e
  BY AppendProperties
<1>2. n \in Nat /\ DOMAIN s = 1 .. n /\ DOMAIN t = 1 .. n + 1
  BY <1>1, LenProperties
<1>3. \A i \in 1 .. n : s[i] \in S
  BY ElementOfSeq
<1>4. \A i \in 1 .. n : s[i] # e
  BY <1>2 DEF Range
<1> HIDE DEF t
<1>5. \A i \in 1 .. n : after[t[i]] = start[s[i]] /\ after[t[i]] \in Int /\ after[t[i]] <= then
  <2>1. TAKE i \in 1 .. n
  <2>2. t[i] = s[i] /\ s[i] \in S /\ s[i] # e
    BY <1>1, <1>3, <1>4
  <2>3. after[s[i]] = start[s[i]]
    BY <2>2
  <2>4. start[s[i]] <= then /\ start[s[i]] \in Int
    BY <1>2, <2>2 DEF InOrder
  <2>5. QED
    BY <2>2, <2>3, <2>4
<1>6. after[t[n + 1]] = then
  BY <1>1
<1> HIDE DEF after
<1>7. ASSUME NEW i \in 1 .. n + 1, NEW j \in 1 .. n + 1, i < j
      PROVE  after[t[i]] <= after[t[j]]
  <2>1. i \in 1 .. n
    BY <1>2, <1>7
  <2>2. CASE j = n + 1
    BY <1>5, <1>6, <2>1, <2>2
  <2>3. CASE j # n + 1
    <3>1. j \in 1 .. n
      BY <1>2, <2>3
    <3>2. start[s[i]] <= start[s[j]]
      BY <1>2, <1>7, <2>1, <3>1 DEF InOrder
    <3>3. QED
      BY <1>5, <2>1, <3>1, <3>2
  <2>4. QED
    BY <2>2, <2>3
<1>8. ASSUME NEW i \in 1 .. n + 1 PROVE after[t[i]] <= then
  <2>1. i \in 1 .. n \/ i = n + 1
    BY <1>2
  <2>2. QED
    BY <1>5, <1>6, <2>1
<1>9. QED
  BY <1>2, <1>7, <1>8 DEF InOrder, t, after

LEMMA InOrderTail ==
    ASSUME NEW S, NEW s \in Seq(S), s # <<>>, NEW start, NEW then, InOrder(s, start, then)
    PROVE  InOrder(Tail(s), start, then)
<1> DEFINE t == Tail(s)
           n == Len(s)
<1>1. /\ t \in Seq(S) /\ Len(t) = n - 1
      /\ \A i \in 1 .. Len(t) : t[i] = s[i + 1]
  BY HeadTailProperties
<1>2. n \in Nat \ {0} /\ DOMAIN s = 1 .. n /\ DOMAIN t = 1 .. n - 1
  BY <1>1, LenProperties, EmptySeq
<1> HIDE DEF t, n
<1>3. \A i \in 1 .. n - 1 : i + 1 \in 1 .. n /\ t[i] = s[i + 1]
  BY <1>1, <1>2
<1>4. ASSUME NEW i \in 1 .. n - 1, NEW j \in 1 .. n - 1, i < j
      PROVE  start[t[i]] <= start[t[j]]
  <2>1. i + 1 < j + 1
    BY <1>4
  <2>2. start[s[i + 1]] <= start[s[j + 1]]
    BY <1>2, <1>3, <2>1 DEF InOrder
  <2>3. QED
    BY <1>3, <2>2
<1>5. \A i \in 1 .. n - 1 : start[t[i]] <= then
  BY <1>2, <1>3 DEF InOrder
<1>6. QED
  BY <1>2, <1>4, <1>5 DEF InOrder, t

LEMMA InOrderLater ==
    ASSUME NEW list, NEW start, NEW then \in Int, NEW later \in Int, then <= later,
           InOrder(list, start, then), \A i \in DOMAIN list : start[list[i]] \in Int
    PROVE  InOrder(list, start, later)
<1>1. \A i \in DOMAIN list : start[list[i]] <= later
  <2>1. TAKE i \in DOMAIN list
  <2>2. start[list[i]] <= then /\ start[list[i]] \in Int
    BY DEF InOrder
  <2>3. QED
    BY <2>2
<1>2. QED
  BY <1>1 DEF InOrder
-----------------------------------------------------------------------------
DwrrWaits == class \in DwrrClasses => InOrder(activeList, start_time, now)

LEMMA DwrrWaitsStep ==
    ASSUME Base, DwrrWaits, [Next]_vars
    PROVE  DwrrWaits'
<1>1. /\ SetupFacts /\ PortType /\ SameSetup /\ Base'
      /\ class \in DwrrClasses => DwrrStepKind
  BY NextFacts, BaseStep DEF Base, PortInv
<1>2. SUFFICES ASSUME class \in DwrrClasses PROVE InOrder(activeList', start_time', now')
  BY <1>1 DEF DwrrWaits, SameSetup
<1>3. now \in Int /\ now' \in Int /\ now <= now'
  BY <1>1, NextFacts, PortStepInv DEF Base, PortInv, PortType
<1>4. /\ activeList \in Seq(ShareQueues) /\ start_time \in [ShareQueues -> Int]
      /\ IsInjective(activeList) /\ Range(activeList) = Backlogged
      /\ InOrder(activeList, start_time, now)
  BY <1>2 DEF Base, DwrrType, ActiveListExact, DwrrClasses, DwrrWaits
<1>5. ASSUME activeList' = activeList, start_time' = start_time
      PROVE  InOrder(activeList', start_time', now')
  <2>1. DOMAIN activeList = 1 .. Len(activeList)
    BY <1>4, LenProperties
  <2>2. \A i \in DOMAIN activeList : activeList[i] \in ShareQueues
    BY <1>4, <2>1, ElementOfSeq
  <2>3. \A i \in DOMAIN activeList : start_time[activeList[i]] \in Int
    BY <1>4, <2>2
  <2>4. QED
    BY <1>3, <1>4, <1>5, <2>3, InOrderLater
<1>6. CASE DwrrCalm
  BY <1>5, <1>6 DEF DwrrCalm, dwrrVars
<1>7. ASSUME NEW c \in ShareQueues, DwrrArrival(c)
      PROVE  InOrder(activeList', start_time', now')
  <2>1. CASE fifo[c] # <<>>
    BY <1>5, <1>7, <2>1 DEF DwrrArrival, dwrrVars
  <2>2. CASE fifo[c] = <<>>
    <3>1. /\ activeList' = Append(activeList, c)
          /\ start_time' = [start_time EXCEPT ![c] = now]
      BY <1>7, <2>2 DEF DwrrArrival, DwrrActivate
    <3>2. now' = now
      BY <1>7 DEF DwrrArrival, Insert
    <3>3. c \notin Range(activeList)
      BY <1>4, <2>2 DEF Backlogged
    <3>4. InOrder(Append(activeList, c), [start_time EXCEPT ![c] = now], now)
      BY <1>3, <1>4, <3>3, InOrderAppend
    <3>5. QED
      BY <3>1, <3>2, <3>4
  <2>3. QED
    BY <2>1, <2>2
<1> DEFINE h == Head(activeList)
           t == Tail(activeList)
<1>8. ASSUME DwrrTurn
      PROVE  /\ h \in ShareQueues /\ t \in Seq(ShareQueues) /\ h \notin Range(t)
             /\ InOrder(t, start_time, now)
  <2>1. activeList # <<>> /\ h \in ShareQueues
    BY <1>1, <1>4, <1>8, DwrrHead
  <2>2. t \in Seq(ShareQueues) /\ Range(t) = Range(activeList) \ {h}
    BY <1>4, <2>1, TailList
  <2>3. InOrder(t, start_time, now)
    BY <1>4, <2>1, InOrderTail
  <2>4. QED
    BY <2>1, <2>2, <2>3
<1>9. CASE Rotate
  <2>1. /\ DwrrTurn /\ now' = now
        /\ start_time' = [start_time EXCEPT ![h] = now]
        /\ activeList' = Append(t, h)
    BY <1>9 DEF Rotate, portVars
  <2>2. /\ h \in ShareQueues /\ t \in Seq(ShareQueues) /\ h \notin Range(t)
        /\ InOrder(t, start_time, now)
    BY <1>8, <2>1
  <2> HIDE DEF h, t
  <2>3. InOrder(Append(t, h), [start_time EXCEPT ![h] = now], now)
    BY <1>3, <1>4, <2>2, InOrderAppend
  <2>4. QED
    BY <2>1, <2>3
<1>10. CASE DwrrServe
  <2>1. DwrrTurn /\ start_time' = start_time /\ now' = now
    BY <1>10 DEF DwrrServe, Leave
  <2>2. CASE Len(fifo[h]) = 1
    <3>1. activeList' = t
      BY <1>10, <2>2 DEF DwrrServe, DwrrDeactivate
    <3>2. QED
      BY <1>8, <2>1, <3>1
  <2>3. CASE Len(fifo[h]) # 1
    <3>1. activeList' = activeList
      BY <1>10, <2>3 DEF DwrrServe
    <3>2. QED
      BY <1>5, <2>1, <3>1
  <2>4. QED
    BY <2>2, <2>3
<1>11. QED
  BY <1>1, <1>2, <1>6, <1>7, <1>9, <1>10 DEF DwrrStepKind
-----------------------------------------------------------------------------
\* The queues from cur on, of n, and what the order becomes when cur has had its turn.
OrderFrom(n, cur) == [i \in 1 .. n |-> (cur + i - 1) % n]

LEMMA OrderFacts ==
    ASSUME NEW n \in Nat \ {0}, NEW cur \in 0 .. n - 1
    PROVE  /\ DOMAIN OrderFrom(n, cur) = 1 .. n
           /\ OrderFrom(n, cur)[1] = cur
           /\ \A i \in 1 .. n : OrderFrom(n, cur)[i] \in 0 .. n - 1
           /\ \A i \in 2 .. n : OrderFrom(n, cur)[i] # cur
           /\ (cur + 1) % n \in 0 .. n - 1
           /\ \A i \in 1 .. n : OrderFrom(n, (cur + 1) % n)[i]
                                    = IF i = n THEN cur ELSE OrderFrom(n, cur)[i + 1]
<1>1. \A i \in 1 .. n : OrderFrom(n, cur)[i] = IF cur + i - 1 < n THEN cur + i - 1
                                               ELSE cur + i - 1 - n
  <2>1. TAKE i \in 1 .. n
  <2> DEFINE k == cur + i - 1
  <2>2. OrderFrom(n, cur)[i] = k % n /\ k \in 0 .. 2 * n - 1
    BY DEF OrderFrom
  <2> HIDE DEF k
  <2>3. k % n = IF k < n THEN k ELSE k - n
    BY <2>2, WrapOnce
  <2>4. QED
    BY <2>2, <2>3 DEF k
<1> DEFINE next == (cur + 1) % n
<1>2. next = IF cur + 1 < n THEN cur + 1 ELSE 0
  <2> DEFINE k == cur + 1
  <2>1. k \in 0 .. 2 * n - 1 /\ next = k % n
    OBVIOUS
  <2> HIDE DEF k, next
  <2>2. k % n = IF k < n THEN k ELSE k - n
    BY <2>1, WrapOnce
  <2>3. QED
    BY <2>1, <2>2 DEF k
<1> HIDE DEF next
<1>3. next \in 0 .. n - 1
  BY <1>2
<1>4. \A i \in 1 .. n : OrderFrom(n, next)[i] = IF next + i - 1 < n THEN next + i - 1
                                                ELSE next + i - 1 - n
  <2>1. TAKE i \in 1 .. n
  <2> DEFINE k == next + i - 1
  <2>2. OrderFrom(n, next)[i] = k % n /\ k \in 0 .. 2 * n - 1
    BY <1>3 DEF OrderFrom
  <2> HIDE DEF k
  <2>3. k % n = IF k < n THEN k ELSE k - n
    BY <2>2, WrapOnce
  <2>4. QED
    BY <1>3, <2>2, <2>3 DEF k
<1>5. ASSUME NEW i \in 1 .. n
      PROVE  OrderFrom(n, next)[i] = IF i = n THEN cur ELSE OrderFrom(n, cur)[i + 1]
  <2>1. CASE i = n
    BY <1>2, <1>4, <2>1
  <2>2. CASE i # n
    <3>1. i + 1 \in 1 .. n
      BY <2>2
    <3>2. OrderFrom(n, cur)[i + 1] = IF cur + i < n THEN cur + i ELSE cur + i - n
      BY <1>1, <3>1
    <3>3. QED
      BY <1>2, <1>4, <2>2, <3>2
  <2>3. QED
    BY <2>1, <2>2
<1>6. DOMAIN OrderFrom(n, cur) = 1 .. n
  BY DEF OrderFrom
<1>7. \A i \in 1 .. n : OrderFrom(n, cur)[i] \in 0 .. n - 1
  BY <1>1
<1>8. \A i \in 2 .. n : OrderFrom(n, cur)[i] # cur
  BY <1>1
<1>9. OrderFrom(n, cur)[1] = cur
  BY <1>1
<1>10. QED
  BY <1>3, <1>5, <1>6, <1>7, <1>8, <1>9 DEF next

LEMMA InOrderTurn ==
    ASSUME NEW n \in Nat \ {0}, NEW cur \in 0 .. n - 1, NEW start \in [0 .. n - 1 -> Int],
           NEW then \in Int, NEW later \in Int, then <= later,
           InOrder(OrderFrom(n, cur), start, then)
    PROVE  InOrder(OrderFrom(n, (cur + 1) % n), [start EXCEPT ![cur] = later], later)
<1> DEFINE o == OrderFrom(n, cur)
           next == (cur + 1) % n
           p == OrderFrom(n, next)
           after == [start EXCEPT ![cur] = later]
<1>1. /\ DOMAIN o = 1 .. n /\ next \in 0 .. n - 1
      /\ \A i \in 1 .. n : o[i] \in 0 .. n - 1
      /\ \A i \in 2 .. n : o[i] # cur
      /\ \A i \in 1 .. n : p[i] = IF i = n THEN cur ELSE o[i + 1]
  BY OrderFacts
<1> HIDE DEF next
<1>2. DOMAIN p = 1 .. n
  BY <1>1, OrderFacts
<1>3. InOrder(o, start, then)
  OBVIOUS
<1> HIDE DEF o, p
<1>4. \A i \in 1 .. n : i # n => /\ i + 1 \in 2 .. n
                                 /\ after[p[i]] = start[o[i + 1]] /\ start[o[i + 1]] \in Int
                                 /\ start[o[i + 1]] <= later
  <2>1. TAKE i \in 1 .. n
  <2>2. SUFFICES ASSUME i # n
                 PROVE  /\ i + 1 \in 2 .. n
                        /\ after[p[i]] = start[o[i + 1]] /\ start[o[i + 1]] \in Int
                        /\ start[o[i + 1]] <= later
    OBVIOUS
  <2>3. i + 1 \in 2 .. n /\ i + 1 \in 1 .. n
    BY <2>2
  <2>4. p[i] = o[i + 1] /\ o[i + 1] # cur /\ o[i + 1] \in 0 .. n - 1
    BY <1>1, <2>2, <2>3
  <2>5. start[o[i + 1]] <= then /\ start[o[i + 1]] \in Int
    BY <1>1, <1>3, <2>3, <2>4 DEF InOrder
  <2>6. after[o[i + 1]] = start[o[i + 1]]
    BY <2>4
  <2>7. QED
    BY <2>3, <2>4, <2>5, <2>6
<1>5. after[p[n]] = later
  BY <1>1
<1> HIDE DEF after
<1>6. ASSUME NEW i \in 1 .. n, NEW j \in 1 .. n, i < j
      PROVE  after[p[i]] <= after[p[j]]
  <2>1. i # n
    BY <1>6
  <2>2. CASE j = n
    BY <1>4, <1>5, <2>1, <2>2
  <2>3. CASE j # n
    <3>1. i + 1 \in 1 .. n /\ j + 1 \in 1 .. n /\ i + 1 < j + 1
      BY <1>6, <2>1, <2>3
    <3>2. start[o[i + 1]] <= start[o[j + 1]]
      BY <1>1, <1>3, <3>1 DEF InOrder
    <3>3. QED
      BY <1>4, <2>1, <2>3, <3>2
  <2>4. QED
    BY <2>2, <2>3
<1>7. ASSUME NEW i \in 1 .. n PROVE after[p[i]] <= later
  BY <1>4, <1>5
<1>8. QED
  BY <1>2, <1>6, <1>7 DEF InOrder, p, after, next

WrrWaits == class = "WRR" => InOrder(OrderFrom(queue_num_, current), start_time, LinkFree)

LEMMA WrrWaitsStep ==
    ASSUME Base, WrrWaits, [Next]_vars
    PROVE  WrrWaits'
<1>1. /\ SetupFacts /\ PortInv /\ SameSetup
      /\ class = "WRR" => WrrStepKind
  BY NextFacts, BaseStep DEF Base
<1>2. SUFFICES ASSUME class = "WRR"
               PROVE  InOrder(OrderFrom(queue_num_, current'), start_time', LinkFree')
  BY <1>1 DEF WrrWaits, SameSetup
<1> DEFINE n == queue_num_
           order == OrderFrom(n, current)
<1>3. /\ n \in Nat \ {0} /\ PortQueues = 0 .. n - 1 /\ ShareQueues = PortQueues
      /\ current \in 0 .. n - 1 /\ start_time \in [0 .. n - 1 -> Int]
      /\ InOrder(order, start_time, LinkFree)
  BY <1>1, <1>2 DEF SetupFacts, Base, WrrType, WrrWaits
<1>4. LinkFree \in Int /\ LinkFree' \in Int /\ LinkFree <= LinkFree' /\ now \in Int
      /\ now <= LinkFree /\ (event = "deque" => LinkFree = now)
  <2>1. PortInv' /\ LinkFree <= LinkFree'
    BY <1>1, NextFacts, PortStepInv
  <2>2. QED
    BY <1>1, <2>1, LinkFreeType DEF PortInv, PortType, LinkInv, LinkFree, Idle
<1> HIDE DEF n
<1>5. /\ DOMAIN order = 1 .. n /\ \A i \in 1 .. n : order[i] \in 0 .. n - 1
  BY <1>3, OrderFacts
<1>6. CASE WrrCalm
  <2>1. \A i \in DOMAIN order : start_time[order[i]] \in Int
    BY <1>3, <1>5
  <2>2. current' = current /\ start_time' = start_time
    BY <1>6 DEF WrrCalm
  <2> HIDE DEF order
  <2>3. InOrder(order, start_time, LinkFree')
    BY <1>3, <1>4, <2>1, InOrderLater
  <2>4. QED
    BY <2>2, <2>3 DEF order, n
<1>7. CASE WrrArrival
  <2>1. current' = current /\ LinkFree' = LinkFree
    BY <1>7 DEF WrrArrival, LinkFree
  <2>2. start_time' = start_time \/ start_time' = [c \in PortQueues |-> now]
    BY <1>7 DEF WrrArrival, WrrAfterIdle
  <2>3. CASE start_time' = [c \in PortQueues |-> now]
    <3>1. \A i \in 1 .. n : start_time'[order[i]] = now
      BY <1>3, <1>5, <2>3
    <3> HIDE DEF order
    <3>2. InOrder(order, start_time', LinkFree)
      BY <1>4, <1>5, <3>1 DEF InOrder
    <3>3. QED
      BY <2>1, <3>2 DEF order, n
  <2>4. QED
    BY <1>3, <2>1, <2>2, <2>3 DEF n
<1>8. ASSUME NextQueue(LinkFree')
      PROVE  InOrder(OrderFrom(queue_num_, current'), start_time', LinkFree')
  <2>1. start_time' = [start_time EXCEPT ![current] = LinkFree'] /\ current' = (current + 1) % n
    BY <1>8 DEF NextQueue, n
  <2> DEFINE later == LinkFree'
  <2>2. later \in Int /\ LinkFree <= later /\ LinkFree \in Int
    BY <1>4
  <2> HIDE DEF later
  <2>3. InOrder(OrderFrom(n, (current + 1) % n), [start_time EXCEPT ![current] = later], later)
    BY <1>3, <2>2, InOrderTurn
  <2>4. QED
    BY <2>1, <2>3 DEF later, n
<1>9. CASE PassEmpty \/ PassSpent
  <2>1. event = "deque" /\ NextQueue(now) /\ UNCHANGED portVars
    BY <1>9 DEF PassEmpty, PassSpent, WrrTurn
  <2>2. LinkFree' = now
    BY <1>4, <2>1 DEF LinkFree, portVars
  <2>3. QED
    BY <1>8, <2>1, <2>2
<1>10. CASE WrrServe
  <2> DEFINE size == Head(fifo[current]).size
  <2>1. /\ event = "deque" /\ link' = now + TxTime(size) /\ fifo[current] # <<>>
        /\ NextQueue(now + TxTime(size)) \/ UNCHANGED <<start_time, current>>
    BY <1>10 DEF WrrServe, WrrTurn, Leave, roundVars
  <2>2. fifo[current] \in Seq(Pkts)
    BY <1>1, <1>3 DEF PortInv, PortType
  <2>3. size \in Nat \ {0}
    BY <1>1, <2>1, <2>2, HeadTailProperties, PktFacts
  <2>4. LinkFree' = now + TxTime(size)
    <3>1. now + size # -1
      BY <1>1, <2>3 DEF PortInv, PortType
    <3>2. QED
      BY <2>1, <3>1 DEF LinkFree, TxTime, Idle
  <2>5. CASE NextQueue(now + TxTime(size))
    BY <1>8, <2>4, <2>5
  <2>6. CASE UNCHANGED <<start_time, current>>
    <3>1. \A i \in DOMAIN order : start_time[order[i]] \in Int
      BY <1>3, <1>5
    <3> HIDE DEF order
    <3>2. InOrder(order, start_time, LinkFree')
      BY <1>3, <1>4, <3>1, InOrderLater
    <3>3. QED
      BY <2>6, <3>2 DEF order, n
  <2>7. QED
    BY <2>1, <2>5, <2>6
<1>11. QED
  BY <1>1, <1>2, <1>6, <1>7, <1>9, <1>10 DEF WrrStepKind

LEMMA WaitsInit == Init => DwrrWaits /\ WrrWaits
<1>1. SUFFICES ASSUME Init PROVE DwrrWaits /\ WrrWaits
  OBVIOUS
<1>2. SetupFacts /\ now = 0 /\ link = Idle
  BY <1>1, BaseInit, SetupIsOK DEF Base, PortInv, PortType, Init, PortInit
<1>3. DwrrWaits
  BY <1>1 DEF Init, DwrrInit, DwrrWaits, InOrder
<1>4. WrrWaits
  <2>1. SUFFICES ASSUME class = "WRR"
                 PROVE  InOrder(OrderFrom(queue_num_, current), start_time, LinkFree)
    BY DEF WrrWaits
  <2>2. /\ start_time = [c \in ShareQueues |-> 0] /\ current = 0 /\ LinkFree = 0
        /\ ShareQueues = 0 .. queue_num_ - 1 /\ queue_num_ \in Nat \ {0}
    BY <1>1, <1>2, <2>1 DEF Init, RoundInit, WrrInit, LinkFree, SetupFacts
  <2> DEFINE o == OrderFrom(queue_num_, current)
  <2>3. DOMAIN o = 1 .. queue_num_ /\ \A i \in 1 .. queue_num_ : o[i] \in 0 .. queue_num_ - 1
    BY <2>2, OrderFacts
  <2> HIDE DEF o
  <2>4. \A i \in DOMAIN o : start_time[o[i]] = 0
    BY <2>2, <2>3
  <2>5. InOrder(o, start_time, LinkFree)
    BY <2>2, <2>4 DEF InOrder
  <2>6. QED
    BY <2>5 DEF o
<1>5. QED
  BY <1>3, <1>4

\* Whenever a round robin queue has its turn next, its last round began before those of
\* all others: no queue is served twice while another one waits for its turn.
THEOREM TurnsInWaitingOrder == Spec => []LongestWaitFirst
<1>1. Init => DwrrWaits /\ WrrWaits
  BY WaitsInit
<1>2. Base /\ DwrrWaits /\ WrrWaits /\ [Next]_vars => (DwrrWaits /\ WrrWaits)'
  BY DwrrWaitsStep, WrrWaitsStep
<1>3. DwrrWaits /\ WrrWaits => LongestWaitFirst
  BY DEF DwrrWaits, WrrWaits, LongestWaitFirst, TurnOrder, WrrOrder, OrderFrom, InOrder,
         DwrrClasses
<1>4. QED
  BY <1>1, <1>2, <1>3, BaseInvariant, PTL DEF Spec
-----------------------------------------------------------------------------
(***************************************************************************)
(* The finish times of WFQ.                                                *)
(***************************************************************************)
\* A sum of more or larger terms is no smaller.
LEMMA SumMonotone ==
    ASSUME NEW N \in Nat, NEW f \in [1 .. N -> Int], NEW h \in [1 .. N -> Int],
           \A k \in 1 .. N : f[k] <= h[k]
    PROVE  SumTo(f, N) <= SumTo(h, N)
<1> DEFINE F == PrefixSums(f, N)
           H == PrefixSums(h, N)
           S == {n \in Nat : n <= N => F[n] <= H[n]}
<1>1. /\ \A k \in 0 .. N : F[k] \in Int /\ H[k] \in Int
      /\ F[0] = 0 /\ \A k \in 1 .. N : F[k] = F[k - 1] + f[k]
      /\ H[0] = 0 /\ \A k \in 1 .. N : H[k] = H[k - 1] + h[k]
  BY PrefixSumsFacts
<1> HIDE DEF F, H
<1>2. 0 \in S
  BY <1>1
<1>3. \A n \in Nat : n \in S => n + 1 \in S
  <2>1. SUFFICES ASSUME NEW n \in Nat, n \in S, n + 1 <= N PROVE F[n + 1] <= H[n + 1]
    OBVIOUS
  <2>2. n \in 0 .. N /\ n + 1 \in 1 .. N /\ (n + 1) - 1 = n
    BY <2>1
  <2>3. F[n + 1] = F[n] + f[n + 1] /\ H[n + 1] = H[n] + h[n + 1]
    BY <1>1, <2>2
  <2>4. F[n] \in Int /\ H[n] \in Int /\ f[n + 1] \in Int /\ h[n + 1] \in Int
        /\ f[n + 1] <= h[n + 1]
    BY <1>1, <2>2
  <2>5. F[n] <= H[n]
    BY <2>1
  <2>6. QED
    BY <2>3, <2>4, <2>5
<1> HIDE DEF S
<1>4. N \in S
  BY <1>2, <1>3, NatInduct
<1>5. QED
  BY <1>4 DEF S, F, H, SumTo

LEMMA SumNMonotone ==
    ASSUME NEW n \in Nat, NEW T \in SUBSET (0 .. n - 1), NEW S \in SUBSET T,
           NEW f, \A c \in T : f[c] \in Nat
    PROVE  SumN(n, S, f) <= SumN(n, T, f)
<1> DEFINE F == [i \in 1 .. n |-> IF i - 1 \in S THEN f[i - 1] ELSE 0]
           H == [i \in 1 .. n |-> IF i - 1 \in T THEN f[i - 1] ELSE 0]
<1>1. F \in [1 .. n -> Int] /\ H \in [1 .. n -> Int]
  OBVIOUS
<1>2. \A k \in 1 .. n : F[k] <= H[k]
  OBVIOUS
<1>3. SumN(n, S, f) = SumTo(F, n) /\ SumN(n, T, f) = SumTo(H, n)
  BY DEF SumN
<1> HIDE DEF F, H
<1>4. SumTo(F, n) <= SumTo(H, n)
  BY <1>1, <1>2, SumMonotone
<1>5. QED
  BY <1>3, <1>4

LEMMA SumNBelow ==
    ASSUME NEW n \in Nat, NEW S \in SUBSET (0 .. n - 1), NEW f, NEW h,
           \A c \in S : f[c] \in Nat /\ h[c] \in Nat /\ f[c] <= h[c]
    PROVE  SumN(n, S, f) <= SumN(n, S, h)
<1> DEFINE F == [i \in 1 .. n |-> IF i - 1 \in S THEN f[i - 1] ELSE 0]
           H == [i \in 1 .. n |-> IF i - 1 \in S THEN h[i - 1] ELSE 0]
<1>1. F \in [1 .. n -> Int] /\ H \in [1 .. n -> Int]
  OBVIOUS
<1>2. \A k \in 1 .. n : F[k] <= H[k]
  OBVIOUS
<1>3. SumN(n, S, f) = SumTo(F, n) /\ SumN(n, S, h) = SumTo(H, n)
  BY DEF SumN
<1> HIDE DEF F, H
<1>4. SumTo(F, n) <= SumTo(H, n)
  BY <1>1, <1>2, SumMonotone
<1>5. QED
  BY <1>3, <1>4

LEMMA QuotientMonotone ==
    ASSUME NEW a \in Nat, NEW b \in Nat, a <= b,
           NEW x \in Nat \ {0}, NEW y \in Nat \ {0}, y <= x
    PROVE  a \div x \in Nat /\ a \div x <= b \div y
<1> DEFINE q == a \div x
           r == b \div y
<1>1. q \in Int /\ x * q <= a
  BY Quotients
<1>2. r \in Int /\ b < y * r + y
  BY Quotients
<1>3. q \in Nat
  OBVIOUS
<1> HIDE DEF q, r
<1>4. y * q <= x * q /\ y * q \in Nat /\ x * q \in Nat
  BY <1>3, Products
<1>5. y * q < y * r + y /\ y * r \in Int
  <2>1. y * r \in Int
    BY <1>2
  <2>2. QED
    BY <1>1, <1>2, <1>4, <2>1
<1>6. SUFFICES ASSUME q > r PROVE FALSE
  BY <1>2, <1>3 DEF q, r
<1>7. q - r - 1 \in Nat
  BY <1>2, <1>3, <1>6
<1>8. y * (q - r - 1) \in Nat
  BY <1>7
<1>9. y * (q - r - 1) = y * q - y * r - y
  BY <1>2, <1>3
<1>10. QED
  BY <1>4, <1>5, <1>8, <1>9

\* The queues of B that are to finish after c, and the invariant: how far the latest finish
\* time is ahead of that of c, at most a packet of each of them (L bounds their times).
After(B, fin, c) == {d \in B : fin[d] > fin[c]}
Together(n, B, fin, cur, L) ==
    \A c \in B : fin[c] <= cur /\ cur - fin[c] <= SumN(n, After(B, fin, c), L)

LEMMA TogetherBound ==
    ASSUME NEW n \in Nat, NEW Q \in SUBSET (0 .. n - 1), NEW B \in SUBSET Q,
           NEW L, \A q \in Q : L[q] \in Nat, NEW fin \in [Q -> Int], NEW cur \in Int,
           Together(n, B, fin, cur, L), NEW c \in B
    PROVE  /\ cur - fin[c] \in Nat
           /\ cur - fin[c] <= SumN(n, Q \ {c}, L)
<1> DEFINE A == After(B, fin, c)
           R == Q \ {c}
<1>1. fin[c] \in Int /\ fin[c] <= cur /\ cur - fin[c] <= SumN(n, A, L)
  BY DEF Together
<1>2. A \in SUBSET R /\ R \in SUBSET (0 .. n - 1) /\ \A q \in R : L[q] \in Nat
  <2>1. c \notin A
    BY <1>1 DEF After
  <2>2. A \in SUBSET Q
    BY DEF After
  <2> HIDE DEF A
  <2>3. QED
    BY <2>1, <2>2
<1> HIDE DEF A, R
<1>3. SumN(n, A, L) <= SumN(n, R, L)
  BY <1>2, SumNMonotone
<1>4. SumN(n, A, L) \in Int /\ SumN(n, R, L) \in Int
  <2>1. A \in SUBSET (0 .. n - 1) /\ \A q \in A : L[q] \in Nat
    BY <1>2
  <2>2. QED
    BY <1>2, <2>1, SumNType
<1>5. QED
  BY <1>1, <1>3, <1>4 DEF R

\* A set of queues with one more has a sum larger by the term of that one, at least.
LEMMA SumWithOneMore ==
    ASSUME NEW n \in Nat, NEW T \in SUBSET (0 .. n - 1), NEW S \in SUBSET T,
           NEW f, \A q \in T : f[q] \in Nat
    PROVE  /\ SumN(n, S, f) \in Nat /\ SumN(n, T, f) \in Nat
           /\ SumN(n, S, f) <= SumN(n, T, f)
           /\ \A c \in T \ S : SumN(n, S, f) + f[c] <= SumN(n, T, f)
<1>1. S \in SUBSET (0 .. n - 1) /\ \A q \in S : f[q] \in Nat
  OBVIOUS
<1>2. SumN(n, S, f) \in Nat /\ SumN(n, T, f) \in Nat /\ SumN(n, S, f) <= SumN(n, T, f)
  BY <1>1, SumNType, SumNMonotone
<1>3. ASSUME NEW c \in T \ S PROVE SumN(n, S, f) + f[c] <= SumN(n, T, f)
  <2> DEFINE U == S \cup {c}
  <2>1. c \in 0 .. n - 1 /\ c \notin S /\ \A q \in S \cup {c} : f[q] \in Int
    BY <1>3
  <2>2. SumN(n, U, f) = SumN(n, S, f) + f[c]
    BY <1>1, <2>1, SumJoin
  <2>3. U \in SUBSET T
    BY <1>3
  <2> HIDE DEF U
  <2>4. SumN(n, U, f) <= SumN(n, T, f)
    BY <2>3, SumNMonotone
  <2>5. QED
    BY <2>2, <2>4
<1>4. QED
  BY <1>2, <1>3

\* The time that c moves on by: other queues keep their distance to the latest time, but
\* for what it moves on by, and c is now after all of them.
LEMMA AheadOfOthers ==
    ASSUME NEW n \in Nat, NEW Q \in SUBSET (0 .. n - 1), NEW B \in SUBSET Q, NEW c \in Q,
           NEW L, \A q \in Q : L[q] \in Nat, NEW fin \in [Q -> Int], NEW cur \in Int,
           Together(n, B, fin, cur, L), \A d \in B : c \notin After(B, fin, d),
           NEW delta \in Nat, delta <= L[c]
    PROVE  Together(n, B \cup {c}, [fin EXCEPT ![c] = cur + delta], cur + delta, L)
<1> DEFINE C == B \cup {c}
           time == cur + delta
           end == [fin EXCEPT ![c] = time]
<1>1. /\ end[c] = time /\ \A d \in Q : d # c => end[d] = fin[d]
      /\ time \in Int /\ cur <= time /\ time - cur = delta
  OBVIOUS
<1> HIDE DEF end, time
<1>2. ASSUME NEW d \in C PROVE end[d] <= time /\ time - end[d] <= SumN(n, After(C, end, d), L)
  <2> DEFINE T == After(C, end, d)
             S == After(B, fin, d)
  <2>1. T \in SUBSET (0 .. n - 1) /\ \A q \in T : L[q] \in Nat
    BY DEF After
  <2>2. SumN(n, T, L) \in Nat
    <3> HIDE DEF T
    <3>1. QED
      BY <2>1, SumNType
  <2>3. CASE d = c
    <3>1. time - end[d] = 0
      BY <1>1, <2>3
    <3>2. QED
      BY <1>1, <2>2, <2>3, <3>1
  <2>4. CASE d # c
    <3>1. /\ d \in B /\ end[d] = fin[d] /\ fin[d] \in Int /\ fin[d] <= cur
          /\ cur - fin[d] <= SumN(n, S, L)
      BY <1>1, <1>2, <2>4 DEF Together
    <3>2. CASE time = end[d]
      <4>1. time - end[d] = 0
        BY <1>1, <3>2
      <4>2. QED
        BY <1>1, <2>2, <3>2, <4>1
    <3>3. CASE time # end[d]
      <4>1. time > end[d]
        BY <1>1, <3>1, <3>3
      <4>2. c \in T /\ c \notin S
        BY <1>1, <3>1, <4>1 DEF After
      <4>3. S \in SUBSET T
        <5>1. SUFFICES ASSUME NEW e \in S PROVE e \in T
          OBVIOUS
        <5>2. e \in B /\ fin[e] > fin[d] /\ e # c /\ e \in Q
          BY <4>2, <5>1 DEF After
        <5>3. end[e] > end[d] /\ e \in C
          BY <1>1, <3>1, <5>2
        <5>4. QED
          BY <5>3 DEF After
      <4> HIDE DEF S, T
      <4>4. SumN(n, S, L) \in Nat /\ SumN(n, S, L) + L[c] <= SumN(n, T, L)
        BY <2>1, <4>2, <4>3, SumWithOneMore
      <4>5. L[c] \in Nat
        OBVIOUS
      <4>6. time - end[d] <= SumN(n, T, L)
        BY <1>1, <2>2, <3>1, <4>4, <4>5
      <4>7. QED
        BY <1>1, <3>1, <4>1, <4>6 DEF T
    <3>4. QED
      BY <3>2, <3>3
  <2>5. QED
    BY <2>3, <2>4
<1>3. QED
  BY <1>2 DEF Together, end, time

\* The queue with the earliest finish time, after which all others are, moves on but not
\* ahead of the latest.
LEMMA AmongOthers ==
    ASSUME NEW n \in Nat, NEW Q \in SUBSET (0 .. n - 1), NEW B \in SUBSET Q, NEW c \in B,
           NEW L, \A q \in Q : L[q] \in Nat, NEW fin \in [Q -> Int], NEW cur \in Int,
           Together(n, B, fin, cur, L), \A d \in B : fin[c] <= fin[d],
           NEW time \in Int, fin[c] <= time, time <= cur
    PROVE  Together(n, B, [fin EXCEPT ![c] = time], cur, L)
<1> DEFINE end == [fin EXCEPT ![c] = time]
<1>1. /\ end[c] = time /\ \A d \in Q : d # c => end[d] = fin[d]
      /\ c \in Q /\ \A d \in B : fin[d] \in Int /\ fin[d] <= cur
  BY DEF Together
<1> HIDE DEF end
<1>2. \A d \in B : /\ After(B, end, d) \in SUBSET (0 .. n - 1)
                   /\ \A q \in After(B, end, d) : L[q] \in Nat
  BY DEF After
\* The sums are larger if no queue is lost.
<1>3. ASSUME NEW d \in B, NEW e \in B, After(B, fin, e) \subseteq After(B, end, d),
             fin[e] <= end[d], end[d] \in Int, end[d] <= cur
      PROVE  end[d] <= cur /\ cur - end[d] <= SumN(n, After(B, end, d), L)
  <2> DEFINE T == After(B, end, d)
             S == After(B, fin, e)
  <2>1. cur - fin[e] <= SumN(n, S, L) /\ fin[e] \in Int
    BY <1>1 DEF Together
  <2>2. S \in SUBSET T /\ T \in SUBSET (0 .. n - 1) /\ \A q \in T : L[q] \in Nat
    BY <1>2, <1>3
  <2> HIDE DEF S, T
  <2>3. /\ SumN(n, S, L) \in Nat /\ SumN(n, T, L) \in Nat
        /\ SumN(n, S, L) <= SumN(n, T, L)
    BY <2>2, SumWithOneMore
  <2>4. cur - end[d] <= SumN(n, T, L)
    BY <1>3, <2>1, <2>3
  <2>5. QED
    BY <1>3, <2>4 DEF T
<1>4. ASSUME NEW d \in B, d # c
      PROVE  end[d] <= cur /\ cur - end[d] <= SumN(n, After(B, end, d), L)
  <2>1. end[d] = fin[d] /\ fin[d] \in Int /\ fin[d] <= cur /\ fin[c] <= fin[d]
    BY <1>1, <1>4
  <2>2. After(B, fin, d) \subseteq After(B, end, d)
    <3>1. SUFFICES ASSUME NEW e \in After(B, fin, d) PROVE e \in After(B, end, d)
      OBVIOUS
    <3>2. e \in B /\ fin[e] > fin[d] /\ fin[e] \in Int /\ fin[c] \in Int
      BY <1>1 DEF After
    <3>3. e # c
      BY <2>1, <3>2
    <3>4. end[e] > end[d]
      BY <1>1, <2>1, <3>2, <3>3
    <3>5. QED
      BY <3>2, <3>4 DEF After
  <2>3. QED
    BY <1>3, <2>1, <2>2
<1>5. cur - end[c] <= SumN(n, After(B, end, c), L) /\ end[c] <= cur
  <2> DEFINE D == {d \in B \ {c} : fin[d] <= time}
  <2>1. CASE D = {}
    <3>1. After(B, fin, c) \subseteq After(B, end, c)
      <4>1. SUFFICES ASSUME NEW e \in After(B, fin, c) PROVE e \in After(B, end, c)
        OBVIOUS
      <4>2. e \in B /\ fin[e] > fin[c] /\ fin[e] \in Int /\ fin[c] \in Int
        BY <1>1 DEF After
      <4>3. e # c
        BY <4>2
      <4>4. ~ (fin[e] <= time)
        BY <2>1, <4>2, <4>3
      <4>5. end[e] > end[c]
        BY <1>1, <4>2, <4>3, <4>4
      <4>6. QED
        BY <4>2, <4>5 DEF After
    <3>2. QED
      BY <1>1, <1>3, <3>1
  <2>2. CASE D # {}
    <3> DEFINE lags == {time - fin[d] : d \in D}
    <3>1. lags \in SUBSET Nat /\ lags # {}
      BY <1>1, <2>2
    <3>2. PICK lag \in lags : \A other \in lags : lag <= other
      <4> HIDE DEF lags
      <4>1. QED
        BY <3>1, LeastNatural
    <3>3. PICK e \in D : lag = time - fin[e]
      BY <3>2
    <3>4. e \in B /\ e # c /\ fin[e] <= time /\ fin[e] \in Int /\ fin[c] <= fin[e]
          /\ fin[c] \in Int
      BY <1>1, <3>3
    <3>5. \A d \in D : fin[d] <= fin[e]
      <4>1. TAKE d \in D
      <4>2. time - fin[d] \in lags /\ fin[d] \in Int
        BY <1>1
      <4>3. time - fin[e] <= time - fin[d]
        BY <3>2, <3>3, <4>2
      <4>4. QED
        BY <3>4, <4>2, <4>3
    <3>6. After(B, fin, e) \subseteq After(B, end, c)
      <4>1. SUFFICES ASSUME NEW d \in After(B, fin, e) PROVE d \in After(B, end, c)
        OBVIOUS
      <4>2. d \in B /\ fin[d] > fin[e] /\ fin[d] \in Int
        BY <1>1 DEF After
      <4>3. d # c
        BY <3>4, <4>2
      <4>4. ~ (fin[d] <= time)
        BY <3>4, <3>5, <4>2, <4>3
      <4>5. end[d] > end[c]
        BY <1>1, <4>2, <4>3, <4>4
      <4>6. QED
        BY <4>2, <4>5 DEF After
    <3>7. QED
      BY <1>1, <1>3, <3>4, <3>6
  <2>3. QED
    BY <2>1, <2>2
<1>6. QED
  BY <1>4, <1>5 DEF Together, end

\* The queue with the earliest finish time is empty now.
LEMMA WithoutFirst ==
    ASSUME NEW n \in Nat, NEW Q \in SUBSET (0 .. n - 1), NEW B \in SUBSET Q, NEW c \in B,
           NEW L, NEW fin \in [Q -> Int], NEW cur \in Int, NEW time,
           Together(n, B, fin, cur, L), \A d \in B : fin[c] <= fin[d]
    PROVE  Together(n, B \ {c}, [fin EXCEPT ![c] = time], cur, L)
<1> DEFINE C == B \ {c}
           end == [fin EXCEPT ![c] = time]
<1>1. \A d \in C : end[d] = fin[d] /\ fin[d] \in Int /\ fin[c] \in Int /\ fin[c] <= fin[d]
  OBVIOUS
<1> HIDE DEF end
<1>2. ASSUME NEW d \in C PROVE After(C, end, d) = After(B, fin, d)
  <2>1. c \notin After(B, fin, d)
    BY <1>1, <1>2 DEF After
  <2>2. \A e \in C : end[e] > end[d] <=> fin[e] > fin[d]
    BY <1>1, <1>2
  <2>3. QED
    BY <2>1, <2>2 DEF After
<1>3. ASSUME NEW d \in C PROVE end[d] <= cur /\ cur - end[d] <= SumN(n, After(C, end, d), L)
  BY <1>1, <1>2, <1>3 DEF Together
<1>4. QED
  BY <1>3 DEF Together, end
-----------------------------------------------------------------------------
\* The time of the largest packet at the lightest weight of a queue bounds that of any
\* packet.
Longest == [d \in ShareQueues |-> (MaxPkt * FinishUnit) \div Lightest(d)]

LEMMA LightestFacts ==
    ASSUME SetupFacts, ShareType, NEW c \in ShareQueues
    PROVE  /\ Lightest(c) \in Nat \ {0} /\ Lightest(c) <= share[c]
           /\ share[c] \in Nat \ {0}
<1> DEFINE S == {InitShare[c]} \cup ShareChoices
<1>1. S \in SUBSET Nat /\ S # {} /\ 0 \notin S
  BY DEF SetupFacts
<1>2. share[c] \in S
  BY DEF ShareType
<1>3. Lightest(c) = CHOOSE weight \in S : \A other \in S : weight <= other
  BY DEF Lightest
<1> HIDE DEF S
<1>4. \E m \in S : \A n \in S : m <= n
  BY <1>1, LeastNatural
<1>5. Lightest(c) \in S /\ \A n \in S : Lightest(c) <= n
  BY <1>3, <1>4
<1>6. QED
  BY <1>1, <1>2, <1>5

LEMMA LongestFacts ==
    ASSUME SetupFacts, ShareType, NEW c \in ShareQueues
    PROVE  /\ Longest[c] \in Nat
           /\ \A size \in PktSizes : VirtualTime(c, size) \in Nat
                                     /\ VirtualTime(c, size) <= Longest[c]
<1> DEFINE x == share[c]
           y == Lightest(c)
           b == MaxPkt * FinishUnit
<1>1. x \in Nat \ {0} /\ y \in Nat \ {0} /\ y <= x
  BY LightestFacts
<1>2. MaxPkt \in Nat /\ FinishUnit \in Nat /\ PktSizes \subseteq Nat
      /\ \A size \in PktSizes : size <= MaxPkt
  BY FinishUnitAssumption DEF SetupFacts
<1>3. b \in Nat
  BY <1>2
<1>4. Longest[c] = b \div y
  BY DEF Longest
<1>5. ASSUME NEW size \in PktSizes PROVE size * FinishUnit \in Nat /\ size * FinishUnit <= b
  BY <1>2, Products
<1>6. \A size \in PktSizes : VirtualTime(c, size) = (size * FinishUnit) \div x
  BY DEF VirtualTime
<1> HIDE DEF x, y, b
<1>7. ASSUME NEW size \in PktSizes
      PROVE  VirtualTime(c, size) \in Nat /\ VirtualTime(c, size) <= b \div y
  <2> DEFINE a == size * FinishUnit
  <2>1. a \in Nat /\ a <= b /\ VirtualTime(c, size) = a \div x
    BY <1>5, <1>6
  <2> HIDE DEF a
  <2>2. QED
    BY <1>1, <1>3, <2>1, QuotientMonotone
<1>8. b \div y \in Nat
  BY <1>1, <1>3
<1>9. QED
  BY <1>4, <1>7, <1>8

LEMMA LongestStays ==
    ASSUME SameSetup PROVE Longest' = Longest
<1>1. \A c : Lightest(c)' = Lightest(c)
  BY DEF SameSetup, Lightest
<1>2. QED
  BY <1>1 DEF Longest, SameSetup

WfqTogether ==
    class \in WfqClasses =>
        Together(queue_num_, Backlogged, headFinishTime, currTime, Longest)

\* What the lemmas above ask of the queues.
LEMMA WfqPremises ==
    ASSUME Base, class \in WfqClasses
    PROVE  /\ queue_num_ \in Nat /\ ShareQueues \in SUBSET (0 .. queue_num_ - 1)
           /\ Backlogged \in SUBSET ShareQueues
           /\ \A q \in ShareQueues : Longest[q] \in Nat
           /\ headFinishTime \in [ShareQueues -> Int] /\ currTime \in Int
<1>1. SetupFacts /\ ShareType
  BY SetupIsOK DEF Base, PortInv, PortType
<1>2. headFinishTime \in [ShareQueues -> Int] /\ currTime \in Int
  BY DEF Base, WfqType
<1>3. Backlogged \in SUBSET ShareQueues
  BY DEF Backlogged
<1>4. \A q \in ShareQueues : Longest[q] \in Nat
  BY <1>1, LongestFacts
<1>5. QED
  BY <1>1, <1>2, <1>3, <1>4 DEF SetupFacts

LEMMA WfqTogetherStep ==
    ASSUME Base, WfqTogether, [Next]_vars
    PROVE  WfqTogether'
<1>1. /\ SetupFacts /\ ShareType /\ PortType /\ SameSetup
      /\ class \in WfqClasses => WfqStepKind
  BY NextFacts, BaseStep DEF Base, PortInv
<1> DEFINE n == queue_num_
           Q == ShareQueues
           L == Longest
           B == Backlogged
           fin == headFinishTime
           cur == currTime
<1>2. SUFFICES ASSUME class \in WfqClasses PROVE Together(n, B', fin', cur', L)
  BY <1>1, LongestStays DEF WfqTogether, SameSetup
<1>3. /\ n \in Nat /\ Q \in SUBSET (0 .. n - 1) /\ B \in SUBSET Q
      /\ \A q \in Q : L[q] \in Nat
      /\ fin \in [Q -> Int] /\ cur \in Int
      /\ Together(n, B, fin, cur, L)
  BY <1>2, WfqPremises DEF WfqTogether
<1>4. CASE WfqCalm
  <2>1. B' = B /\ fin' = fin /\ cur' = cur
    BY <1>1, <1>4, BacklogSame DEF WfqCalm, wfqVars
  <2>2. QED
    BY <1>3, <2>1
<1>5. ASSUME NEW c \in ShareQueues, WfqArrival(c)
      PROVE  Together(n, B', fin', cur', L)
  <2>1. PICK size \in PktSizes, ect \in BOOLEAN, mark \in BOOLEAN :
            /\ Insert(c, size, ect, mark)
            /\ IF fifo[c] = <<>> THEN WfqActivate(c, size) ELSE UNCHANGED <<wfqVars, share_sum>>
    BY <1>5 DEF WfqArrival
  <2>2. B' = B \cup {c} /\ (fifo[c] = <<>> <=> c \notin B)
    BY <1>1, <2>1, BacklogArrival
  <2>3. CASE fifo[c] = <<>>
    <3> DEFINE delta == VirtualTime(c, size)
    <3>1. fin' = [fin EXCEPT ![c] = cur + delta] /\ cur' = cur + delta
      BY <2>1, <2>3 DEF WfqActivate
    <3>2. delta \in Nat /\ delta <= L[c]
      BY <1>1, LongestFacts
    <3>3. \A d \in B : c \notin After(B, fin, d)
      BY <2>2, <2>3 DEF After
    <3> HIDE DEF delta, n, Q, L, B, fin, cur
    <3>4. c \in Q
      BY DEF Q
    <3>5. Together(n, B \cup {c}, [fin EXCEPT ![c] = cur + delta], cur + delta, L)
      BY <1>3, <3>2, <3>3, <3>4, AheadOfOthers
    <3>6. QED
      BY <2>2, <3>1, <3>5
  <2>4. CASE fifo[c] # <<>>
    <3>1. fin' = fin /\ cur' = cur /\ B' = B
      BY <2>1, <2>2, <2>4 DEF wfqVars
    <3>2. QED
      BY <1>3, <3>1
  <2>5. QED
    BY <2>3, <2>4
<1>6. CASE WfqServe
  <2> DEFINE c == Earliest
  <2>1. LengthOf(ShareQueues) > 0 /\ Leave(c, FALSE) /\ Advance(c)
    BY <1>6 DEF WfqServe
  <2>2. /\ c \in ShareQueues /\ fifo[c] # <<>>
        /\ \A d \in ShareQueues : fifo[d] # <<>> => headFinishTime[c] <= headFinishTime[d]
    BY <1>1, <1>3, <2>1, EarliestFacts
  <2> HIDE DEF c
  <2>3. c \in PortQueues
    BY <1>1, <2>2 DEF SetupFacts
  <2> DEFINE len == Len(fifo[c])
  <2>4. len \in Nat \ {0} /\ fifo[c] \in Seq(Pkts)
    BY <1>1, <2>1, <2>2, <2>3, LeaveFacts
  <2>5. B' = (IF len = 1 THEN B \ {c} ELSE B) /\ c \in B
    BY <1>1, <2>1, <2>2, BacklogLeave
  <2>6. \A d \in B : fin[c] <= fin[d]
    BY <2>2 DEF Backlogged
  <2>7. fin[c] \in Int /\ fin[c] <= cur
    BY <1>3, <2>5 DEF Together
  <2>8. CASE len > 1
    <3> DEFINE size == fifo[c][2].size
               v == VirtualTime(c, size)
               time == fin[c] + v
    <3>1. /\ fin' = [fin EXCEPT ![c] = time]
          /\ cur' = IF cur < time THEN time ELSE cur
      BY <2>1, <2>8 DEF Advance
    <3>2. size \in PktSizes
      <4>1. 2 \in 1 .. Len(fifo[c])
        BY <2>4, <2>8
      <4>2. fifo[c][2] \in Pkts
        BY <2>4, <4>1, ElementOfSeq
      <4>3. QED
        BY <1>1, <4>2, PktFacts
    <3>3. v \in Nat /\ v <= L[c]
      BY <1>1, <2>2, <3>2, LongestFacts
    <3>4. B' = B
      <4> HIDE DEF len
      <4>1. QED
        BY <2>4, <2>5, <2>8
    <3>5. c \in Q /\ L[c] \in Nat
      BY <1>3, <2>2
    <3> HIDE DEF v, size, n, Q, L, B, fin, cur
    <3>6. time \in Int /\ fin[c] <= time
      BY <2>7, <3>3
    <3>7. CASE time <= cur
      <4>1. Together(n, B, [fin EXCEPT ![c] = time], cur, L)
        <5> HIDE DEF time
        <5>1. QED
          BY <1>3, <2>5, <2>6, <2>7, <3>6, <3>7, AmongOthers
      <4>2. cur' = cur
        BY <1>3, <3>1, <3>6, <3>7
      <4>3. QED
        BY <3>1, <3>4, <4>1, <4>2
    <3>8. CASE cur < time
      <4> DEFINE delta == time - cur
      <4>1. delta \in Nat /\ delta <= L[c] /\ cur + delta = time
        BY <1>3, <2>7, <3>3, <3>5, <3>8
      <4>2. \A d \in B : c \notin After(B, fin, d)
        <5>1. ASSUME NEW d \in B, fin[c] > fin[d] PROVE FALSE
          <6>1. fin[d] \in Int /\ fin[c] <= fin[d]
            BY <1>3, <2>6
          <6>2. QED
            BY <2>7, <5>1, <6>1
        <5>2. QED
          BY <5>1 DEF After
      <4> HIDE DEF delta, time
      <4>3. Together(n, B \cup {c}, [fin EXCEPT ![c] = cur + delta], cur + delta, L)
        BY <1>3, <3>5, <4>1, <4>2, AheadOfOthers
      <4>4. B \cup {c} = B
        BY <2>5
      <4>5. cur' = time
        BY <3>1, <3>8
      <4>6. QED
        BY <3>1, <3>4, <4>1, <4>3, <4>4, <4>5
    <3>9. QED
      BY <1>3, <3>6, <3>7, <3>8
  <2>9. CASE ~ (len > 1)
    <3>1. len = 1
      <4> HIDE DEF len
      <4>1. QED
        BY <2>4, <2>9
    <3>2. fin' = [fin EXCEPT ![c] = NoFinish] /\ cur' = cur
      BY <2>1, <2>9 DEF Advance
    <3>3. B' = B \ {c}
      BY <2>5, <3>1
    <3> HIDE DEF len, n, Q, L, B, fin, cur
    <3>4. Together(n, B \ {c}, [fin EXCEPT ![c] = NoFinish], cur, L)
      BY <1>3, <2>5, <2>6, WithoutFirst
    <3>5. QED
      BY <3>2, <3>3, <3>4
  <2>10. QED
    BY <2>8, <2>9
<1>7. QED
  BY <1>1, <1>2, <1>4, <1>5, <1>6 DEF WfqStepKind

\* While a packet waits in a WFQ or PRIO_WFQ queue, the latest finish time moves ahead of
\* its own by one packet of each other queue at most: for any number of queues, packet
\* sizes, weights and changes of them.
THEOREM FinishTimesStayTogether == Spec => []FinishTimesTogether
<1>1. Init => WfqTogether
  <2>1. SUFFICES ASSUME Init PROVE Backlogged = {}
    BY DEF WfqTogether, Together
  <2>2. SetupFacts
    BY <2>1, BaseInit, SetupIsOK DEF Base, PortInv, PortType
  <2>3. QED
    BY <2>1, <2>2 DEF Init, PortInit, Backlogged, SetupFacts
<1>2. Base /\ WfqTogether /\ [Next]_vars => WfqTogether'
  BY WfqTogetherStep
<1>3. Base /\ WfqTogether => FinishTimesTogether
  <2>1. SUFFICES ASSUME Base, WfqTogether, class \in WfqClasses, NEW c \in Backlogged
                 PROVE  currTime - headFinishTime[c]
                            \in 0 .. SumOver(ShareQueues \ {c}, Longest)
    BY DEF FinishTimesTogether, Longest, WfqClasses
  <2> DEFINE bound == SumN(queue_num_, ShareQueues \ {c}, Longest)
  <2>2. /\ queue_num_ \in Nat /\ ShareQueues \in SUBSET (0 .. queue_num_ - 1)
        /\ Backlogged \in SUBSET ShareQueues
        /\ \A q \in ShareQueues : Longest[q] \in Nat
        /\ headFinishTime \in [ShareQueues -> Int] /\ currTime \in Int
    BY <2>1, WfqPremises
  <2>3. Together(queue_num_, Backlogged, headFinishTime, currTime, Longest)
    BY <2>1 DEF WfqTogether
  <2>4. /\ currTime - headFinishTime[c] \in Nat
        /\ currTime - headFinishTime[c] <= bound
    BY <2>1, <2>2, <2>3, TogetherBound
  <2>5. bound \in Nat
    <3> DEFINE R == ShareQueues \ {c}
    <3>1. R \in SUBSET (0 .. queue_num_ - 1) /\ \A q \in R : Longest[q] \in Nat
      BY <2>2
    <3> HIDE DEF R
    <3>2. SumN(queue_num_, R, Longest) \in Nat
      BY <2>2, <3>1, SumNType
    <3>3. QED
      BY <3>2 DEF R
  <2>6. SumOver(ShareQueues \ {c}, Longest) = bound
    BY SumOverIsSumN
  <2> HIDE DEF bound
  <2>7. QED
    BY <2>4, <2>5, <2>6
<1>4. QED
  BY <1>1, <1>2, <1>3, BaseInvariant, PTL DEF Spec
-----------------------------------------------------------------------------
(***************************************************************************)
(* The port is the one of PriorityFifos.                                   *)
(***************************************************************************)
Held  == [c \in AllQueues |-> IF c \in PortQueues THEN fifo[c] ELSE <<>>]
Ranks == [c \in AllQueues |-> Rank(c)]

LEMMA PortQueuesKnown ==
    ASSUME setup \in DOMAIN Setups
    PROVE  PortQueues \subseteq AllQueues /\ \A c \in AllQueues : Rank(c) \in Int
<1>1. SetupFacts
  BY SetupIsOK
<1>2. Setups[setup] \in Range(Setups)
  BY DEF Range
<1>3. PortQueues = 0 .. Setups[setup].queue_num_ - 1
  BY DEF PortQueues, queue_num_, Script, Scripts
<1>4. PortQueues \subseteq AllQueues
  BY <1>2, <1>3 DEF AllQueues
<1>5. ASSUME NEW s \in Range(Setups) PROVE s.queue_num_ \in Nat
  BY <1>5, SetupsAssumption DEF Range, SetupOK
<1>6. \A c \in AllQueues : c \in Int
  BY <1>5 DEF AllQueues
<1>7. QED
  BY <1>1, <1>4, <1>6 DEF Rank, SetupFacts

LEMMA RanksStay == ASSUME SameSetup PROVE Ranks' = Ranks
BY DEF SameSetup, Ranks, Rank

\* A packet joins a queue.
LEMMA ArrivalAccepts ==
    ASSUME SetupFacts, PortType, SameSetup, Arrival
    PROVE  \E c \in AllQueues : Fifos!Accept(c)
<1>1. PICK c \in PortQueues, size \in PktSizes, ect \in BOOLEAN, mark \in BOOLEAN :
          Insert(c, size, ect, mark)
  BY DEF Arrival
<1>2. PICK pkt \in Pkts : /\ fifo'[c] = Append(fifo[c], pkt)
                          /\ \A d \in PortQueues \ {c} : fifo'[d] = fifo[d]
  BY <1>1, InsertFacts
<1>3. c \in AllQueues /\ PortQueues' = PortQueues
  BY PortQueuesKnown DEF PortType, SameSetup
<1>4. /\ Held[c] = fifo[c] /\ Held'[c] = Append(Held[c], pkt)
      /\ \A d \in AllQueues \ {c} : Held'[d] = Held[d]
  BY <1>2, <1>3 DEF Held
<1>5. Held' = [Held EXCEPT ![c] = Append(@, pkt)]
  BY <1>3, <1>4 DEF Held
<1>6. pkt \in Range(Held'[c])
  <2> DEFINE n == Len(fifo[c])
             long == Append(fifo[c], pkt)
  <2>1. fifo[c] \in Seq(Pkts)
    BY DEF PortType
  <2>2. n \in Nat
    BY <2>1, LenProperties
  <2>3. long \in Seq(Pkts) /\ Len(long) = n + 1 /\ long[n + 1] = pkt
    BY <2>1, AppendProperties
  <2>4. long = Held'[c]
    BY <1>4
  <2> HIDE DEF n, long
  <2>5. n + 1 \in 1 .. Len(long)
    BY <2>2, <2>3
  <2>6. n + 1 \in DOMAIN long
    BY <2>3, <2>5
  <2>7. QED
    BY <2>3, <2>4, <2>6 DEF Range
<1>7. Ranks' = IF c \in Fifos!Waiting THEN Ranks ELSE [Ranks EXCEPT ![c] = Ranks'[c]]
  BY <1>3, RanksStay DEF Ranks
<1>8. sent' = sent
  BY <1>1 DEF Insert
<1>9. Fifos!Accept(c)
  <2>1. pkt \in Fifos!Range(Held'[c])
    BY <1>6 DEF Fifos!Range, Range
  <2>2. \E p \in Fifos!Range(Held'[c]) : Held' = [Held EXCEPT ![c] = Append(@, p)]
    BY <1>5, <2>1
  <2>3. QED
    BY <1>7, <1>8, <2>2 DEF Fifos!Accept, Held, Ranks
<1>10. QED
  BY <1>3, <1>9

\* A packet leaves: those that wait before its queue would be in priority queues.
LEMMA DepartureSends ==
    ASSUME SetupFacts, PortType, SameSetup, Departure
    PROVE  \E c \in AllQueues : Fifos!Send(c)
<1>1. PICK c \in PortQueues, mark \in BOOLEAN : HighestWaiting(c) /\ Leave(c, mark)
  BY DEF Departure
<1>2. fifo[c] # <<>> /\ \A d \in PrioQueues : d < c => fifo[d] = <<>>
  BY <1>1 DEF HighestWaiting
<1>3. /\ fifo[c] \in Seq(Pkts) /\ Head(fifo[c]) \in Pkts /\ fifo'[c] = Tail(fifo[c])
      /\ \A d \in PortQueues \ {c} : fifo'[d] = fifo[d]
  BY <1>1, <1>2, LeaveFacts
<1>4. c \in AllQueues /\ PortQueues' = PortQueues /\ PortQueues \subseteq AllQueues
  BY PortQueuesKnown DEF PortType, SameSetup
<1>5. /\ Held[c] = fifo[c] /\ Held'[c] = Tail(Held[c])
      /\ \A d \in AllQueues \ {c} : Held'[d] = Held[d]
  BY <1>3, <1>4 DEF Held
<1>6. Held' = [Held EXCEPT ![c] = Tail(@)]
  BY <1>4, <1>5 DEF Held
<1>7. Fifos!Waiting = {d \in AllQueues : Held[d] # <<>>}
  BY DEF Fifos!Waiting, Held
<1>8. c \in Fifos!Waiting
  BY <1>2, <1>4, <1>5, <1>7
<1>9. ASSUME NEW d \in Fifos!Waiting PROVE Ranks[c] <= Ranks[d]
  <2>1. d \in PortQueues /\ fifo[d] # <<>> /\ d \in AllQueues
    BY <1>7 DEF Held
  <2>2. /\ prio_queue_num_ \in Int /\ c \in Int /\ d \in Int
        /\ d < prio_queue_num_ => d \in PrioQueues
    BY <2>1 DEF SetupFacts
  <2>3. ~ (d < prio_queue_num_ /\ d < c)
    BY <1>2, <2>1, <2>2
  <2>4. Rank(c) <= Rank(d)
    BY <2>2, <2>3 DEF Rank
  <2>5. QED
    BY <1>4, <2>1, <2>4 DEF Ranks
<1>10. \E ce \in {Head(Held[c]).ce, TRUE} :
           sent' = [queue |-> c, size |-> PktSize(Head(Held[c])), ce |-> ce]
  <2> DEFINE pkt == Head(fifo[c])
             ce == pkt.ce \/ (pkt.ect /\ (mark \/ LatencyMark(pkt)))
  <2>1. sent' = [queue |-> c, size |-> pkt.size, ce |-> ce]
    BY <1>1 DEF Leave
  <2>2. pkt.ce \in BOOLEAN
    BY <1>3 DEF Pkts
  <2>3. ce \in {pkt.ce, TRUE}
    BY <2>2
  <2>4. pkt = Head(Held[c])
    BY <1>5
  <2> HIDE DEF ce, pkt
  <2>5. QED
    BY <2>1, <2>3, <2>4 DEF PktSize
<1>11. Ranks' = Ranks
  BY RanksStay
<1>12. Fifos!Send(c)
  BY <1>6, <1>8, <1>9, <1>10, <1>11 DEF Fifos!Send, Held, Ranks
<1>13. QED
  BY <1>4, <1>12

LEMMA PortStepRefines ==
    ASSUME SetupFacts, PortType, SameSetup, PortStep
    PROVE  [Fifos!Next]_(Fifos!vars)
<1>1. CASE Arrival
  BY <1>1, ArrivalAccepts DEF Fifos!Next
<1>2. CASE Departure
  BY <1>2, DepartureSends DEF Fifos!Next
<1>3. Ranks' = Ranks /\ PortQueues' = PortQueues
  BY RanksStay DEF SameSetup
<1>4. CASE Resume
  <2>1. Held' = Held /\ sent' = NoPacket
    BY <1>3, <1>4 DEF Resume, Held
  <2>2. QED
    BY <1>3, <2>1 DEF Fifos!Next, Fifos!Rest, Held, Ranks
<1>5. CASE Drop \/ ReturnNull \/ Tick \/ UNCHANGED portVars
  <2>1. Held' = Held /\ sent' = sent
    BY <1>3, <1>5 DEF Drop, ReturnNull, Tick, portVars, Held
  <2>2. QED
    BY <1>3, <2>1 DEF Fifos!vars, Held, Ranks
<1>6. QED
  BY <1>1, <1>2, <1>4, <1>5 DEF PortStep

\* Every class, with any settings, is a port of FIFOs in strict priority: no packet is lost
\* or overtaken in its queue, no mark is taken away, and what leaves is the head packet of
\* a queue of the highest priority that has any.
THEOREM PortsImplemented == Spec => ImplementsPort
<1>1. Init => Fifos!Init
  <2>1. SUFFICES ASSUME Init PROVE Fifos!Init
    OBVIOUS
  <2>2. setup \in DOMAIN Setups /\ sent = NoPacket /\ fifo = [c \in PortQueues |-> <<>>]
    BY <2>1 DEF Init, PortInit
  <2>3. Held = [c \in AllQueues |-> <<>>]
    BY <2>2 DEF Held
  <2>4. Ranks \in [AllQueues -> Int]
    BY <2>2, PortQueuesKnown DEF Ranks
  <2>5. QED
    BY <2>2, <2>3, <2>4 DEF Fifos!Init, Held, Ranks
<1>2. Base /\ [Next]_vars => [Fifos!Next]_(Fifos!vars)
  <2>1. SUFFICES ASSUME Base, [Next]_vars PROVE [Fifos!Next]_(Fifos!vars)
    OBVIOUS
  <2>2. SetupFacts /\ PortStep /\ SameSetup /\ PortType
    BY <2>1, NextFacts, BaseStep DEF Base, PortInv
  <2>3. QED
    BY <2>2, PortStepRefines
<1>3. QED
  BY <1>1, <1>2, BaseInvariant, PTL DEF Spec, ImplementsPort, Fifos!Spec
-----------------------------------------------------------------------------
(***************************************************************************)
(* The estimates of MQ-ECN: smoothing and decay keep them within what they *)
(* are made of.                                                            *)
(***************************************************************************)
\* Powers: the recursion has a solution, of naturals.
ArePowers(g, base, n) == g = [k \in 0 .. n |-> IF k = 0 THEN 1 ELSE g[k - 1] * base]

LEMMA PowersExist ==
    ASSUME NEW N \in Nat, NEW base \in Nat
    PROVE  \E g \in [0 .. N -> Nat] : ArePowers(g, base, N)
<1> DEFINE S == {n \in Nat : \E g \in [0 .. n -> Nat] : ArePowers(g, base, n)}
<1>1. 0 \in S
  <2>1. [k \in 0 .. 0 |-> 1] \in [0 .. 0 -> Nat]
    OBVIOUS
  <2>2. ArePowers([k \in 0 .. 0 |-> 1], base, 0)
    BY DEF ArePowers
  <2>3. QED
    BY <2>1, <2>2
<1>2. ASSUME NEW n \in Nat, n \in S
      PROVE  \E g \in [0 .. n + 1 -> Nat] : ArePowers(g, base, n + 1)
  <2>1. PICK g \in [0 .. n -> Nat] : ArePowers(g, base, n)
    BY <1>2
  <2> DEFINE h == [k \in 0 .. n + 1 |-> IF k <= n THEN g[k] ELSE g[n] * base]
  <2>2. g[n] \in Nat /\ g[n] * base \in Nat
    BY <2>1
  <2>3. h \in [0 .. n + 1 -> Nat]
    BY <2>1, <2>2
  <2>4. \A k \in 0 .. n : g[k] = IF k = 0 THEN 1 ELSE g[k - 1] * base
    BY <2>1 DEF ArePowers
  <2>5. \A k \in 0 .. n + 1 : h[k] = IF k = 0 THEN 1 ELSE h[k - 1] * base
    <3>1. TAKE k \in 0 .. n + 1
    <3>2. CASE k <= n
      <4>1. k \in 0 .. n /\ (k # 0 => k - 1 \in 0 .. n)
        BY <3>2
      <4>2. h[k] = g[k] /\ (k # 0 => h[k - 1] = g[k - 1])
        BY <4>1
      <4>3. QED
        BY <2>4, <4>1, <4>2
    <3>3. CASE k = n + 1
      <4>1. h[k] = g[n] * base /\ h[k - 1] = g[n] /\ k # 0
        BY <3>3
      <4>2. QED
        BY <4>1
    <3>4. QED
      BY <3>2, <3>3
  <2>6. ArePowers(h, base, n + 1)
    BY <2>5 DEF ArePowers
  <2>7. QED
    BY <2>3, <2>6
<1>3. \A n \in Nat : n \in S => n + 1 \in S
  BY <1>2
<1> HIDE DEF S
<1>4. N \in S
  BY <1>1, <1>3, NatInduct
<1>5. QED
  BY <1>4 DEF S

LEMMA PowersFacts ==
    ASSUME NEW N \in Nat, NEW base \in Nat
    PROVE  /\ Powers(base, N)[0] = 1
           /\ \A k \in 1 .. N : Powers(base, N)[k] = Powers(base, N)[k - 1] * base
<1> DEFINE g == Powers(base, N)
<1>1. g = CHOOSE h : ArePowers(h, base, N)
  BY DEF Powers, ArePowers
<1>2. ArePowers(g, base, N)
  BY <1>1, PowersExist
<1> HIDE DEF g
<1>3. \A k \in 0 .. N : g[k] = IF k = 0 THEN 1 ELSE g[k - 1] * base
  BY <1>2 DEF ArePowers
<1>4. QED
  BY <1>3 DEF g

\* The powers of a factor of at most 1.
LEMMA PowerAtMost ==
    ASSUME NEW N \in Nat, NEW a \in Nat, NEW b \in Nat \ {0}, a <= b
    PROVE  /\ Power(a, N) \in Nat /\ Power(b, N) \in Nat \ {0}
           /\ Power(a, N) <= Power(b, N)
<1> DEFINE A == Powers(a, N)
           B == Powers(b, N)
           S == {n \in Nat : n <= N => A[n] \in Nat /\ B[n] \in Nat \ {0} /\ A[n] <= B[n]}
<1>1. A[0] = 1 /\ \A k \in 1 .. N : A[k] = A[k - 1] * a
  BY PowersFacts
<1>2. B[0] = 1 /\ \A k \in 1 .. N : B[k] = B[k - 1] * b
  BY PowersFacts
<1> HIDE DEF A, B
<1>3. 0 \in S
  BY <1>1, <1>2
<1>4. \A n \in Nat : n \in S => n + 1 \in S
  <2>1. SUFFICES ASSUME NEW n \in Nat, n \in S, n + 1 <= N
                 PROVE  A[n + 1] \in Nat /\ B[n + 1] \in Nat \ {0} /\ A[n + 1] <= B[n + 1]
    OBVIOUS
  <2> DEFINE x == A[n]
             y == B[n]
  <2>2. n + 1 \in 1 .. N /\ (n + 1) - 1 = n
    BY <2>1
  <2>3. A[n + 1] = x * a /\ B[n + 1] = y * b
    BY <1>1, <1>2, <2>2
  <2>4. x \in Nat /\ y \in Nat \ {0} /\ x <= y
    BY <2>1
  <2> HIDE DEF x, y
  <2>5. x * a <= y * a /\ x * a \in Nat /\ y * a \in Nat
    BY <2>4, Products
  <2>6. a * y <= b * y /\ a * y = y * a /\ b * y = y * b /\ y * b \in Nat
    BY <2>4, Products
  <2>7. y * b # 0
    BY <2>4
  <2>8. x * a <= y * b
    BY <2>5, <2>6
  <2>9. QED
    BY <2>3, <2>5, <2>6, <2>7, <2>8
<1> HIDE DEF S
<1>5. N \in S
  BY <1>3, <1>4, NatInduct
<1>6. QED
  BY <1>5 DEF S, A, B, Power

LEMMA QuotientOfNaturals ==
    ASSUME NEW n \in Nat, NEW d \in Nat \ {0} PROVE n \div d \in Nat
OBVIOUS

LEMMA DecayAtMost ==
    ASSUME NEW x \in Nat, NEW alpha \in 0 .. AlphaUnit, NEW n \in Nat
    PROVE  Decay(x, alpha, n) \in Nat /\ Decay(x, alpha, n) <= x
<1> DEFINE p == Power(alpha, n)
           d == Power(AlphaUnit, n)
<1>1. AlphaUnit \in Nat \ {0} /\ alpha \in Nat /\ alpha <= AlphaUnit
  BY Ns2PortAssumption
<1>2. p \in Nat /\ d \in Nat \ {0} /\ p <= d
  BY <1>1, PowerAtMost
<1>3. Decay(x, alpha, n) = (x * p) \div d
  BY DEF Decay
<1> HIDE DEF p, d
<1> DEFINE y == x * p
<1>4. y \in Nat /\ y <= d * x
  <2>1. p * x <= d * x /\ p * x = x * p /\ x * p \in Nat
    BY <1>2, Products
  <2>2. QED
    BY <2>1
<1> HIDE DEF y
<1>5. y \div d \in Nat /\ y \div d <= x
  BY <1>2, <1>4, QuotientOfNaturals, QuotientAtMost
<1>6. QED
  BY <1>3, <1>5 DEF y

LEMMA EwmaWithin ==
    ASSUME NEW smooth \in Nat, NEW sample \in Nat, NEW alpha \in 0 .. AlphaUnit,
           NEW b \in Nat, smooth <= b, sample <= b
    PROVE  Ewma(smooth, sample, alpha) \in 0 .. b
<1>1. AlphaUnit \in Nat \ {0} /\ alpha \in Nat /\ AlphaUnit - alpha \in Nat
  BY Ns2PortAssumption
<1> DEFINE n == smooth * alpha + sample * (AlphaUnit - alpha)
<1>2. n \in Nat
  <2>1. smooth * alpha \in Nat /\ sample * (AlphaUnit - alpha) \in Nat
    BY <1>1, Products
  <2>2. QED
    BY <2>1
<1>3. Ewma(smooth, sample, alpha) = n \div AlphaUnit
  BY DEF Ewma
<1> HIDE DEF n
<1>4. Ewma(smooth, sample, alpha) \in Nat
  BY <1>1, <1>2, <1>3, QuotientOfNaturals
<1>5. QED
  BY <1>4, EwmaAtMost

\* The threshold of a queue between that of the port and that of its share, for an
\* estimate that does not exceed the whole, which is no less than its share.
LEMMA ShareMarkBounds ==
    ASSUME NEW x \in Nat \ {0}, NEW u \in Nat \ {0}, NEW k \in Nat, NEW len \in Nat,
           NEW whole \in Nat, x <= whole, NEW est \in Nat, est <= whole * u, NEW mark,
           mark <=> IF est > x * u THEN len * est > x * u * k ELSE len > k
    PROVE  /\ mark => len * whole > x * k
           /\ ~mark => len <= k
<1> DEFINE xu == x * u
           xk == x * k
<1>1. xu \in Nat \ {0} /\ xk \in Nat /\ x * u * k = u * xk /\ x * u * k = xu * k
  <2>1. x * u \in Nat /\ x * k \in Nat
    BY Products
  <2>2. x * u # 0
    OBVIOUS
  <2>3. QED
    BY <2>1, <2>2
<1>2. CASE est > xu
  <2>1. mark <=> len * est > xu * k
    BY <1>1, <1>2
  <2>2. ASSUME ~mark PROVE len <= k
    <3>1. SUFFICES ASSUME len > k PROVE FALSE
      OBVIOUS
    <3>2. len * est <= xu * k
      BY <1>1, <2>1, <2>2
    <3> HIDE DEF xu
    <3>3. xu * k <= est * k /\ xu * k \in Nat /\ est * k \in Nat
      BY <1>1, <1>2, Products
    <3>4. (k + 1) * est <= len * est /\ (k + 1) * est = k * est + est /\ len * est \in Nat
      BY <3>1, Products
    <3>5. k * est = est * k /\ est > 0
      BY <1>1, <1>2
    <3>6. QED
      BY <3>2, <3>3, <3>4, <3>5
  <2>3. ASSUME mark PROVE len * whole > xk
    <3>1. len * est > u * xk
      BY <1>1, <2>1, <2>3
    <3> DEFINE wu == whole * u
               lw == len * whole
    <3>2. wu \in Nat /\ lw \in Nat
      BY Products
    <3>3. len * wu = u * lw
      BY <3>2
    <3>4. est * len <= wu * len /\ est * len = len * est /\ wu * len = len * wu
          /\ wu * len \in Nat /\ est * len \in Nat
      <4> HIDE DEF wu
      <4>1. est <= wu
        BY DEF wu
      <4>2. QED
        BY <3>2, <4>1, Products
    <3>5. SUFFICES ASSUME lw <= xk PROVE FALSE
      BY <1>1, <3>2
    <3> HIDE DEF wu, lw, xk, xu
    <3>6. lw * u <= xk * u /\ lw * u = u * lw /\ xk * u = u * xk /\ u * xk \in Nat
      BY <1>1, <3>2, <3>5, Products
    <3>7. QED
      BY <3>1, <3>3, <3>4, <3>6
  <2>4. QED
    BY <2>2, <2>3
<1>3. CASE ~ (est > xu)
  <2>1. mark <=> len > k
    BY <1>3
  <2>2. ASSUME mark PROVE len * whole > xk
    <3>1. len > k
      BY <2>1, <2>2
    <3>2. (k + 1) * whole <= len * whole /\ (k + 1) * whole = k * whole + whole
          /\ len * whole \in Nat /\ k * whole \in Nat
      BY <3>1, Products
    <3>3. x * k <= whole * k /\ whole * k = k * whole
      BY Products
    <3>4. QED
      BY <1>1, <3>2, <3>3
  <2>3. QED
    BY <2>1, <2>2
<1>4. QED
  BY <1>2, <1>3
-----------------------------------------------------------------------------
(***************************************************************************)
(* What a mark says: the marks of a step, whatever decides on them.        *)
(***************************************************************************)
MqOn == /\ ShareChoices = {}
        /\ marking_scheme_ = "gener" \/ (marking_scheme_ = "rr" /\ PrioQueues = {})

LEMMA UntouchedBounds ==
    ASSUME PortType, NEW c \in PortQueues, fifo'[c] = fifo[c]
    PROVE  MarksWithinBounds(c)
<1>1. Len(fifo[c]) \in Nat
  BY LenProperties DEF PortType
<1>2. QED
  BY <1>1 DEF MarksWithinBounds

LEMMA InsertBounds ==
    ASSUME SetupFacts, PortType, PortType', SameSetup, NEW c \in PortQueues,
           NEW d \in PortQueues, NEW size \in PktSizes, NEW ect \in BOOLEAN,
           NEW mark \in BOOLEAN, Insert(d, size, ect, mark),
           ~DequeMarking /\ MqOn /\ d = c => MarkBounds(c, ByteLength(c) + size, mark)
    PROVE  MarksWithinBounds(c)
<1>1. PICK pkt \in Pkts :
          /\ pkt.size = size /\ pkt.ect = ect /\ pkt.ce = (ect /\ mark)
          /\ fifo'[d] = Append(fifo[d], pkt)
          /\ \A e \in PortQueues \ {d} : fifo'[e] = fifo[e]
  BY InsertFacts
<1>2. CASE c # d
  BY <1>1, <1>2, UntouchedBounds
<1>3. CASE c = d
  <2> DEFINE long == Append(fifo[c], pkt)
  <2>1. fifo[c] \in Seq(Pkts) /\ fifo'[c] = long
    BY <1>1, <1>3 DEF PortType
  <2>2. \A p \in Pkts : p.size \in Nat \ {0}
    BY PktFacts
  <2>3. /\ long \in Seq(Pkts) /\ long # <<>>
        /\ Len(long) = Len(fifo[c]) + 1 /\ long[Len(fifo[c]) + 1] = pkt
        /\ PktBytes(long) = PktBytes(fifo[c]) + pkt.size
    BY <2>1, <2>2, PktBytesAppend
  <2>4. Len(fifo[c]) \in Nat
    BY <2>1, LenProperties
  <2>5. Last(long) = pkt
    BY <2>3 DEF Last
  <2>6. ByteLength(c)' = ByteLength(c) + size
    <3>1. ByteLength(c) = PktBytes(fifo[c]) /\ ByteLength(c)' = PktBytes(fifo'[c])
      BY DEF ByteLength, PktBytes
    <3>2. QED
      BY <1>1, <2>1, <2>3, <3>1
  <2> HIDE DEF long
  <2>7. ~ (Len(fifo'[c]) < Len(fifo[c]))
    BY <2>1, <2>3, <2>4
  <2>8. ASSUME ~DequeMarking, MqEcn(Last(fifo'[c]))
        PROVE  MarkBounds(c, ByteLength(c)', Last(fifo'[c]).ce)
    <3>1. Last(fifo'[c]) = pkt /\ ect /\ MqOn
      BY <1>1, <2>1, <2>5, <2>8 DEF MqEcn, MqOn
    <3>2. pkt.ce = mark
      BY <1>1, <3>1
    <3>3. MarkBounds(c, ByteLength(c) + size, mark)
      BY <1>3, <2>8, <3>1
    <3>4. QED
      BY <2>6, <3>1, <3>2, <3>3
  <2>9. QED
    BY <2>7, <2>8 DEF MarksWithinBounds
<1>4. QED
  BY <1>2, <1>3

LEMMA LeaveBounds ==
    ASSUME SetupFacts, PortType, PortType', SameSetup, NEW c \in PortQueues,
           NEW d \in PortQueues, NEW mark \in BOOLEAN, Leave(d, mark), fifo[d] # <<>>,
           DequeMarking /\ d = c => ~Head(fifo[c]).ce,
           DequeMarking /\ MqOn /\ d = c =>
               MarkBounds(c, ByteLength(c) - Head(fifo[c]).size, mark)
    PROVE  MarksWithinBounds(c)
<1>1. /\ fifo[d] \in Seq(Pkts) /\ Len(fifo[d]) \in Nat \ {0}
      /\ fifo'[d] = Tail(fifo[d])
      /\ \A e \in PortQueues \ {d} : fifo'[e] = fifo[e]
  BY LeaveFacts
<1>2. CASE c # d
  BY <1>1, <1>2, UntouchedBounds
<1>3. CASE c = d
  <2> DEFINE rest == Tail(fifo[c])
             pkt == Head(fifo[c])
  <2>1. \A p \in Pkts : p.size \in Nat \ {0}
    BY PktFacts
  <2>2. /\ rest \in Seq(Pkts) /\ Len(rest) = Len(fifo[c]) - 1
        /\ PktBytes(rest) = PktBytes(fifo[c]) - pkt.size
    BY <1>1, <1>3, <2>1, PktBytesTail, HeadTailProperties
  <2>3. ByteLength(c)' = ByteLength(c) - pkt.size
    <3>1. ByteLength(c) = PktBytes(fifo[c]) /\ ByteLength(c)' = PktBytes(fifo'[c])
      BY DEF ByteLength, PktBytes
    <3>2. QED
      BY <1>1, <1>3, <2>2, <3>1
  <2>4. sent'.ce = (pkt.ce \/ (pkt.ect /\ (mark \/ LatencyMark(pkt))))
    BY <1>3 DEF Leave
  <2>5. fifo'[c] = rest
    BY <1>1, <1>3
  <2> HIDE DEF rest
  <2>6. ~ (Len(fifo'[c]) > Len(fifo[c]))
    BY <1>1, <1>3, <2>2, <2>5
  <2>7. ASSUME DequeMarking, MqEcn(pkt)
        PROVE  MarkBounds(c, ByteLength(c)', sent'.ce)
    <3>1. pkt.ect /\ MqOn /\ ~pkt.ce
      BY <1>3, <2>7 DEF MqEcn, MqOn
    <3>2. ~LatencyMark(pkt)
      BY <3>1 DEF LatencyMark, MqOn
    <3>3. sent'.ce = mark
      BY <2>4, <3>1, <3>2
    <3>4. MarkBounds(c, ByteLength(c) - pkt.size, mark)
      BY <1>3, <2>7, <3>1
    <3>5. QED
      BY <2>3, <3>3, <3>4
  <2>8. QED
    BY <2>6, <2>7 DEF MarksWithinBounds
<1>4. QED
  BY <1>2, <1>3
-----------------------------------------------------------------------------
(***************************************************************************)
(* The sum of the shares, smoothed.                                        *)
(***************************************************************************)
LEMMA SumEstimateStep ==
    ASSUME class \in DwrrClasses \cup WfqClasses, [Next]_vars
    PROVE  share_sum_estimate' \in {share_sum_estimate, IdleSum, SmoothedSum(share_sum')}
<1> DEFINE Outcomes == {share_sum_estimate, IdleSum, SmoothedSum(share_sum')}
<1>1. ASSUME NEW sum, UpdateEstimate(sum) PROVE share_sum_estimate' \in Outcomes
  BY <1>1 DEF UpdateEstimate
<1>2. ASSUME DwrrAfterIdle PROVE share_sum_estimate' \in Outcomes
  BY <1>2 DEF DwrrAfterIdle
<1>3. ASSUME WfqAfterIdle PROVE share_sum_estimate' \in Outcomes
  BY <1>3 DEF WfqAfterIdle
<1>4. ASSUME Timeout PROVE share_sum_estimate' \in Outcomes
  BY <1>4 DEF Timeout
<1>5. ASSUME DwrrDeque \/ PrioDwrrDeque PROVE share_sum_estimate' \in Outcomes
  <2>1. CASE Rotate \/ PrioDwrrServePrio
    BY <2>1 DEF Rotate, PrioDwrrServePrio, sumVars
  <2>2. CASE DwrrServe \/ DwrrServeNothing
    BY <1>1, <2>2 DEF DwrrServe, DwrrServeNothing, DwrrDeactivate
  <2>3. QED
    BY <1>5, <2>1, <2>2 DEF DwrrDeque, PrioDwrrDeque, PrioDwrrServe
<1>6. ASSUME WfqDeque \/ PrioWfqDeque PROVE share_sum_estimate' \in Outcomes
  <2>1. CASE PrioWfqServePrio
    BY <2>1 DEF PrioWfqServePrio, sumVars
  <2>2. CASE WfqServe \/ WfqServeNothing
    BY <1>1, <2>2 DEF WfqServe, WfqServeNothing, Advance
  <2>3. QED
    BY <1>6, <2>1, <2>2 DEF WfqDeque, PrioWfqDeque, PrioWfqServe
<1>7. CASE DwrrStep
  BY <1>2, <1>4, <1>5, <1>7 DEF DwrrStep, DwrrNext, DwrrEnque, DwrrSetQuantum, DwrrTimeout,
      DwrrResume, DwrrTick, sumVars
<1>8. CASE PrioDwrrStep
  BY <1>2, <1>4, <1>5, <1>8 DEF PrioDwrrStep, PrioDwrrNext, PrioDwrrEnque, PrioDwrrSetQuantum,
      PrioDwrrTimeout, DwrrSetQuantum, DwrrTimeout, DwrrResume, DwrrTick, sumVars
<1>9. CASE WfqStep
  BY <1>3, <1>4, <1>6, <1>9 DEF WfqStep, WfqNext, WfqEnque, WfqSetWeight, WfqTimeout, WfqResume,
      WfqTick, sumVars
<1>10. CASE PrioWfqStep
  BY <1>3, <1>4, <1>6, <1>10 DEF PrioWfqStep, PrioWfqNext, PrioWfqEnque, PrioWfqSetWeight,
      PrioWfqTimeout, WfqSetWeight, WfqTimeout, WfqResume, WfqTick, sumVars
<1>11. CASE UNCHANGED vars
  BY <1>11 DEF vars, sumVars
<1>12. QED
  BY <1>7, <1>8, <1>9, <1>10, <1>11 DEF Next, PriorityStep, WrrStep, DwrrClasses, WfqClasses

\* The estimate is at most the sum of all shares.
TotalN == SumN(queue_num_, ShareQueues, share)
SumEstimateInv ==
    class \in DwrrClasses \cup WfqClasses /\ ShareChoices = {} =>
        share_sum_estimate \in 0 .. TotalN * Unit

LEMMA TotalFacts ==
    ASSUME SetupFacts, ShareType
    PROVE  /\ TotalN \in Nat /\ TotalShare = TotalN
           /\ \A c \in ShareQueues : share[c] \in Nat \ {0} /\ share[c] <= TotalN
           /\ \A S \in SUBSET ShareQueues : SumN(queue_num_, S, share) \in 0 .. TotalN
<1>1. /\ queue_num_ \in Nat /\ ShareQueues \in SUBSET (0 .. queue_num_ - 1)
      /\ \A c \in ShareQueues : share[c] \in Nat \ {0} /\ share[c] \in Nat
  BY DEF SetupFacts, ShareType
<1>2. TotalN \in Nat /\ \A c \in ShareQueues : share[c] <= TotalN
  BY <1>1, SumNType DEF TotalN
<1>3. ASSUME NEW S \in SUBSET ShareQueues
      PROVE  SumN(queue_num_, S, share) \in 0 .. TotalN
  <2>1. S \in SUBSET (0 .. queue_num_ - 1) /\ \A c \in S : share[c] \in Nat
    BY <1>1
  <2>2. SumN(queue_num_, S, share) \in Nat
    BY <1>1, <2>1, SumNType
  <2>3. SumN(queue_num_, S, share) <= TotalN
    BY <1>1, SumNMonotone DEF TotalN
  <2>4. QED
    BY <1>2, <2>2, <2>3
<1>4. TotalShare = TotalN
  BY SumOverIsSumN DEF TotalShare, SumOfShares, TotalN
<1>5. QED
  BY <1>1, <1>2, <1>3, <1>4

 
LEMMA SumEstimateInvStep ==
    ASSUME Base, ShareSumInv, SumEstimateInv, [Next]_vars
    PROVE  SumEstimateInv'
<1>1. /\ SetupFacts /\ ShareType /\ SameSetup /\ Base' /\ ShareSumInv'
      /\ now \in Nat /\ last_idle_time \in Nat /\ last_idle_time <= now
      /\ setup' \in DOMAIN Setups
  BY NextFacts, BaseStep, ShareSumStep DEF Base, PortInv, PortType, ShareType
<1>2. SUFFICES ASSUME class \in DwrrClasses \cup WfqClasses, ShareChoices = {}
               PROVE  share_sum_estimate' \in 0 .. TotalN' * Unit
  BY <1>1 DEF SumEstimateInv, SameSetup
<1>3. share' = share
  <2>1. SameShare \/ share' = share
    BY <1>2, NextFacts DEF DwrrStepKind, DwrrCalm, DwrrArrival, Rotate, shareVars, DwrrServe,
       WfqStepKind, WfqCalm, WfqArrival, WfqServe
  <2>2. QED
    BY <1>2, <2>1 DEF SameShare
<1>4. TotalN' = TotalN
  BY <1>1, <1>3 DEF TotalN, SameSetup
<1> DEFINE b == TotalN * Unit
<1>5. TotalN \in Nat /\ Unit \in Nat
  BY <1>1, TotalFacts DEF SetupFacts
<1>6. b \in Nat /\ share_sum_estimate \in 0 .. b
  <2>1. b \in Nat
    BY <1>5, Products
  <2>2. QED
    BY <1>2, <2>1 DEF SumEstimateInv
<1>7. share_sum' \in 0 .. TotalN
  <2>1. share_sum' = SumN(queue_num_, Backlogged', share)
    BY <1>1, <1>2, <1>3 DEF ShareSumInv, SameSetup
  <2>2. Backlogged' \in SUBSET ShareQueues
    BY <1>1 DEF Backlogged, SameSetup
  <2>3. QED
    BY <1>1, <2>1, <2>2, TotalFacts
<1> HIDE DEF b
<1>8. IdleSum \in 0 .. b
  <2>1. now - last_idle_time \in Nat
    BY <1>1
  <2>2. TickAlpha \in 0 .. AlphaUnit /\ share_sum_estimate \in Nat
    BY <1>1, <1>6 DEF SetupFacts
  <2>3. /\ Decay(share_sum_estimate, TickAlpha, now - last_idle_time) \in Nat
        /\ Decay(share_sum_estimate, TickAlpha, now - last_idle_time) <= share_sum_estimate
    BY <2>1, <2>2, DecayAtMost
  <2>4. QED
    BY <1>6, <2>2, <2>3 DEF IdleSum
<1>9. SmoothedSum(share_sum') \in 0 .. b
  <2> DEFINE sample == share_sum' * Unit
  <2>1. sample \in Nat /\ sample <= b
    <3> DEFINE sum == share_sum'
               u == Unit
    <3>1. sum \in Nat /\ sum <= TotalN /\ u \in Nat
      BY <1>5, <1>7
    <3> HIDE DEF sum, u
    <3>2. sum * u \in Nat /\ sum * u <= TotalN * u
      BY <1>5, <3>1, Products
    <3>3. QED
      BY <3>2 DEF b, sum, u
  <2>2. EstimateAlpha \in 0 .. AlphaUnit
    BY <1>1 DEF SetupFacts
  <2>3. SmoothedSum(share_sum') = Ewma(share_sum_estimate, sample, EstimateAlpha)
    BY DEF SmoothedSum
  <2> HIDE DEF sample
  <2>4. QED
    BY <1>6, <2>1, <2>2, <2>3, EwmaWithin
<1>10. share_sum_estimate' \in {share_sum_estimate, IdleSum, SmoothedSum(share_sum')}
  BY <1>2, SumEstimateStep
<1>11. QED
  BY <1>4, <1>6, <1>8, <1>9, <1>10 DEF b
-----------------------------------------------------------------------------
(***************************************************************************)
(* The rounds: a queue waits for the queues whose turns come before its    *)
(* own to spend what they may still send, and begins its next round when   *)
(* its own turn ends.                                                      *)
(***************************************************************************)
\* The queues of list up to the i-th, and the invariant: the time since the round of each
\* queue began, until the link is free, and what is still to be sent before the round ends
\* (budget) is at most bound.
UpTo(list, i) == {list[j] : j \in 1 .. i}
RoundsWithin(n, list, start, free, budget, bound) ==
    \A i \in 1 .. Len(list) :
        free - start[list[i]] + SumN(n, UpTo(list, i), budget) <= bound

\* The sum of the budgets when one changes.
LEMMA SumSpend ==
    ASSUME NEW n \in Nat, NEW Q \in SUBSET (0 .. n - 1), NEW S \in SUBSET Q, NEW h \in S,
           NEW a \in [Q -> Nat], NEW b \in [Q -> Nat], NEW size \in Nat,
           a[h] = b[h] - size, \A q \in Q : q # h => a[q] = b[q]
    PROVE  SumN(n, S, a) = SumN(n, S, b) - size
<1> DEFINE R == S \ {h}
<1>1. (\A q \in R : a[q] = b[q]) /\ b[h] \in Nat
  OBVIOUS
<1>2. /\ S \in SUBSET (0 .. n - 1) /\ R \in SUBSET (0 .. n - 1)
      /\ \A q \in S : a[q] \in Nat /\ b[q] \in Nat
  BY <1>1
<1>3. SumN(n, R, a) = SumN(n, S, a) - a[h] /\ SumN(n, R, b) = SumN(n, S, b) - b[h]
  <2>1. (\A q \in S : a[q] \in Nat) /\ (\A q \in S : b[q] \in Nat)
    BY <1>2
  <2>2. SumN(n, R, a) = SumN(n, S, a) - a[h]
    BY <1>2, <2>1, SumLeave
  <2>3. SumN(n, R, b) = SumN(n, S, b) - b[h]
    BY <1>2, <2>1, SumLeave
  <2>4. QED
    BY <2>2, <2>3
<1>4. SumN(n, R, a) = SumN(n, R, b)
  <2> HIDE DEF R
  <2>1. QED
    BY <1>1, SumNSame
<1>5. SumN(n, S, a) \in Nat /\ SumN(n, S, b) \in Nat
  BY <1>2, SumNType
<1>6. QED
  BY <1>1, <1>3, <1>4, <1>5

\* The first queue spends.
LEMMA RoundsSpend ==
    ASSUME NEW n \in Nat, NEW Q \in SUBSET (0 .. n - 1), NEW list \in Seq(Q), list # <<>>,
           NEW start \in [Q -> Int], NEW free \in Int, NEW b \in [Q -> Nat], NEW bound \in Int,
           NEW size \in Nat, size <= b[Head(list)],
           RoundsWithin(n, list, start, free, b, bound),
           NEW a \in [Q -> Nat], a[Head(list)] = b[Head(list)] - size,
           \A q \in Q : q # Head(list) => a[q] = b[q]
    PROVE  RoundsWithin(n, list, start, free + size, a, bound)
<1>1. SUFFICES ASSUME NEW i \in 1 .. Len(list)
               PROVE  (free + size) - start[list[i]] + SumN(n, UpTo(list, i), a) <= bound
  BY DEF RoundsWithin
<1> DEFINE h == Head(list)
           S == UpTo(list, i)
<1>2. Len(list) \in Nat /\ h = list[1] /\ h \in Q
  BY LenProperties, HeadTailProperties
<1>3. \A j \in 1 .. i : list[j] \in Q
  <2>1. TAKE j \in 1 .. i
  <2>2. j \in 1 .. Len(list)
    BY <1>2
  <2>3. QED
    BY <2>2, ElementOfSeq
<1>4. S \in SUBSET Q /\ h \in S
  BY <1>2, <1>3 DEF UpTo
<1>5. free - start[list[i]] + SumN(n, S, b) <= bound
  BY DEF RoundsWithin
<1>6. SumN(n, S, a) = SumN(n, S, b) - size
  <2> HIDE DEF S, h
  <2>1. QED
    BY <1>4, SumSpend DEF h
<1>7. SumN(n, S, b) \in Nat
  <2>1. S \in SUBSET (0 .. n - 1) /\ \A q \in S : b[q] \in Nat
    BY <1>4
  <2> HIDE DEF S
  <2>2. QED
    BY <2>1, SumNType
<1>8. list[i] \in Q /\ start[list[i]] \in Int
  <2>1. i \in 1 .. i
    BY <1>2
  <2>2. QED
    BY <1>3, <2>1
<1> HIDE DEF S
<1>9. QED
  BY <1>5, <1>6, <1>7, <1>8 DEF S

\* The turn of the first queue ends, after it has spent some of what it might.
LEMMA RoundsTail ==
    ASSUME NEW n \in Nat, NEW Q \in SUBSET (0 .. n - 1), NEW list \in Seq(Q), list # <<>>,
           IsInjective(list),
           NEW start \in [Q -> Int], NEW free \in Int, NEW b \in [Q -> Nat], NEW bound \in Int,
           NEW size \in Nat, size <= b[Head(list)],
           RoundsWithin(n, list, start, free, b, bound)
    PROVE  RoundsWithin(n, Tail(list), start, free + size, b, bound)
<1> DEFINE h == Head(list)
           t == Tail(list)
<1>1. /\ t \in Seq(Q) /\ Len(t) = Len(list) - 1 /\ Len(list) \in Nat
      /\ \A i \in 1 .. Len(t) : t[i] = list[i + 1]
      /\ h = list[1] /\ h \in Q
  BY HeadTailProperties, LenProperties
<1> HIDE DEF t
<1>2. SUFFICES ASSUME NEW i \in 1 .. Len(t)
               PROVE  (free + size) - start[t[i]] + SumN(n, UpTo(t, i), b) <= bound
  BY DEF RoundsWithin, t
<1> DEFINE S == UpTo(list, i + 1)
           R == UpTo(t, i)
<1>3. i + 1 \in 1 .. Len(list) /\ t[i] = list[i + 1]
  BY <1>1
<1>4. \A j \in 1 .. i + 1 : list[j] \in Q
  <2>1. TAKE j \in 1 .. i + 1
  <2>2. j \in 1 .. Len(list)
    BY <1>3
  <2>3. QED
    BY <2>2, ElementOfSeq
<1>5. S \in SUBSET Q /\ h \in S
  BY <1>1, <1>4 DEF UpTo
<1>6. R = S \ {h}
  <2>1. \A j \in 1 .. i : t[j] = list[j + 1] /\ list[j + 1] # h
    <3>1. TAKE j \in 1 .. i
    <3>2. j \in 1 .. Len(t) /\ j + 1 \in 1 .. Len(list) /\ 1 \in 1 .. Len(list) /\ j + 1 # 1
      BY <1>1, <1>3
    <3>3. list[j + 1] # list[1]
      BY <3>2, LenProperties DEF IsInjective
    <3>4. QED
      BY <1>1, <3>2, <3>3
  <2>2. ASSUME NEW q \in R PROVE q \in S \ {h}
    <3>1. PICK j \in 1 .. i : q = t[j]
      BY <2>2 DEF UpTo
    <3>2. q = list[j + 1] /\ q # h /\ j + 1 \in 1 .. i + 1
      BY <2>1, <3>1
    <3>3. QED
      BY <3>2 DEF UpTo
  <2>3. ASSUME NEW q \in S, q # h PROVE q \in R
    <3>1. PICK j \in 1 .. i + 1 : q = list[j]
      BY DEF UpTo
    <3>2. j # 1
      BY <1>1, <2>3, <3>1
    <3>3. j - 1 \in 1 .. i /\ (j - 1) + 1 = j
      BY <3>2
    <3>4. t[j - 1] = q
      BY <2>1, <3>1, <3>3
    <3>5. QED
      BY <3>3, <3>4 DEF UpTo
  <2> HIDE DEF R, S
  <2>4. QED
    BY <2>2, <2>3
<1>7. free - start[list[i + 1]] + SumN(n, S, b) <= bound
  BY <1>3 DEF RoundsWithin
<1>8. /\ S \in SUBSET (0 .. n - 1) /\ \A q \in S : b[q] \in Nat
      /\ start[t[i]] \in Int
  <2>1. i + 1 \in 1 .. i + 1
    BY <1>3, LenProperties
  <2>2. list[i + 1] \in Q
    BY <1>4, <2>1
  <2>3. QED
    BY <1>3, <1>5, <2>2
<1> HIDE DEF S, R
<1>9. SumN(n, S, b) \in Nat
  BY <1>8, SumNType
<1> HIDE DEF h
<1>10. SumN(n, R, b) = SumN(n, S, b) - b[h]
  BY <1>5, <1>6, <1>8, SumLeave
<1>11. b[h] \in Nat /\ size <= b[h]
  BY <1>1 DEF h
<1>12. QED
  BY <1>3, <1>7, <1>8, <1>9, <1>10, <1>11 DEF R

\* A queue joins at the end, and what those before it may spend does not matter.
LEMMA RoundsAppend ==
    ASSUME NEW n \in Nat, NEW Q \in SUBSET (0 .. n - 1), NEW list \in Seq(Q), NEW e \in Q,
           e \notin Range(list),
           NEW start \in [Q -> Int], NEW free \in Int, NEW b \in [Q -> Nat],
           NEW top \in [Q -> Nat],
           NEW late \in Nat, NEW after \in [Q -> Int], free - after[e] <= late,
           NEW a \in [Q -> Nat], \A q \in Q : a[q] <= top[q],
           \A q \in Q : q # e => a[q] = b[q] /\ after[q] = start[q],
           NEW bound, bound = late + SumN(n, Q, top),
           RoundsWithin(n, list, start, free, b, bound)
    PROVE  RoundsWithin(n, Append(list, e), after, free, a, bound)
<1> DEFINE t == Append(list, e)
           m == Len(list)
<1>1. /\ t \in Seq(Q) /\ Len(t) = m + 1
      /\ \A i \in 1 .. m : t[i] = list[i]
      /\ t[m + 1] = e
  BY AppendProperties
<1>2. m \in Nat /\ DOMAIN list = 1 .. m
  BY LenProperties
<1>3. after[e] \in Int /\ \A q \in Q : a[q] \in Nat /\ top[q] \in Nat
  OBVIOUS
<1>4. SumN(n, Q, top) \in Nat
  BY SumNType
<1>5. \A i \in 1 .. m : list[i] \in Q /\ list[i] # e
  <2>1. TAKE i \in 1 .. m
  <2>2. list[i] \in Q
    BY ElementOfSeq
  <2>3. list[i] \in Range(list)
    BY <1>2 DEF Range
  <2>4. QED
    BY <2>2, <2>3
<1> HIDE DEF t, m
<1>6. ASSUME NEW i \in 1 .. m + 1
      PROVE  free - after[t[i]] + SumN(n, UpTo(t, i), a) <= bound
  <2> DEFINE S == UpTo(t, i)
  <2>1. \A j \in 1 .. i : t[j] \in Q
    <3>1. TAKE j \in 1 .. i
    <3>2. j \in 1 .. Len(t)
      BY <1>1, <1>2
    <3>3. QED
      BY <1>1, <3>2, ElementOfSeq
  <2>2. S \in SUBSET Q /\ S \in SUBSET (0 .. n - 1)
    BY <2>1 DEF UpTo
  <2>3. CASE i = m + 1
    <3>1. free - after[t[i]] <= late /\ after[t[i]] \in Int
      BY <1>1, <1>3, <2>3
    <3> HIDE DEF S
    <3>2. SumN(n, S, a) <= SumN(n, S, top) /\ SumN(n, S, a) \in Nat /\ SumN(n, S, top) \in Nat
      <4>1. \A q \in S : a[q] \in Nat /\ top[q] \in Nat /\ a[q] <= top[q]
        BY <1>3, <2>2
      <4>2. QED
        BY <2>2, <4>1, SumNType, SumNBelow
    <3>3. SumN(n, S, top) <= SumN(n, Q, top)
      BY <2>2, SumNMonotone
    <3> DEFINE x == after[t[i]]
    <3>4. free - x + SumN(n, S, a) <= bound
      <4>1. x \in Int /\ free - x <= late
        BY <3>1
      <4> HIDE DEF x
      <4>2. QED
        BY <1>4, <3>2, <3>3, <4>1
    <3>5. QED
      BY <3>4 DEF S
  <2>4. CASE i # m + 1
    <3>1. i \in 1 .. m
      BY <1>2, <2>4
    <3>2. t[i] = list[i] /\ list[i] # e /\ list[i] \in Q
      BY <1>1, <1>5, <3>1
    <3>3. S = UpTo(list, i)
      <4>1. \A j \in 1 .. i : j \in 1 .. m
        BY <1>2, <3>1
      <4>2. \A j \in 1 .. i : t[j] = list[j]
        BY <1>1, <4>1
      <4>3. QED
        BY <4>2 DEF UpTo
    <3>4. \A q \in S : a[q] = b[q]
      <4>1. \A j \in 1 .. i : j \in 1 .. m
        BY <1>2, <3>1
      <4>2. QED
        BY <1>3, <1>5, <3>3, <4>1 DEF UpTo
    <3>5. SumN(n, S, a) = SumN(n, S, b)
      <4> HIDE DEF S
      <4>1. QED
        BY <3>4, SumNSame
    <3>6. free - start[list[i]] + SumN(n, UpTo(list, i), b) <= bound
      BY <3>1 DEF RoundsWithin, m
    <3>7. after[t[i]] = start[list[i]]
      BY <1>3, <3>2
    <3>8. SumN(n, S, a) = SumN(n, UpTo(list, i), b)
      BY <3>3, <3>5
    <3> HIDE DEF S
    <3>9. QED
      BY <3>6, <3>7, <3>8 DEF S
  <2>5. QED
    BY <2>3, <2>4
<1>7. RoundsWithin(n, t, after, free, a, bound)
  BY <1>1, <1>6 DEF RoundsWithin
<1>8. QED
  BY <1>7 DEF t

\* All rounds begin now.
LEMMA RoundsBegin ==
    ASSUME NEW n \in Nat, NEW Q \in SUBSET (0 .. n - 1), NEW list \in Seq(Q),
           NEW start, NEW then \in Int, \A q \in Q : start[q] = then,
           NEW free \in Int, NEW b \in [Q -> Nat],
           NEW top \in [Q -> Nat], \A q \in Q : b[q] <= top[q],
           NEW late \in Nat, free - then <= late, NEW bound, bound = late + SumN(n, Q, top)
    PROVE  RoundsWithin(n, list, start, free, b, bound)
<1>1. SUFFICES ASSUME NEW i \in 1 .. Len(list)
               PROVE  free - start[list[i]] + SumN(n, UpTo(list, i), b) <= bound
  BY DEF RoundsWithin
<1> DEFINE S == UpTo(list, i)
<1>2. \A j \in 1 .. i : list[j] \in Q
  <2>1. TAKE j \in 1 .. i
  <2>2. j \in 1 .. Len(list)
    BY LenProperties
  <2>3. QED
    BY <2>2, ElementOfSeq
<1>3. start[list[i]] = then
  <2>1. i \in 1 .. i
    BY LenProperties
  <2>2. QED
    BY <1>2, <2>1
<1>4. S \in SUBSET Q /\ S \in SUBSET (0 .. n - 1)
  BY <1>2 DEF UpTo
<1> HIDE DEF S
<1>5. SumN(n, S, b) <= SumN(n, S, top) /\ SumN(n, S, b) \in Nat /\ SumN(n, S, top) \in Nat
  <2>1. \A q \in S : b[q] \in Nat /\ top[q] \in Nat /\ b[q] <= top[q]
    BY <1>4
  <2>2. QED
    BY <1>4, <2>1, SumNType, SumNBelow
<1>6. SumN(n, S, top) <= SumN(n, Q, top) /\ SumN(n, Q, top) \in Nat
  BY <1>4, SumNMonotone, SumNType
<1>7. QED
  BY <1>3, <1>5, <1>6 DEF S

\* What the round of the first queue lasts if it spends size and its turn ends.
LEMMA RoundsHead ==
    ASSUME NEW n \in Nat, NEW Q \in SUBSET (0 .. n - 1), NEW list \in Seq(Q), list # <<>>,
           NEW start \in [Q -> Int], NEW free \in Int, NEW b \in [Q -> Nat], NEW bound \in Int,
           NEW size \in Nat, size <= b[Head(list)],
           RoundsWithin(n, list, start, free, b, bound)
    PROVE  free - start[Head(list)] + size <= bound
<1> DEFINE h == Head(list)
           S == UpTo(list, 1)
<1>1. Len(list) \in Nat /\ h = list[1] /\ h \in Q /\ 1 \in 1 .. Len(list)
  BY LenProperties, HeadTailProperties
<1>2. S = {h}
  BY <1>1 DEF UpTo
<1>3. free - start[h] + SumN(n, S, b) <= bound
  BY <1>1 DEF RoundsWithin
<1>4. S \in SUBSET (0 .. n - 1) /\ h \in S /\ \A q \in S : b[q] \in Nat
  BY <1>1, <1>2
<1> HIDE DEF S
<1>5. SumN(n, S, b) \in Nat /\ b[h] <= SumN(n, S, b)
  BY <1>4, SumNType
<1>6. start[h] \in Int /\ b[h] \in Nat /\ size <= b[h]
  BY <1>1
<1> HIDE DEF h
<1>7. QED
  BY <1>3, <1>5, <1>6 DEF h

\* The budgets of other queues do not matter.
LEMMA RoundsElsewhere ==
    ASSUME NEW n, NEW list, NEW start, NEW free, NEW b, NEW bound, NEW a,
           \A i \in 1 .. Len(list) : a[list[i]] = b[list[i]], Len(list) \in Nat,
           RoundsWithin(n, list, start, free, b, bound)
    PROVE  RoundsWithin(n, list, start, free, a, bound)
<1>1. ASSUME NEW i \in 1 .. Len(list)
      PROVE  SumN(n, UpTo(list, i), a) = SumN(n, UpTo(list, i), b)
  <2> DEFINE S == UpTo(list, i)
  <2>1. \A j \in 1 .. i : j \in 1 .. Len(list)
    OBVIOUS
  <2>2. \A q \in S : a[q] = b[q]
    BY <2>1 DEF UpTo
  <2> HIDE DEF S
  <2>3. SumN(n, S, a) = SumN(n, S, b)
    BY <2>2, SumNSame
  <2>4. QED
    BY <2>3 DEF S
<1>2. QED
  BY <1>1 DEF RoundsWithin
-----------------------------------------------------------------------------
\* The schemes that a script may choose for a class.
SchemeFacts ==
    /\ marking_scheme_ = "gener" => class \in DwrrClasses \cup WfqClasses
    /\ marking_scheme_ = "rr" => class \in {"DWRR", "WRR", "PRIO_DWRR"}
    /\ class = "PRIO_DWRR" => PrioQueues # {}

LEMMA SchemesFit == ASSUME setup \in DOMAIN Setups PROVE SchemeFacts
<1> DEFINE s == Setups[setup]
<1>1. SetupOK(s)
  BY SetupsAssumption
<1>2. Script = s
  BY DEF Script, Scripts
<1>3. /\ s.class \in {"Priority", "DWRR", "WRR", "WFQ", "PRIO_DWRR", "PRIO_WFQ"}
      /\ s.class = "PRIO_DWRR" => s.prio_queue_num_ \in 1 .. s.queue_num_ - 1
      /\ s.queue_num_ \in Nat
      /\ s.marking_scheme_ \in {"queue", "port", "latency", "pie"}
               \cup (IF s.class \in {"DWRR", "WRR", "PRIO_DWRR"} THEN {"rr"} ELSE {})
               \cup (IF s.class \in {"Priority", "WRR"} THEN {} ELSE {"gener"})
  BY <1>1 DEF SetupOK
<1> HIDE DEF s
<1>4. /\ class = s.class /\ marking_scheme_ = s.marking_scheme_
      /\ prio_queue_num_ = s.prio_queue_num_
  BY <1>2 DEF class, marking_scheme_, prio_queue_num_
<1>5. s.marking_scheme_ = "gener" => s.class \notin {"Priority", "WRR"}
  BY <1>3
<1>6. s.marking_scheme_ = "rr" => s.class \in {"DWRR", "WRR", "PRIO_DWRR"}
  BY <1>3
<1>7. class = "PRIO_DWRR" => 0 \in PrioQueues
  BY <1>3, <1>4 DEF PrioQueues
<1>8. QED
  BY <1>3, <1>4, <1>5, <1>6, <1>7 DEF SchemeFacts, DwrrClasses, WfqClasses

\* The link is busy while packets wait, but for a deque that is due, and with one packet.
Busy ==
    /\ link # Idle => link <= now + MaxPkt
    /\ event = "none" /\ link = Idle => \A c \in PortQueues : fifo[c] = <<>>

LEMMA BusyStep ==
    ASSUME Base, Busy, [Next]_vars
    PROVE  Busy'
<1>1. SetupFacts /\ PortType /\ LinkInv /\ SameSetup /\ PortStep
  BY NextFacts, BaseStep DEF Base, PortInv
<1>2. PortQueues' = PortQueues /\ MaxPkt' = MaxPkt /\ MaxPkt \in Nat /\ now \in Nat
  BY <1>1 DEF SameSetup, SetupFacts, PortType
<1>3. link \in Nat \cup {Idle} /\ event \in {"none", "deque"}
  BY <1>1 DEF PortType
<1>4. CASE Arrival \/ (event = "none" /\ Drop)
  <2>1. now' = now /\ link' = link /\ event' = IF link = Idle THEN "deque" ELSE "none"
    BY <1>4 DEF Arrival, Insert, Drop
  <2>2. QED
    BY <1>2, <2>1 DEF Busy, Idle
<1>5. CASE Departure
  <2>1. PICK c \in PortQueues, mark \in BOOLEAN : HighestWaiting(c) /\ Leave(c, mark)
    BY <1>5 DEF Departure
  <2>2. now' = now /\ link' = now + Head(fifo[c]).size
    BY <2>1 DEF Leave, TxTime
  <2>3. fifo[c] \in Seq(Pkts) /\ fifo[c] # <<>>
    BY <1>1, <2>1 DEF PortType, HighestWaiting
  <2>4. Head(fifo[c]) \in Pkts
    BY <2>3, HeadTailProperties
  <2> DEFINE size == Head(fifo[c]).size
  <2>5. size \in Nat \ {0} /\ size <= MaxPkt
    BY <1>1, <2>4, PktFacts
  <2> HIDE DEF size
  <2>6. now + size <= now + MaxPkt /\ now + size # -1
    BY <1>2, <2>5
  <2>7. link' = now + size
    BY <2>2 DEF size
  <2>8. QED
    BY <1>2, <2>2, <2>6, <2>7 DEF Busy, Idle
<1>6. CASE event = "deque" /\ TotalByteLength = 0 /\ ReturnNull
  <2>1. fifo' = fifo /\ now' = now /\ link' = link /\ link = Idle
    BY <1>1, <1>6 DEF ReturnNull, LinkInv
  <2>2. \A c \in PortQueues : fifo[c] = <<>>
    BY <1>1, <1>6, LengthZero DEF TotalByteLength
  <2>3. QED
    BY <1>2, <2>1, <2>2 DEF Busy
<1>7. CASE Resume
  BY <1>2, <1>7 DEF Resume, Busy
<1>8. CASE Tick
  <2>1. now' = now + 1 /\ link' = link /\ event' = event /\ fifo' = fifo
    BY <1>8 DEF Tick
  <2>2. link # Idle => link <= (now + 1) + MaxPkt
    BY <1>2, <1>3 DEF Busy, Idle
  <2>3. QED
    BY <1>2, <2>1, <2>2 DEF Busy
<1>9. CASE UNCHANGED portVars
  BY <1>2, <1>9 DEF portVars, Busy
<1>10. QED
  BY <1>1, <1>4, <1>5, <1>6, <1>7, <1>8, <1>9 DEF PortStep

\* When the link is free does not change while packets wait, but for a departure.
LEMMA LinkFreeStays ==
    ASSUME PortType, Busy, NEW c \in PortQueues, fifo[c] # <<>>,
           Resume \/ Tick \/ UNCHANGED <<now, link>>
    PROVE  LinkFree' = LinkFree
<1>1. now \in Nat /\ Idle \notin Nat
  BY DEF PortType, Idle
<1>2. CASE Resume
  BY <1>1, <1>2 DEF Resume, LinkFree
<1>3. CASE Tick
  <2>1. event = "none" /\ link' = link
    BY <1>3 DEF Tick
  <2>2. link # Idle
    BY <2>1 DEF Busy
  <2>3. QED
    BY <2>1, <2>2 DEF LinkFree
<1>4. CASE UNCHANGED <<now, link>>
  BY <1>4 DEF LinkFree
<1>5. QED
  BY <1>2, <1>3, <1>4
-----------------------------------------------------------------------------
(***************************************************************************)
(* The rounds of DWRR: a queue may spend its deficit and its next quantum. *)
(***************************************************************************)
Budgets == [c \in ShareQueues |-> Deficit(c)]
DwrrTop == [c \in ShareQueues |-> share[c] + MaxPkt - 1]

DwrrRounds ==
    class = "DWRR" /\ ShareChoices = {} =>
        /\ \A c \in ShareQueues : deficitCounter[c] \in Nat /\ Deficit(c) <= DwrrTop[c]
        /\ RoundsWithin(queue_num_, activeList, start_time, LinkFree, Budgets, DwrrLongestRound)
        /\ round_time \in 0 .. DwrrLongestRound * Unit

LEMMA DwrrLongestFacts ==
    ASSUME SetupFacts, ShareType
    PROVE  /\ DwrrTop \in [ShareQueues -> Nat]
           /\ DwrrLongestRound = MaxPkt + SumN(queue_num_, ShareQueues, DwrrTop)
           /\ DwrrLongestRound \in Nat
           /\ \A c \in ShareQueues : share[c] <= DwrrLongestRound
<1>1. /\ MaxPkt \in Nat \ {0} /\ queue_num_ \in Nat
      /\ ShareQueues \in SUBSET (0 .. queue_num_ - 1)
      /\ \A c \in ShareQueues : share[c] \in Nat \ {0}
  BY DEF SetupFacts, ShareType
<1>2. \A c \in ShareQueues : DwrrTop[c] \in Nat /\ share[c] <= DwrrTop[c]
  BY <1>1 DEF DwrrTop
<1>3. DwrrTop \in [ShareQueues -> Nat]
  BY <1>2 DEF DwrrTop
<1>4. DwrrLongestRound = MaxPkt + SumN(queue_num_, ShareQueues, DwrrTop)
  BY SumOverIsSumN DEF DwrrLongestRound, DwrrTop
<1> DEFINE sum == SumN(queue_num_, ShareQueues, DwrrTop)
<1>5. sum \in Nat /\ \A c \in ShareQueues : DwrrTop[c] <= sum
  BY <1>1, <1>2, SumNType
<1> HIDE DEF sum
<1>6. \A c \in ShareQueues : share[c] <= MaxPkt + sum
  BY <1>1, <1>2, <1>5
<1>7. QED
  BY <1>1, <1>3, <1>4, <1>5, <1>6 DEF sum

\* What the round time becomes.
LEMMA DwrrRoundTimeStep ==
    ASSUME class = "DWRR", [Next]_vars
    PROVE  \/ round_time' \in {round_time, IdleRound(EstimateAlpha)}
           \/ Rotate /\ round_time' = Smoothed(Head(activeList), 0)
           \/ DwrrServe /\ round_time' = Smoothed(Head(activeList),
                                                  Head(fifo[Head(activeList)]).size)
<1>1. CASE UNCHANGED vars
  BY <1>1 DEF vars, roundVars
<1>2. CASE DwrrStep
  <2>1. ASSUME NEW prio, NEW size, NEW ect, DwrrEnque(prio, size, ect)
        PROVE  round_time' \in {round_time, IdleRound(EstimateAlpha)}
    BY <2>1 DEF DwrrEnque, DwrrAfterIdle
  <2>2. CASE Rotate
    BY <2>2 DEF Rotate
  <2>3. CASE DwrrServe
    BY <2>3 DEF DwrrServe, DwrrDeactivate
  <2>4. CASE DwrrServeNothing \/ DwrrSetQuantum \/ DwrrTimeout \/ DwrrResume \/ DwrrTick
    BY <2>4 DEF DwrrServeNothing, DwrrSetQuantum, DwrrTimeout, DwrrResume, DwrrTick, roundVars
  <2>5. QED
    BY <1>2, <2>1, <2>2, <2>3, <2>4 DEF DwrrStep, DwrrNext, DwrrDeque
<1>3. QED
  BY <1>1, <1>2 DEF Next, PriorityStep, WrrStep, PrioDwrrStep, WfqStep, PrioWfqStep

\* A smoothed round time is within the bound of its samples, and so is one that decays.
LEMMA SmoothedWithin ==
    ASSUME SetupFacts, NEW longest \in Nat, round_time \in 0 .. longest * Unit,
           NEW h, NEW size, RoundSample(h, size) \in 0 .. longest
    PROVE  Smoothed(h, size) \in 0 .. longest * Unit
<1> DEFINE b == longest * Unit
           s == RoundSample(h, size)
           u == Unit
           sample == s * u
<1>1. u \in Nat /\ s \in Nat /\ s <= longest /\ RoundAlpha \in 0 .. AlphaUnit
  BY DEF SetupFacts
<1> HIDE DEF s, u
<1>2. s * u \in Nat /\ s * u <= longest * u /\ longest * u \in Nat
  BY <1>1, Products
<1>3. b \in Nat /\ sample \in Nat /\ sample <= b
  BY <1>2 DEF u
<1>4. Smoothed(h, size) = Ewma(round_time, sample, RoundAlpha)
  BY DEF Smoothed, s, u
<1>5. round_time \in Nat /\ round_time <= b
  BY <1>3
<1> HIDE DEF b, sample
<1>6. Ewma(round_time, sample, RoundAlpha) \in 0 .. b
  BY <1>1, <1>3, <1>5, EwmaWithin
<1>7. QED
  BY <1>4, <1>6 DEF b

LEMMA IdleRoundWithin ==
    ASSUME SetupFacts, now \in Nat, last_idle_time \in Nat, last_idle_time <= now,
           NEW alpha \in 0 .. AlphaUnit, NEW b \in Nat, round_time \in 0 .. b
    PROVE  IdleRound(alpha) \in 0 .. b
<1>1. IdleInterval \in Nat /\ round_time \in Nat /\ round_time <= b
  BY DEF SetupFacts
<1>2. CASE IdleInterval = 0
  BY <1>2 DEF IdleRound
<1>3. CASE IdleInterval # 0
  <2> DEFINE n == (now - last_idle_time) \div IdleInterval
  <2>1. now - last_idle_time \in Nat /\ IdleInterval \in Nat \ {0}
    BY <1>1, <1>3
  <2>2. n \in Nat
    BY <2>1, QuotientOfNaturals
  <2>3. IdleRound(alpha) = Decay(round_time, alpha, n)
    BY <1>3 DEF IdleRound
  <2> HIDE DEF n
  <2>4. Decay(round_time, alpha, n) \in Nat /\ Decay(round_time, alpha, n) <= round_time
    BY <1>1, <2>2, DecayAtMost
  <2>5. QED
    BY <1>1, <2>3, <2>4
<1>4. QED
  BY <1>2, <1>3

LEMMA ShareStays == ASSUME Base, ShareChoices = {}, [Next]_vars PROVE share' = share
BY NextFacts DEF ShareStep

\* The budgets and the rounds where nothing of the DWRR queues changes.
LEMMA DwrrCalmRounds ==
    ASSUME Base, Busy, class = "DWRR", PortStep, DwrrCalm
    PROVE  activeList = <<>> \/ LinkFree' = LinkFree
<1>1. /\ SetupFacts /\ PortType /\ LinkInv
      /\ activeList \in Seq(ShareQueues) /\ Range(activeList) = Backlogged
      /\ ShareQueues = PortQueues
  BY SetupIsOK DEF Base, PortInv, PortType, DwrrType, ActiveListExact, DwrrClasses, SetupFacts
<1>2. SUFFICES ASSUME activeList # <<>> PROVE LinkFree' = LinkFree
  OBVIOUS
<1> DEFINE h == Head(activeList)
<1>3. h \in PortQueues /\ fifo[h] # <<>>
  <2>1. Len(activeList) \in Nat /\ h = activeList[1] /\ 1 \in DOMAIN activeList
    BY <1>1, <1>2, LenProperties, HeadTailProperties
  <2>2. h \in Range(activeList)
    BY <2>1 DEF Range
  <2>3. QED
    BY <1>1, <2>2 DEF Backlogged
<1> HIDE DEF h
<1>4. CASE \/ Arrival \/ (event = "none" /\ Drop)
           \/ event = "deque" /\ TotalByteLength = 0 /\ ReturnNull
  BY <1>4 DEF Arrival, Insert, Drop, ReturnNull, LinkFree
<1>5. CASE Departure
  <2>1. PICK c \in PortQueues, mark \in BOOLEAN : HighestWaiting(c) /\ Leave(c, mark)
    BY <1>5 DEF Departure
  <2>2. fifo[c] # <<>>
    BY <2>1 DEF HighestWaiting
  <2>3. fifo[c] \in Seq(Pkts) /\ Len(fifo[c]) \in Nat \ {0} /\ fifo'[c] = Tail(fifo[c])
    BY <1>1, <2>1, <2>2, LeaveFacts
  <2>4. fifo'[c] = fifo[c]
    BY <1>1 DEF DwrrCalm, SameFifos
  <2>5. Len(Tail(fifo[c])) = Len(fifo[c]) - 1
    BY <2>2, <2>3, HeadTailProperties
  <2>6. Tail(fifo[c]) = fifo[c]
    BY <2>3, <2>4
  <2>7. Len(fifo[c]) = Len(fifo[c]) - 1
    BY <2>5, <2>6
  <2> DEFINE n == Len(fifo[c])
  <2>8. n \in Nat /\ n = n - 1
    BY <2>3, <2>7
  <2> HIDE DEF n
  <2>9. QED
    BY <2>8
<1>6. CASE Resume \/ Tick \/ UNCHANGED portVars
  BY <1>1, <1>3, <1>6, LinkFreeStays DEF portVars
<1>7. QED
  BY <1>4, <1>5, <1>6 DEF PortStep

\* What a DWRR step does to the budgets and to the rounds.
LEMMA DwrrBudgetsStep ==
    ASSUME Base, Busy, class = "DWRR", ShareChoices = {}, [Next]_vars,
           \A c \in ShareQueues : deficitCounter[c] \in Nat /\ Deficit(c) <= DwrrTop[c]
    PROVE  \A c \in ShareQueues : deficitCounter'[c] \in Nat /\ Deficit(c)' <= DwrrTop[c]
<1>1. /\ SetupFacts /\ PortType /\ ShareType /\ DwrrStepKind
      /\ activeList \in Seq(ShareQueues) /\ Range(activeList) = Backlogged
      /\ deficitCounter \in [ShareQueues -> Int] /\ in_turn \in [ShareQueues -> BOOLEAN]
      /\ share' = share
      /\ MaxPkt \in Nat \ {0}
  BY NextFacts, ShareStays
     DEF Base, PortInv, DwrrType, ActiveListExact, DwrrClasses, SetupFacts
<1>2. \A c \in ShareQueues : share[c] \in Nat \ {0} /\ DwrrTop[c] = share[c] + MaxPkt - 1
  BY <1>1 DEF ShareType, DwrrTop
<1>3. TAKE c \in ShareQueues
<1>4. CASE deficitCounter'[c] = deficitCounter[c] /\ in_turn'[c] = in_turn[c]
  BY <1>1, <1>4 DEF Deficit
<1>5. CASE deficitCounter'[c] = 0 /\ in_turn'[c] = FALSE
  BY <1>1, <1>2, <1>5 DEF Deficit
<1>6. CASE DwrrCalm
  BY <1>4, <1>6 DEF DwrrCalm, dwrrVars
<1>7. ASSUME NEW d \in ShareQueues, DwrrArrival(d)
      PROVE  deficitCounter'[c] \in Nat /\ Deficit(c)' <= DwrrTop[c]
  <2>1. CASE fifo[d] # <<>>
    BY <1>4, <1>7, <2>1 DEF DwrrArrival, dwrrVars
  <2>2. CASE fifo[d] = <<>>
    <3>1. /\ deficitCounter' = [deficitCounter EXCEPT ![d] = 0]
          /\ in_turn' = [in_turn EXCEPT ![d] = FALSE]
      BY <1>7, <2>2 DEF DwrrArrival, DwrrActivate
    <3>2. QED
      BY <1>1, <1>4, <1>5, <3>1
  <2>3. QED
    BY <2>1, <2>2
<1> DEFINE h == Head(activeList)
           size == Head(fifo[h]).size
<1>8. ASSUME DwrrTurn PROVE h \in ShareQueues /\ size \in Nat \ {0} /\ size <= MaxPkt
  <2>1. h \in ShareQueues /\ fifo[h] # <<>>
    BY <1>1, <1>8, DwrrHead
  <2>2. fifo[h] \in Seq(Pkts)
    BY <1>1, <2>1 DEF PortType, SetupFacts
  <2>3. Head(fifo[h]) \in Pkts
    BY <2>1, <2>2, HeadTailProperties
  <2>4. QED
    BY <1>1, <2>1, <2>3, PktFacts
<1>9. \A d \in ShareQueues : Deficit(d) \in Nat /\ Deficit(d) <= share[d] + MaxPkt - 1
  BY <1>1, <1>2 DEF Deficit
<1>10. CASE Rotate
  <2>1. /\ DwrrTurn /\ size > Deficit(h)
        /\ deficitCounter' = [deficitCounter EXCEPT ![h] = Deficit(h)]
        /\ in_turn' = [in_turn EXCEPT ![h] = FALSE]
    BY <1>10 DEF Rotate
  <2>2. h \in ShareQueues /\ size \in Nat \ {0} /\ size <= MaxPkt
    BY <1>8, <2>1
  <2> HIDE DEF h, size
  <2>3. CASE c # h
    BY <1>1, <1>4, <2>1, <2>2, <2>3
  <2>4. CASE c = h
    <3>1. deficitCounter'[c] = Deficit(c) /\ in_turn'[c] = FALSE
      BY <1>1, <2>1, <2>2, <2>4
    <3>2. Deficit(c)' = Deficit(c) + share[c]
      BY <1>1, <3>1 DEF Deficit
    <3>3. Deficit(c) \in Nat /\ Deficit(c) <= MaxPkt - 1
      BY <1>1, <1>9, <2>1, <2>2, <2>4
    <3>4. QED
      BY <1>1, <1>2, <3>1, <3>2, <3>3
  <2>5. QED
    BY <2>3, <2>4
<1>11. CASE DwrrServe
  <2>1. DwrrTurn /\ size <= Deficit(h)
    BY <1>11 DEF DwrrServe
  <2>2. h \in ShareQueues /\ size \in Nat \ {0}
    BY <1>8, <2>1
  <2>3. CASE Len(fifo[h]) = 1
    <3>1. /\ deficitCounter' = [deficitCounter EXCEPT ![h] = 0]
          /\ in_turn' = [in_turn EXCEPT ![h] = FALSE]
      BY <1>11, <2>3 DEF DwrrServe, DwrrDeactivate
    <3>2. QED
      BY <1>1, <1>4, <1>5, <2>2, <3>1
  <2>4. CASE Len(fifo[h]) # 1
    <3>1. /\ deficitCounter' = [deficitCounter EXCEPT ![h] = Deficit(h) - size]
          /\ in_turn' = [in_turn EXCEPT ![h] = TRUE]
      BY <1>11, <2>4 DEF DwrrServe
    <3> HIDE DEF h, size
    <3>2. CASE c # h
      BY <1>1, <1>4, <2>2, <3>1, <3>2
    <3>3. CASE c = h
      <4>1. deficitCounter'[c] = Deficit(c) - size /\ in_turn'[c] = TRUE
        BY <1>1, <2>2, <3>1, <3>3
      <4>2. Deficit(c)' = Deficit(c) - size
        BY <1>1, <1>9, <2>2, <4>1 DEF Deficit
      <4>3. Deficit(c) \in Nat /\ size <= Deficit(c)
        BY <1>9, <2>1, <3>3
      <4> DEFINE x == Deficit(c)
                 y == Deficit(c)'
      <4>4. x \in Nat /\ x <= DwrrTop[c] /\ DwrrTop[c] \in Int /\ size <= x /\ y = x - size
        BY <1>2, <1>1, <1>9, <4>2, <4>3
      <4>5. deficitCounter'[c] = x - size
        BY <4>1
      <4> HIDE DEF x, y
      <4>6. deficitCounter'[c] \in Nat /\ y <= DwrrTop[c]
        BY <2>2, <4>4, <4>5
      <4>7. QED
        BY <4>6 DEF y
    <3>4. QED
      BY <3>2, <3>3
  <2>5. QED
    BY <2>3, <2>4
<1>12. QED
  BY <1>1, <1>6, <1>7, <1>10, <1>11 DEF DwrrStepKind

LEMMA DwrrRoundsStep ==
    ASSUME Base, Busy, DwrrWaits, DwrrRounds, [Next]_vars
    PROVE  DwrrRounds'
<1>1. /\ SetupFacts /\ PortType /\ LinkInv /\ ShareType /\ SameSetup /\ PortStep
      /\ now \in Nat /\ last_idle_time \in Nat /\ last_idle_time <= now
      /\ LinkFree \in Nat /\ now <= LinkFree /\ (event = "deque" => LinkFree = now)
  BY NextFacts, BaseStep, LinkFreeType DEF Base, PortInv, PortType, ShareType
<1>2. SUFFICES ASSUME class = "DWRR", ShareChoices = {} PROVE DwrrRounds'
  BY <1>1 DEF DwrrRounds, SameSetup
<1>3. /\ DwrrStepKind /\ share' = share
      /\ activeList \in Seq(ShareQueues) /\ Range(activeList) = Backlogged
      /\ IsInjective(activeList)
      /\ deficitCounter \in [ShareQueues -> Int] /\ in_turn \in [ShareQueues -> BOOLEAN]
      /\ start_time \in [ShareQueues -> Int] /\ InOrder(activeList, start_time, now)
  BY <1>2, NextFacts, ShareStays DEF Base, DwrrType, ActiveListExact, DwrrClasses, DwrrWaits
<1> DEFINE Q == ShareQueues
           n == queue_num_
           L == DwrrLongestRound
           b == Budgets
           a == Budgets'
           top == DwrrTop
           late == MaxPkt
           h == Head(activeList)
           t == Tail(activeList)
           size == Head(fifo[h]).size
<1>4. /\ \A c \in Q : deficitCounter[c] \in Nat /\ Deficit(c) <= top[c]
      /\ RoundsWithin(n, activeList, start_time, LinkFree, b, L)
      /\ round_time \in 0 .. L * Unit
  BY <1>2 DEF DwrrRounds
<1>5. \A c \in Q : deficitCounter'[c] \in Nat /\ Deficit(c)' <= top[c]
  BY <1>2, <1>4, DwrrBudgetsStep
<1>6. /\ n \in Nat /\ Q \in SUBSET (0 .. n - 1) /\ late \in Nat
      /\ top \in [Q -> Nat] /\ L = late + SumN(n, Q, top) /\ L \in Nat
      /\ \A c \in Q : share[c] \in Nat
  BY <1>1, DwrrLongestFacts DEF SetupFacts, ShareType
<1>7. DwrrTop' = DwrrTop /\ DwrrLongestRound' = DwrrLongestRound /\ Unit' = Unit /\ Q' = Q
  BY <1>1, <1>3 DEF DwrrTop, DwrrLongestRound, SumOver, SameSetup
<1>8. /\ b \in [Q -> Nat] /\ \A c \in Q : b[c] = Deficit(c)
      /\ a \in [Q -> Nat] /\ (\A c \in Q : a[c] = Deficit(c)') /\ (\A c \in Q : a[c] <= top[c])
  <2>1. \A c \in Q : Deficit(c) \in Nat
    BY <1>3, <1>4, <1>6 DEF Deficit
  <2>2. \A c \in Q : Deficit(c)' \in Nat
    BY <1>3, <1>5, <1>6 DEF Deficit
  <2>3. b = [c \in Q |-> Deficit(c)] /\ a = [c \in Q |-> Deficit(c)']
    BY <1>7 DEF Budgets
  <2>4. QED
    BY <1>5, <2>1, <2>2, <2>3
<1>9. ASSUME DwrrTurn
      PROVE  /\ h \in Q /\ activeList # <<>> /\ LinkFree = now
             /\ size \in Nat /\ t \in Seq(Q) /\ h \notin Range(t)
             /\ start_time[h] \in Int /\ start_time[h] <= now
             /\ fifo[h] \in Seq(Pkts) /\ fifo[h] # <<>>
  <2>1. h \in Q /\ activeList # <<>> /\ fifo[h] # <<>>
    BY <1>1, <1>3, <1>9, DwrrHead
  <2>2. fifo[h] \in Seq(Pkts)
    BY <1>1, <2>1 DEF PortType, SetupFacts
  <2>3. Head(fifo[h]) \in Pkts
    BY <2>1, <2>2, HeadTailProperties
  <2>4. size \in Nat
    BY <1>1, <2>3, PktFacts
  <2>5. t \in Seq(Q) /\ Range(t) = Range(activeList) \ {h}
    BY <1>3, <2>1, TailList
  <2>6. LinkFree = now
    BY <1>1, <1>9 DEF DwrrTurn
  <2>7. h = activeList[1] /\ 1 \in DOMAIN activeList
    BY <1>3, <2>1, HeadTailProperties, LenProperties
  <2>8. start_time[h] <= now
    BY <1>3, <2>7 DEF InOrder
  <2>9. QED
    BY <1>3, <2>1, <2>2, <2>4, <2>5, <2>6, <2>8
<1> HIDE DEF Q, n, L, b, a, top, late, h, t, size
<1>10. RoundsWithin(n, activeList', start_time', LinkFree', a, L)
  <2>1. ASSUME UNCHANGED <<dwrrVars, start_time>>, LinkFree' = LinkFree
        PROVE  RoundsWithin(n, activeList', start_time', LinkFree', a, L)
    <3>1. \A c \in Q : a[c] = b[c]
      BY <1>3, <1>8, <2>1 DEF Deficit, dwrrVars
    <3>2. Len(activeList) \in Nat /\ \A i \in 1 .. Len(activeList) : activeList[i] \in Q
      BY <1>3, LenProperties, ElementOfSeq DEF Q
    <3>3. \A i \in 1 .. Len(activeList) : a[activeList[i]] = b[activeList[i]]
      BY <3>1, <3>2
    <3>4. RoundsWithin(n, activeList, start_time, LinkFree, a, L)
      BY <1>4, <3>2, <3>3, RoundsElsewhere
    <3>5. QED
      BY <2>1, <3>4 DEF dwrrVars
  <2>2. CASE DwrrCalm
    <3>1. UNCHANGED <<dwrrVars, start_time>>
      BY <2>2 DEF DwrrCalm
    <3>2. CASE LinkFree' = LinkFree
      BY <2>1, <3>1, <3>2
    <3>3. CASE activeList = <<>>
      BY <3>1, <3>3 DEF RoundsWithin, dwrrVars
    <3>4. QED
      BY <1>1, <1>2, <2>2, <3>2, <3>3, DwrrCalmRounds
  <2>3. ASSUME NEW c \in Q, DwrrArrival(c)
        PROVE  RoundsWithin(n, activeList', start_time', LinkFree', a, L)
    <3>1. LinkFree' = LinkFree
      BY <2>3 DEF DwrrArrival, Insert, LinkFree
    <3>2. CASE fifo[c] # <<>>
      BY <2>1, <2>3, <3>1, <3>2 DEF DwrrArrival
    <3>3. CASE fifo[c] = <<>>
      <4>1. /\ activeList' = Append(activeList, c)
            /\ deficitCounter' = [deficitCounter EXCEPT ![c] = 0]
            /\ in_turn' = [in_turn EXCEPT ![c] = FALSE]
            /\ start_time' = [start_time EXCEPT ![c] = now]
        BY <2>3, <3>3 DEF DwrrArrival, DwrrActivate
      <4>2. c \notin Range(activeList)
        BY <1>3, <3>3 DEF Backlogged
      <4>3. start_time' \in [Q -> Int] /\ start_time'[c] = now
        BY <1>1, <1>3, <2>3, <4>1 DEF Q
      <4>4. \A q \in Q : q # c => a[q] = b[q] /\ start_time'[q] = start_time[q]
        BY <1>3, <1>8, <4>1 DEF Deficit, Q
      <4>5. LinkFree - start_time'[c] <= late
        <5>1. link # Idle => link <= now + MaxPkt
          BY DEF Busy
        <5>2. link \in Nat \cup {Idle}
          BY <1>1 DEF PortType
        <5>3. QED
          BY <1>1, <1>6, <4>3, <5>1, <5>2 DEF LinkFree, late, Idle
      <4>6. activeList \in Seq(Q) /\ start_time \in [Q -> Int] /\ LinkFree \in Int
        BY <1>1, <1>3 DEF Q
      <4>7. RoundsWithin(n, Append(activeList, c), start_time', LinkFree, a, L)
        <5> DEFINE after == start_time'
        <5>1. /\ after \in [Q -> Int] /\ LinkFree - after[c] <= late
              /\ \A q \in Q : q # c => a[q] = b[q] /\ after[q] = start_time[q]
          BY <4>3, <4>4, <4>5
        <5> HIDE DEF after
        <5>2. RoundsWithin(n, Append(activeList, c), after, LinkFree, a, L)
          BY <1>4, <1>6, <1>8, <2>3, <4>2, <4>6, <5>1, RoundsAppend
        <5>3. QED
          BY <5>2 DEF after
      <4>8. QED
        BY <3>1, <4>1, <4>7
    <3>4. QED
      BY <3>2, <3>3
  <2>4. CASE Rotate
    <3>1. /\ DwrrTurn
          /\ deficitCounter' = [deficitCounter EXCEPT ![h] = Deficit(h)]
          /\ in_turn' = [in_turn EXCEPT ![h] = FALSE]
          /\ start_time' = [start_time EXCEPT ![h] = now]
          /\ activeList' = Append(t, h)
          /\ LinkFree' = LinkFree
      BY <2>4 DEF Rotate, h, t, portVars, LinkFree
    <3>2. activeList \in Seq(Q) /\ start_time \in [Q -> Int] /\ LinkFree \in Int /\ L \in Int
      BY <1>1, <1>3, <1>6 DEF Q
    <3>3. h \in Q /\ activeList # <<>> /\ t \in Seq(Q) /\ h \notin Range(t) /\ LinkFree = now
      BY <1>9, <3>1
    <3>4. RoundsWithin(n, t, start_time, LinkFree, b, L)
      <4>1. 0 <= b[Head(activeList)] /\ LinkFree + 0 = LinkFree
        BY <1>8, <3>2, <3>3 DEF h
      <4>2. RoundsWithin(n, Tail(activeList), start_time, LinkFree + 0, b, L)
        BY <1>3, <1>4, <1>6, <1>8, <3>2, <3>3, <4>1, RoundsTail
      <4>3. QED
        BY <4>1, <4>2 DEF t
    <3> DEFINE after == start_time'
    <3>5. /\ after \in [Q -> Int] /\ LinkFree - after[h] <= late
          /\ \A q \in Q : q # h => a[q] = b[q] /\ after[q] = start_time[q]
      <4>1. after \in [Q -> Int] /\ after[h] = now
        BY <1>1, <3>1, <3>2, <3>3
      <4>2. \A q \in Q : q # h => a[q] = b[q] /\ after[q] = start_time[q]
        BY <1>3, <1>8, <3>1, <3>2 DEF Deficit, Q
      <4>3. QED
        BY <1>1, <1>6, <3>3, <4>1, <4>2
    <3> HIDE DEF after
    <3>6. RoundsWithin(n, Append(t, h), after, LinkFree, a, L)
      BY <1>6, <1>8, <3>2, <3>3, <3>4, <3>5, RoundsAppend
    <3>7. QED
      BY <3>1, <3>6 DEF after
  <2>5. CASE DwrrServe
    <3>1. DwrrTurn /\ size <= Deficit(h) /\ start_time' = start_time /\ link' = now + size
      BY <2>5 DEF DwrrServe, Leave, TxTime, h, size
    <3>2. /\ h \in Q /\ activeList # <<>> /\ LinkFree = now /\ size \in Nat
          /\ t \in Seq(Q) /\ h \notin Range(t) /\ fifo[h] \in Seq(Pkts) /\ fifo[h] # <<>>
      BY <1>9, <3>1
    <3>3. LinkFree' = LinkFree + size
      <4>1. now + size # -1
        BY <1>1, <3>2
      <4>2. QED
        BY <3>1, <3>2, <4>1 DEF LinkFree, Idle
    <3>4. activeList \in Seq(Q) /\ start_time \in [Q -> Int] /\ LinkFree \in Int /\ L \in Int
      BY <1>1, <1>3, <1>6 DEF Q
    <3>5. size <= b[Head(activeList)]
      BY <1>8, <3>1, <3>2 DEF h
    <3>6. CASE Len(fifo[h]) = 1
      <4>1. /\ activeList' = t
            /\ deficitCounter' = [deficitCounter EXCEPT ![h] = 0]
            /\ in_turn' = [in_turn EXCEPT ![h] = FALSE]
        BY <2>5, <3>6 DEF DwrrServe, DwrrDeactivate, h, t
      <4>2. RoundsWithin(n, t, start_time, LinkFree + size, b, L)
        BY <1>3, <1>4, <1>6, <1>8, <3>2, <3>4, <3>5, RoundsTail DEF t
      <4>3. \A q \in Q : q # h => a[q] = b[q]
        BY <1>3, <1>8, <4>1 DEF Deficit, Q
      <4>4. Len(t) \in Nat /\ \A i \in 1 .. Len(t) : t[i] \in Q /\ t[i] # h
        <5>1. Len(t) \in Nat /\ DOMAIN t = 1 .. Len(t) /\ \A i \in 1 .. Len(t) : t[i] \in Q
          BY <3>2, LenProperties, ElementOfSeq
        <5>2. QED
          BY <3>2, <5>1 DEF Range
      <4>5. \A i \in 1 .. Len(t) : a[t[i]] = b[t[i]]
        BY <4>3, <4>4
      <4>6. RoundsWithin(n, t, start_time, LinkFree + size, a, L)
        BY <4>2, <4>4, <4>5, RoundsElsewhere
      <4>7. QED
        BY <3>1, <3>3, <4>1, <4>6
    <3>7. CASE Len(fifo[h]) # 1
      <4>1. /\ activeList' = activeList
            /\ deficitCounter' = [deficitCounter EXCEPT ![h] = Deficit(h) - size]
            /\ in_turn' = [in_turn EXCEPT ![h] = TRUE]
        BY <2>5, <3>7 DEF DwrrServe, h, size
      <4>2. \A q \in Q : q # h => a[q] = b[q]
        BY <1>3, <1>8, <4>1 DEF Deficit, Q
      <4>3. a[h] = b[h] - size
        <5>1. SUFFICES ASSUME NEW c \in Q, c = h PROVE a[c] = b[c] - size
          BY <3>2
        <5>2. deficitCounter'[c] = Deficit(c) - size /\ in_turn'[c] = TRUE
          BY <1>3, <4>1, <5>1 DEF Q
        <5>3. deficitCounter'[c] \in Nat /\ Deficit(c)' = deficitCounter'[c] + 0
          BY <1>5, <5>2 DEF Deficit
        <5>4. Deficit(c)' = deficitCounter'[c]
          BY <5>3
        <5>5. QED
          BY <1>8, <5>2, <5>4
      <4>4. RoundsWithin(n, activeList, start_time, LinkFree + size, a, L)
        BY <1>4, <1>6, <1>8, <3>2, <3>4, <3>5, <4>2, <4>3, RoundsSpend DEF h
      <4>5. QED
        BY <3>1, <3>3, <4>1, <4>4
    <3>8. QED
      BY <3>6, <3>7
  <2>6. QED
    BY <1>3, <2>2, <2>3, <2>4, <2>5 DEF DwrrStepKind, Q
<1>11. round_time' \in 0 .. L * Unit
  <2>1. ASSUME DwrrTurn, NEW spent \in Nat, spent <= b[h]
        PROVE  Smoothed(h, spent) \in 0 .. L * Unit
    <3>1. /\ h \in Q /\ activeList # <<>> /\ LinkFree = now
          /\ start_time[h] \in Int /\ start_time[h] <= now
      BY <1>9, <2>1
    <3>2. LinkFree - start_time[h] + spent <= L
      <4>1. spent <= b[Head(activeList)]
        BY <2>1 DEF h
      <4>2. activeList \in Seq(Q) /\ start_time \in [Q -> Int] /\ LinkFree \in Int /\ L \in Int
        BY <1>1, <1>3, <1>6 DEF Q
      <4>3. QED
        BY <1>4, <1>6, <1>8, <3>1, <4>1, <4>2, RoundsHead DEF h
    <3>3. RoundSample(h, spent) \in 0 .. L
      BY <1>1, <1>6, <3>1, <3>2 DEF RoundSample, TxTime
    <3>4. QED
      BY <1>1, <1>4, <1>6, <3>3, SmoothedWithin
  <2>2. CASE round_time' \in {round_time, IdleRound(EstimateAlpha)}
    <3>1. L * Unit \in Nat /\ EstimateAlpha \in 0 .. AlphaUnit
      BY <1>1, <1>6, Products DEF SetupFacts
    <3>2. IdleRound(EstimateAlpha) \in 0 .. L * Unit
      BY <1>1, <1>4, <3>1, IdleRoundWithin
    <3>3. QED
      BY <1>4, <2>2, <3>2
  <2>3. CASE Rotate /\ round_time' = Smoothed(h, 0)
    <3>1. DwrrTurn
      BY <2>3 DEF Rotate
    <3>2. 0 <= b[h]
      BY <1>8, <1>9, <3>1
    <3>3. QED
      BY <2>1, <2>3, <3>1, <3>2
  <2>4. CASE DwrrServe /\ round_time' = Smoothed(h, size)
    <3>1. DwrrTurn /\ size <= Deficit(h)
      BY <2>4 DEF DwrrServe, h, size
    <3>2. size \in Nat /\ size <= b[h]
      BY <1>8, <1>9, <3>1
    <3>3. QED
      BY <2>1, <2>4, <3>1, <3>2
  <2>5. QED
    BY <1>2, <2>2, <2>3, <2>4, DwrrRoundTimeStep DEF h, size
<1>12. QED
  BY <1>1, <1>5, <1>7, <1>10, <1>11 DEF DwrrRounds, Q, n, L, a, top, SameSetup
-----------------------------------------------------------------------------
(***************************************************************************)
(* The rounds of WRR: the list is that of all queues, in their order, and a *)
(* queue may spend what is left of its quantum, or its next one.           *)
(***************************************************************************)
LEMMA OrderSequence ==
    ASSUME NEW n \in Nat \ {0}, NEW cur \in 0 .. n - 1
    PROVE  /\ OrderFrom(n, cur) \in Seq(0 .. n - 1) /\ OrderFrom(n, cur) # <<>>
           /\ IsInjective(OrderFrom(n, cur)) /\ Head(OrderFrom(n, cur)) = cur
<1> DEFINE s == OrderFrom(n, cur)
<1>1. \A i \in 1 .. n : s[i] \in 0 .. n - 1
  BY OrderFacts
<1>2. s = [i \in 1 .. n |-> (cur + i - 1) % n]
  BY DEF OrderFrom
<1>3. s \in [1 .. n -> 0 .. n - 1]
  <2>1. \A i \in 1 .. n : (cur + i - 1) % n \in 0 .. n - 1
    BY <1>1, <1>2
  <2>2. QED
    BY <1>2, <2>1
<1>4. \A i \in 1 .. n : s[i] = IF cur + i - 1 < n THEN cur + i - 1 ELSE cur + i - 1 - n
  <2>1. TAKE i \in 1 .. n
  <2> DEFINE k == cur + i - 1
  <2>2. s[i] = k % n /\ k \in 0 .. 2 * n - 1
    BY DEF OrderFrom
  <2> HIDE DEF k
  <2>3. k % n = IF k < n THEN k ELSE k - n
    BY <2>2, WrapOnce
  <2>4. QED
    BY <2>2, <2>3 DEF k
<1>5. s[1] = cur
  BY OrderFacts
<1> HIDE DEF s
<1>6. DOMAIN s = 1 .. n
  BY <1>3
<1>7. s \in Seq(0 .. n - 1) /\ Len(s) = n
  BY <1>3, SeqDef, LenProperties
<1>8. IsInjective(s)
  <2>1. ASSUME NEW i \in 1 .. n, NEW j \in 1 .. n, s[i] = s[j] PROVE i = j
    BY <1>4, <2>1
  <2>2. QED
    BY <1>6, <2>1 DEF IsInjective
<1>9. s # <<>>
  BY <1>7
<1>10. Head(s) = cur
  BY <1>5, <1>7, <1>9, HeadTailProperties
<1>11. QED
  BY <1>7, <1>8, <1>9, <1>10 DEF s

LEMMA OrderTurn ==
    ASSUME NEW n \in Nat \ {0}, NEW cur \in 0 .. n - 1
    PROVE  /\ OrderFrom(n, (cur + 1) % n) = Append(Tail(OrderFrom(n, cur)), cur)
           /\ Tail(OrderFrom(n, cur)) \in Seq(0 .. n - 1)
           /\ cur \notin Range(Tail(OrderFrom(n, cur)))
<1> DEFINE s == OrderFrom(n, cur)
           next == (cur + 1) % n
           o == OrderFrom(n, next)
           t == Tail(s)
           S == 0 .. n - 1
<1>1. s \in Seq(S) /\ s # <<>> /\ IsInjective(s) /\ Head(s) = cur
  BY OrderSequence
<1>2. next \in S /\ DOMAIN s = 1 .. n
  BY OrderFacts
<1>3. o \in Seq(S) /\ DOMAIN o = 1 .. n
  <2> HIDE DEF next
  <2>1. QED
    BY <1>2, OrderSequence, OrderFacts
<1>4. \A i \in 1 .. n : o[i] = IF i = n THEN cur ELSE s[i + 1]
  BY OrderFacts
<1> HIDE DEF s, next, o, S
<1>5. t \in Seq(S) /\ Range(t) = Range(s) \ {cur}
  BY <1>1, TailList
<1>6. Len(s) = n /\ Len(o) = n
  BY <1>1, <1>2, <1>3, LenProperties
<1>7. Len(t) = n - 1 /\ \A i \in 1 .. n - 1 : t[i] = s[i + 1]
  BY <1>1, <1>6, HeadTailProperties
<1> HIDE DEF t
<1> DEFINE p == Append(t, cur)
<1>8. cur \in S
  BY DEF S
<1>9. /\ p \in Seq(S) /\ Len(p) = n /\ p[n] = cur
      /\ \A i \in 1 .. n - 1 : p[i] = t[i]
  BY <1>5, <1>7, <1>8, AppendProperties
<1> HIDE DEF p
<1>10. \A i \in 1 .. n : o[i] = p[i]
  <2>1. TAKE i \in 1 .. n
  <2>2. CASE i = n
    BY <1>4, <1>9, <2>2
  <2>3. CASE i # n
    <3>1. i \in 1 .. n - 1
      BY <2>3
    <3>2. QED
      BY <1>4, <1>7, <1>9, <2>3, <3>1
  <2>4. QED
    BY <2>2, <2>3
<1>11. o = p
  BY <1>3, <1>6, <1>9, <1>10, SeqEqual
<1>12. QED
  BY <1>5, <1>11 DEF p, o, next, S, s, t

\* The turn of queue cur ends, after it has spent size, and its next round begins.
LEMMA RoundsTurn ==
    ASSUME NEW n \in Nat \ {0}, NEW cur \in 0 .. n - 1,
           NEW start \in [0 .. n - 1 -> Int], NEW free \in Int, NEW b \in [0 .. n - 1 -> Nat],
           NEW top \in [0 .. n - 1 -> Nat], NEW late \in Nat,
           NEW bound \in Int, bound = late + SumN(n, 0 .. n - 1, top),
           NEW size \in Nat, size <= b[cur],
           RoundsWithin(n, OrderFrom(n, cur), start, free, b, bound),
           NEW after \in [0 .. n - 1 -> Int], (free + size) - after[cur] <= late,
           NEW a \in [0 .. n - 1 -> Nat], \A q \in 0 .. n - 1 : a[q] <= top[q],
           \A q \in 0 .. n - 1 : q # cur => a[q] = b[q] /\ after[q] = start[q]
    PROVE  RoundsWithin(n, OrderFrom(n, (cur + 1) % n), after, free + size, a, bound)
<1> DEFINE Q == 0 .. n - 1
           list == OrderFrom(n, cur)
           t == Tail(list)
           then == free + size
<1>1. list \in Seq(Q) /\ list # <<>> /\ IsInjective(list) /\ Head(list) = cur
  BY OrderSequence
<1>2. OrderFrom(n, (cur + 1) % n) = Append(t, cur) /\ t \in Seq(Q) /\ cur \notin Range(t)
  BY OrderTurn
<1>3. /\ n \in Nat /\ Q \in SUBSET (0 .. n - 1) /\ cur \in Q /\ then \in Int
      /\ start \in [Q -> Int] /\ b \in [Q -> Nat] /\ top \in [Q -> Nat]
      /\ after \in [Q -> Int] /\ a \in [Q -> Nat]
      /\ then - after[cur] <= late /\ size <= b[Head(list)]
      /\ bound = late + SumN(n, Q, top)
  <2>1. cur \in Q /\ Q \in SUBSET (0 .. n - 1) /\ then \in Int /\ then - after[cur] <= late
    OBVIOUS
  <2>2. size <= b[Head(list)]
    BY <1>1
  <2>3. bound = late + SumN(n, Q, top)
    OBVIOUS
  <2> HIDE DEF list, then
  <2>4. QED
    BY <2>1, <2>2, <2>3
<1>4. /\ \A q \in Q : a[q] <= top[q]
      /\ \A q \in Q : q # cur => a[q] = b[q] /\ after[q] = start[q]
  OBVIOUS
<1>5. RoundsWithin(n, list, start, free, b, bound)
  OBVIOUS
<1> HIDE DEF Q, list
<1>6. RoundsWithin(n, Tail(list), start, free + size, b, bound)
  BY <1>1, <1>3, <1>5, RoundsTail
<1>7. RoundsWithin(n, t, start, then, b, bound)
  BY <1>6
<1> HIDE DEF t, then
<1>8. RoundsWithin(n, Append(t, cur), after, then, a, bound)
  BY <1>2, <1>3, <1>4, <1>7, RoundsAppend
<1>9. QED
  BY <1>2, <1>8 DEF then

WrrBudgets == [c \in ShareQueues |-> IF counter_updated[c] THEN counter[c] ELSE share[c]]
Waiting == \E c \in PortQueues : fifo[c] # <<>>

WrrRounds ==
    class = "WRR" /\ ShareChoices = {} =>
        /\ counter \in [PortQueues -> Int] /\ counter_updated \in [PortQueues -> BOOLEAN]
        /\ \A c \in PortQueues : WrrBudgets[c] \in 0 .. share[c]
        /\ Waiting => RoundsWithin(queue_num_, OrderFrom(queue_num_, current), start_time,
                                   LinkFree, WrrBudgets, WrrLongestRound)
        /\ round_time \in 0 .. WrrLongestRound * Unit

\* The steps of WRR, as far as the rounds are concerned.
WrrJoin(c, size, ect, mark) ==
    /\ event = "none" /\ WrrAfterIdle /\ Insert(c, size, ect, mark) /\ UNCHANGED wrrVars
    /\ mark <=> WrrMark(c, ByteLength(c) + size, TotalByteLength + size)
WrrDrop  == event = "none" /\ WrrAfterIdle /\ Drop /\ UNCHANGED wrrVars
WrrQuiet == /\ Resume \/ Tick \/ UNCHANGED <<now, link>>
            /\ UNCHANGED <<fifo, roundVars, wrrVars>>

LEMMA WrrRoundKinds ==
    ASSUME SetupFacts, class = "WRR", ShareChoices = {}, [Next]_vars
    PROVE  \/ \E c \in PortQueues, size \in PktSizes, ect \in BOOLEAN, mark \in BOOLEAN :
                  WrrJoin(c, size, ect, mark)
           \/ WrrDrop \/ WrrQuiet \/ PassEmpty \/ PassSpent \/ WrrServe
<1> DEFINE Joins == \E c \in PortQueues, size \in PktSizes, ect \in BOOLEAN, mark \in BOOLEAN :
                        WrrJoin(c, size, ect, mark)
<1>1. ASSUME NEW prio, NEW size \in PktSizes, NEW ect \in PktEcts, WrrEnque(prio, size, ect)
      PROVE  Joins \/ WrrDrop
  <2> DEFINE c == QueueOf(prio)
             mark == WrrMark(c, ByteLength(c) + size, TotalByteLength + size)
  <2>1. c \in PortQueues /\ mark \in BOOLEAN /\ ect \in BOOLEAN
    BY WrrMarkType, QueueOfType DEF SetupFacts
  <2>2. /\ event = "none" /\ WrrAfterIdle /\ UNCHANGED wrrVars
        /\ Drop \/ Insert(c, size, ect, mark)
    BY <1>1 DEF WrrEnque
  <2>3. CASE Drop
    BY <2>2, <2>3 DEF WrrDrop
  <2>4. CASE Insert(c, size, ect, mark)
    <3>1. WrrJoin(c, size, ect, mark)
      BY <2>2, <2>4 DEF WrrJoin
    <3> HIDE DEF c, mark
    <3>2. QED
      BY <2>1, <3>1
  <2>5. QED
    BY <2>2, <2>3, <2>4
<1>2. CASE WrrServeNothing
  BY <1>2 DEF WrrServeNothing, ReturnNull, WrrQuiet
<1>3. CASE WrrSetQuantum
  BY <1>3 DEF WrrSetQuantum
<1>4. CASE WrrResume \/ WrrTick
  BY <1>4 DEF WrrResume, WrrTick, Resume, Tick, WrrQuiet
<1>5. CASE UNCHANGED vars
  BY <1>5 DEF vars, portVars, WrrQuiet
<1>6. CASE WrrStep
  BY <1>1, <1>2, <1>3, <1>4, <1>6 DEF WrrStep, WrrNext, WrrDeque
<1>7. QED
  BY <1>5, <1>6 DEF Next, PriorityStep, DwrrStep, PrioDwrrStep, WfqStep, PrioWfqStep

\* What the counters become.
LEMMA WrrCounterTypes ==
    ASSUME SetupFacts, ShareType, class = "WRR", ShareChoices = {}, share' = share,
           PortType, SameSetup, current \in PortQueues, [Next]_vars,
           counter \in [PortQueues -> Int], counter_updated \in [PortQueues -> BOOLEAN],
           \A c \in PortQueues : WrrBudgets[c] \in 0 .. share[c]
    PROVE  /\ counter' \in [PortQueues -> Int] /\ counter_updated' \in [PortQueues -> BOOLEAN]
           /\ \A c \in PortQueues : WrrBudgets'[c] \in 0 .. share[c]
<1>1. /\ ShareQueues = PortQueues /\ ShareQueues' = PortQueues
      /\ \A c \in PortQueues : share[c] \in Nat
  BY DEF SetupFacts, ShareType, SameSetup
<1> DEFINE size == Head(fifo[current]).size
           B(c) == IF counter_updated[c] THEN counter[c] ELSE share[c]
           A(c) == IF counter_updated'[c] THEN counter'[c] ELSE share[c]
<1>2. \A c \in PortQueues : WrrBudgets[c] = B(c) /\ WrrBudgets'[c] = A(c)
  BY <1>1 DEF WrrBudgets
<1>3. Counter = B(current) /\ Counter \in Int /\ Counter <= share[current]
  BY <1>1, <1>2 DEF Counter
<1>4. CASE UNCHANGED wrrVars
  BY <1>1, <1>2, <1>4 DEF wrrVars
<1>5. CASE PassEmpty \/ PassSpent
  <2>1. /\ counter_updated' = [counter_updated EXCEPT ![current] = FALSE]
        /\ counter' = counter \/ counter' = [counter EXCEPT ![current] = Counter]
    BY <1>5 DEF PassEmpty, PassSpent, NextQueue
  <2>2. counter' \in [PortQueues -> Int] /\ counter_updated' \in [PortQueues -> BOOLEAN]
    BY <1>3, <2>1
  <2>3. \A c \in PortQueues : A(c) = IF c = current THEN share[c] ELSE B(c)
    BY <2>1
  <2>4. QED
    BY <1>1, <1>2, <2>2, <2>3
<1>6. CASE WrrServe
  <2>1. /\ counter' = [counter EXCEPT ![current] = Counter - size]
        /\ \/ counter_updated' = [counter_updated EXCEPT ![current] = FALSE]
           \/ counter_updated' = [counter_updated EXCEPT ![current] = TRUE]
        /\ size <= Counter /\ fifo[current] # <<>>
    BY <1>6 DEF WrrServe, NextQueue
  <2>2. fifo[current] \in Seq(Pkts)
    BY DEF PortType
  <2>3. Head(fifo[current]) \in Pkts
    BY <2>1, <2>2, HeadTailProperties
  <2>4. size \in Nat
    BY <2>3, PktFacts
  <2> HIDE DEF size
  <2>5. Counter - size \in 0 .. share[current]
    BY <1>1, <1>3, <2>1, <2>4
  <2>6. counter' \in [PortQueues -> Int] /\ counter_updated' \in [PortQueues -> BOOLEAN]
    <3> DEFINE left == Counter - size
    <3>1. left \in Int
      BY <1>3, <2>4
    <3> HIDE DEF left
    <3>2. counter' = [counter EXCEPT ![current] = left]
      BY <2>1 DEF left
    <3>3. QED
      BY <2>1, <3>1, <3>2
  <2>7. \A c \in PortQueues :
            A(c) \in {B(c), share[c]} \/ (c = current /\ A(c) = Counter - size)
    BY <2>1
  <2>8. QED
    BY <1>1, <1>2, <2>5, <2>6, <2>7
<1>7. QED
  BY <1>4, <1>5, <1>6, WrrRoundKinds DEF WrrJoin, WrrDrop, WrrQuiet

\* What the round time becomes.
LEMMA WrrRoundTimeStep ==
    ASSUME SetupFacts, class = "WRR", ShareChoices = {}, [Next]_vars
    PROVE  \/ round_time' \in {round_time, IdleRound(RoundAlpha)}
           \/ PassSpent /\ round_time' = Smoothed(current, 0)
           \/ WrrServe /\ round_time' = Smoothed(current, Head(fifo[current]).size)
BY WrrRoundKinds DEF WrrJoin, WrrDrop, WrrQuiet, WrrAfterIdle, PassEmpty, PassSpent, WrrServe,
   roundVars

LEMMA WrrLongestFacts ==
    ASSUME SetupFacts, ShareType
    PROVE  /\ WrrLongestRound = MaxPkt + TotalN /\ WrrLongestRound \in Nat /\ MaxPkt \in Nat
           /\ \A c \in ShareQueues : share[c] <= WrrLongestRound
<1>1. /\ TotalN \in Nat /\ TotalShare = TotalN
      /\ \A c \in ShareQueues : share[c] \in Nat \ {0} /\ share[c] <= TotalN
  BY TotalFacts
<1>2. MaxPkt \in Nat
  BY DEF SetupFacts
<1>3. QED
  BY <1>1, <1>2 DEF WrrLongestRound

LEMMA WrrRoundsStep ==
    ASSUME Base, Busy, WrrWaits, WrrRounds, [Next]_vars
    PROVE  WrrRounds'
<1>1. /\ SetupFacts /\ PortType /\ LinkInv /\ ShareType /\ SameSetup
      /\ now \in Nat /\ last_idle_time \in Nat /\ last_idle_time <= now
      /\ LinkFree \in Nat /\ now <= LinkFree /\ (event = "deque" => LinkFree = now)
  BY NextFacts, BaseStep, LinkFreeType DEF Base, PortInv, PortType, ShareType
<1>2. SUFFICES ASSUME class = "WRR", ShareChoices = {} PROVE WrrRounds'
  BY <1>1 DEF WrrRounds, SameSetup
<1>3. /\ share' = share /\ current \in PortQueues /\ start_time \in [PortQueues -> Int]
      /\ start_time' \in [PortQueues -> Int] /\ current' \in PortQueues
      /\ InOrder(OrderFrom(queue_num_, current), start_time, LinkFree)
      /\ ShareQueues = PortQueues /\ PortQueues = 0 .. queue_num_ - 1
      /\ queue_num_ \in Nat \ {0}
  BY <1>1, <1>2, ShareStays, BaseStep DEF Base, WrrType, WrrWaits, SetupFacts, SameSetup
<1> DEFINE n == queue_num_
           Q == 0 .. n - 1
           L == WrrLongestRound
           b == WrrBudgets
           a == WrrBudgets'
           cur == current
           list == OrderFrom(n, cur)
           start == start_time
           after == start_time'
           free == LinkFree
           top == share
           late == MaxPkt
           size == Head(fifo[cur]).size
<1>4. /\ counter \in [PortQueues -> Int] /\ counter_updated \in [PortQueues -> BOOLEAN]
      /\ \A c \in PortQueues : b[c] \in 0 .. share[c]
      /\ Waiting => RoundsWithin(n, list, start, free, b, L)
      /\ round_time \in 0 .. L * Unit
  BY <1>2 DEF WrrRounds
<1>5. /\ counter' \in [PortQueues -> Int] /\ counter_updated' \in [PortQueues -> BOOLEAN]
      /\ \A c \in PortQueues : a[c] \in 0 .. share[c]
  BY <1>1, <1>2, <1>3, <1>4, WrrCounterTypes
<1>6. WrrLongestRound' = WrrLongestRound /\ Unit' = Unit
  BY <1>1, <1>3 DEF WrrLongestRound, TotalShare, SumOfShares, SumOver, SameSetup
<1>7. /\ n \in Nat \ {0} /\ cur \in Q /\ start \in [Q -> Int] /\ after \in [Q -> Int]
      /\ free \in Int /\ late \in Nat /\ top \in [Q -> Nat]
      /\ L \in Nat /\ L = late + SumN(n, Q, top)
  <2>1. Q = PortQueues /\ ShareQueues = Q
    BY <1>3
  <2>2. share \in [ShareQueues -> Nat]
    BY <1>1 DEF ShareType
  <2>3. L \in Nat /\ late \in Nat /\ L = late + SumN(n, ShareQueues, top)
    BY <1>1, WrrLongestFacts DEF TotalN
  <2>4. L = late + SumN(n, Q, top) /\ top \in [Q -> Nat]
    BY <2>1, <2>2, <2>3
  <2>5. /\ cur \in Q /\ start \in [Q -> Int] /\ after \in [Q -> Int]
        /\ n \in Nat \ {0} /\ free \in Int
    BY <1>1, <1>3, <2>1
  <2> HIDE DEF Q, n, L, late, top, cur, start, after, free
  <2>6. QED
    BY <2>3, <2>4, <2>5
<1>8. /\ b \in [Q -> Nat] /\ a \in [Q -> Nat]
      /\ (\A q \in Q : b[q] <= top[q]) /\ (\A q \in Q : a[q] <= top[q])
  <2>1. \A q \in Q : top[q] \in Nat
    BY <1>7
  <2>2. /\ \A q \in Q : b[q] \in Nat /\ b[q] <= top[q]
        /\ \A q \in Q : a[q] \in Nat /\ a[q] <= top[q]
    <3>1. Q = PortQueues
      BY <1>3
    <3> HIDE DEF Q, a, b
    <3>2. (\A q \in Q : b[q] \in 0 .. top[q]) /\ (\A q \in Q : a[q] \in 0 .. top[q])
      BY <1>4, <1>5, <3>1
    <3>3. QED
      BY <2>1, <3>2
  <2>3. b = [q \in Q |-> b[q]] /\ a = [q \in Q |-> a[q]]
    BY <1>1, <1>3 DEF WrrBudgets, SameSetup
  <2> HIDE DEF a, b
  <2>4. QED
    BY <2>2, <2>3
<1>9. /\ b = [q \in Q |-> IF counter_updated[q] THEN counter[q] ELSE share[q]]
      /\ a = [q \in Q |-> IF counter_updated'[q] THEN counter'[q] ELSE share[q]]
  BY <1>1, <1>3 DEF WrrBudgets, SameSetup
<1>10. ASSUME fifo[cur] # <<>>
       PROVE  /\ Waiting /\ fifo[cur] \in Seq(Pkts) /\ size \in Nat \ {0}
  <2>1. fifo[cur] \in Seq(Pkts)
    BY <1>1, <1>3 DEF PortType
  <2>2. Head(fifo[cur]) \in Pkts
    BY <1>10, <2>1, HeadTailProperties
  <2>3. size \in Nat \ {0}
    BY <1>1, <2>2, PktFacts
  <2>4. QED
    BY <1>3, <1>10, <2>1, <2>3 DEF Waiting
<1>11. Counter = b[cur]
  BY <1>3, <1>9 DEF Counter
<1>12. start[cur] \in Int /\ start[cur] <= free
  <2>1. 1 \in DOMAIN list /\ list[1] = cur
    <3>1. n \in Nat \ {0} /\ cur \in 0 .. n - 1 /\ 1 \in 1 .. n
      BY <1>7
    <3> HIDE DEF n, cur
    <3>2. QED
      BY <3>1, OrderFacts
  <2>2. start[list[1]] <= free
    BY <1>3, <2>1 DEF InOrder
  <2>3. QED
    BY <1>7, <2>1, <2>2
<1>13. list \in Seq(Q) /\ list # <<>> /\ Head(list) = cur
  BY <1>3, OrderSequence
<1>14. FoundEmpty <=> ~Waiting
  BY <1>1, <1>3, LengthZero DEF FoundEmpty, Waiting
<1>15. TotalByteLength > 0 => Waiting
  BY <1>1, LengthZero DEF TotalByteLength, Waiting
<1> HIDE DEF n, Q, L, b, a, cur, list, start, after, free, top, late, size
<1>16. ASSUME Waiting'
       PROVE  RoundsWithin(n, OrderFrom(n, current'), start_time', LinkFree', a, L)
  <2>1. ASSUME UNCHANGED <<wrrVars, start_time>>, LinkFree' = free, Waiting
        PROVE  RoundsWithin(n, OrderFrom(n, current'), start_time', LinkFree', a, L)
    <3>1. a = b /\ current' = cur /\ start_time' = start
      BY <1>9, <2>1 DEF wrrVars, cur, start
    <3>2. RoundsWithin(n, list, start, free, b, L)
      BY <1>4, <2>1
    <3>3. QED
      BY <2>1, <3>1, <3>2 DEF list
  <2>2. CASE WrrDrop
    <3>1. fifo' = fifo /\ LinkFree' = free /\ UNCHANGED wrrVars /\ WrrAfterIdle
      BY <2>2 DEF WrrDrop, Drop, LinkFree, free
    <3>2. Waiting
      BY <1>1, <1>16, <3>1 DEF Waiting, SameSetup
    <3>3. start_time' = start_time
      BY <1>14, <3>1, <3>2 DEF WrrAfterIdle
    <3>4. QED
      BY <2>1, <3>1, <3>2, <3>3
  <2>3. ASSUME NEW c \in PortQueues, NEW bytes \in PktSizes, NEW ect \in BOOLEAN,
               NEW mark \in BOOLEAN, WrrJoin(c, bytes, ect, mark)
        PROVE  RoundsWithin(n, OrderFrom(n, current'), start_time', LinkFree', a, L)
    <3>1. LinkFree' = free /\ UNCHANGED wrrVars /\ WrrAfterIdle
      BY <2>3 DEF WrrJoin, Insert, LinkFree, free
    <3>2. CASE Waiting
      <4>1. start_time' = start_time
        BY <1>14, <3>1, <3>2 DEF WrrAfterIdle
      <4>2. QED
        BY <2>1, <3>1, <3>2, <4>1
    <3>3. CASE ~Waiting
      <4>1. start_time' = [q \in PortQueues |-> now]
        BY <1>14, <3>1, <3>3 DEF WrrAfterIdle
      <4>2. \A q \in Q : after[q] = now
        BY <1>3, <4>1 DEF after, Q, n
      <4>3. free - now <= late
        <5>1. link # Idle => link <= now + MaxPkt
          BY DEF Busy
        <5>2. link \in Nat \cup {Idle}
          BY <1>1 DEF PortType
        <5>3. QED
          BY <1>1, <1>7, <5>1, <5>2 DEF LinkFree, late, free, Idle
      <4>4. n \in Nat /\ Q \in SUBSET (0 .. n - 1) /\ now \in Int
        BY <1>1, <1>7 DEF Q
      <4>5. RoundsWithin(n, list, after, free, a, L)
        BY <1>7, <1>8, <1>13, <4>2, <4>3, <4>4, RoundsBegin
      <4>6. current' = cur
        BY <3>1 DEF wrrVars, cur
      <4>7. QED
        BY <3>1, <4>5, <4>6 DEF list, after
    <3>4. QED
      BY <3>2, <3>3
  <2>4. CASE WrrQuiet
    <3>1. /\ UNCHANGED <<wrrVars, start_time>> /\ fifo' = fifo
          /\ Resume \/ Tick \/ UNCHANGED <<now, link>>
      BY <2>4 DEF WrrQuiet, roundVars
    <3>2. PICK c \in PortQueues : fifo[c] # <<>>
      BY <1>1, <1>16, <3>1 DEF Waiting, SameSetup
    <3>3. LinkFree' = LinkFree
      BY <1>1, <3>1, <3>2, LinkFreeStays
    <3>4. Waiting
      BY <3>2 DEF Waiting
    <3>5. QED
      BY <2>1, <3>1, <3>3, <3>4 DEF free
  <2>5. ASSUME NEW spent \in Nat, spent <= b[cur], Waiting, NextQueue(LinkFree'),
               LinkFree' = free + spent, \A q \in Q : q # cur => a[q] = b[q]
        PROVE  RoundsWithin(n, OrderFrom(n, current'), start_time', LinkFree', a, L)
    <3>1. /\ start_time' = [start_time EXCEPT ![current] = LinkFree']
          /\ current' = (cur + 1) % n
      BY <2>5 DEF NextQueue, cur, n
    <3>2. after[cur] = free + spent /\ \A q \in Q : q # cur => after[q] = start[q]
      BY <1>3, <2>5, <3>1 DEF after, cur, start, Q, n
    <3>3. (free + spent) - after[cur] <= late
      BY <1>7, <3>2
    <3>4. RoundsWithin(n, OrderFrom(n, cur), start, free, b, L)
      BY <1>4, <2>5 DEF list
    <3>5. \A q \in Q : q # cur => a[q] = b[q] /\ after[q] = start[q]
      BY <2>5, <3>2
    <3>6. RoundsWithin(n, OrderFrom(n, (cur + 1) % n), after, free + spent, a, L)
      <4>1. /\ L \in Int /\ L = late + SumN(n, 0 .. n - 1, top)
            /\ cur \in 0 .. n - 1 /\ top \in [0 .. n - 1 -> Nat]
            /\ b \in [0 .. n - 1 -> Nat] /\ a \in [0 .. n - 1 -> Nat]
            /\ start \in [0 .. n - 1 -> Int] /\ after \in [0 .. n - 1 -> Int]
            /\ \A q \in 0 .. n - 1 : a[q] <= top[q]
            /\ \A q \in 0 .. n - 1 : q # cur => a[q] = b[q] /\ after[q] = start[q]
        BY <1>7, <1>8, <3>5 DEF Q
      <4>2. QED
        BY <1>7, <2>5, <3>3, <3>4, <4>1, RoundsTurn
    <3>7. QED
      BY <2>5, <3>1, <3>6 DEF after
  <2>6. CASE PassEmpty
    <3>1. /\ event = "deque" /\ Waiting /\ NextQueue(now) /\ UNCHANGED portVars
          /\ counter' = counter
      BY <1>15, <2>6 DEF PassEmpty, WrrTurn
    <3>2. LinkFree' = free + 0 /\ LinkFree' = now
      BY <1>1, <3>1 DEF LinkFree, free, portVars
    <3>3. \A q \in Q : q # cur => a[q] = b[q]
      BY <1>3, <1>4, <1>9, <3>1 DEF NextQueue, cur, Q, n
    <3>4. 0 <= b[cur]
      BY <1>7, <1>8
    <3>5. QED
      BY <2>5, <3>1, <3>2, <3>3, <3>4
  <2>7. CASE PassSpent
    <3>1. /\ event = "deque" /\ Waiting /\ NextQueue(now) /\ UNCHANGED portVars
          /\ counter' = [counter EXCEPT ![cur] = Counter]
      BY <1>15, <2>7 DEF PassSpent, WrrTurn, cur
    <3>2. LinkFree' = free + 0 /\ LinkFree' = now
      BY <1>1, <3>1 DEF LinkFree, free, portVars
    <3>3. \A q \in Q : q # cur => a[q] = b[q]
      BY <1>3, <1>4, <1>9, <3>1 DEF NextQueue, cur, Q, n
    <3>4. 0 <= b[cur]
      BY <1>7, <1>8
    <3>5. QED
      BY <2>5, <3>1, <3>2, <3>3, <3>4
  <2>8. CASE WrrServe
    <3>1. /\ event = "deque" /\ fifo[cur] # <<>> /\ size <= Counter /\ link' = now + size
          /\ counter' = [counter EXCEPT ![cur] = Counter - size]
      BY <2>8 DEF WrrServe, WrrTurn, Leave, TxTime, cur, size
    <3>2. Waiting /\ size \in Nat \ {0} /\ size <= b[cur]
      BY <1>10, <1>11, <3>1
    <3>3. LinkFree' = now + size /\ LinkFree' = free + size
      <4>1. now + size # -1 /\ free = now
        BY <1>1, <3>1, <3>2 DEF free
      <4>2. QED
        BY <3>1, <4>1 DEF LinkFree, Idle
    <3>4. CASE Len(fifo[cur]) = 1
      <4>1. NextQueue(now + size)
        BY <2>8, <3>4 DEF WrrServe, cur, size, TxTime
      <4>2. NextQueue(LinkFree')
        BY <3>3, <4>1
      <4>3. \A q \in Q : q # cur => a[q] = b[q]
        BY <1>3, <1>4, <1>9, <3>1, <4>1 DEF NextQueue, cur, Q, n
      <4>4. QED
        BY <2>5, <3>2, <3>3, <4>2, <4>3
    <3>5. CASE Len(fifo[cur]) # 1
      <4>1. /\ counter_updated' = [counter_updated EXCEPT ![cur] = TRUE]
            /\ current' = cur /\ start_time' = start
        BY <2>8, <3>5 DEF WrrServe, cur, roundVars, start
      <4>2. \A q \in Q : q # cur => a[q] = b[q]
        BY <1>3, <1>4, <1>9, <3>1, <4>1 DEF cur, Q, n
      <4>3. a[cur] = b[cur] - size
        <5>1. a[cur] = counter'[cur]
          BY <1>3, <1>4, <1>7, <1>9, <4>1 DEF cur, Q, n
        <5>2. counter'[cur] = Counter - size
          BY <1>3, <1>4, <3>1 DEF cur
        <5>3. QED
          BY <1>11, <5>1, <5>2
      <4>4. RoundsWithin(n, list, start, free, b, L)
        BY <1>4, <3>2
      <4>5. /\ n \in Nat /\ Q \in SUBSET (0 .. n - 1) /\ L \in Int /\ size \in Nat
            /\ size <= b[Head(list)] /\ a[Head(list)] = b[Head(list)] - size
            /\ \A q \in Q : q # Head(list) => a[q] = b[q]
          <5>1. n \in Nat /\ Q \in SUBSET (0 .. n - 1) /\ L \in Int /\ size \in Nat
            BY <1>7, <3>2 DEF Q
          <5>2. QED
            BY <1>13, <3>2, <4>2, <4>3, <5>1
      <4>6. RoundsWithin(n, list, start, free + size, a, L)
        BY <1>7, <1>8, <1>13, <4>4, <4>5, RoundsSpend
      <4>7. QED
        BY <3>3, <4>1, <4>6 DEF list
    <3>6. QED
      BY <3>4, <3>5
  <2>9. QED
    BY <1>1, <1>2, <2>2, <2>3, <2>4, <2>6, <2>7, <2>8, WrrRoundKinds
<1>17. round_time' \in 0 .. L * Unit
  <2>1. ASSUME event = "deque", Waiting, NEW spent \in Nat, spent <= b[cur]
        PROVE  Smoothed(cur, spent) \in 0 .. L * Unit
    <3>1. RoundsWithin(n, list, start, free, b, L)
      BY <1>4, <2>1
    <3>2. n \in Nat /\ Q \in SUBSET (0 .. n - 1) /\ L \in Int /\ spent <= b[Head(list)]
      <4>1. n \in Nat /\ Q \in SUBSET (0 .. n - 1) /\ L \in Int
        BY <1>7 DEF Q
      <4>2. QED
        BY <1>13, <2>1, <4>1
    <3>3. free - start[Head(list)] + spent <= L
      BY <1>7, <1>8, <1>13, <2>1, <3>1, <3>2, RoundsHead
    <3>4. free = now /\ start[cur] = start_time[cur]
      BY <1>1, <2>1 DEF free, start
    <3>5. RoundSample(cur, spent) \in 0 .. L
      <4>1. /\ now - start_time[cur] + spent <= L
            /\ start_time[cur] <= now /\ start_time[cur] \in Int
        BY <1>12, <1>13, <3>3, <3>4
      <4>2. QED
        BY <1>1, <1>7, <4>1 DEF RoundSample, TxTime
    <3>6. QED
      BY <1>1, <1>4, <1>7, <3>5, SmoothedWithin
  <2>2. CASE round_time' \in {round_time, IdleRound(RoundAlpha)}
    <3>1. L * Unit \in Nat /\ RoundAlpha \in 0 .. AlphaUnit
      BY <1>1, <1>7, Products DEF SetupFacts
    <3>2. IdleRound(RoundAlpha) \in 0 .. L * Unit
      BY <1>1, <1>4, <3>1, IdleRoundWithin
    <3>3. QED
      BY <1>4, <2>2, <3>2
  <2>3. CASE PassSpent /\ round_time' = Smoothed(cur, 0)
    <3>1. event = "deque" /\ Waiting
      BY <1>15, <2>3 DEF PassSpent, WrrTurn
    <3>2. 0 <= b[cur]
      BY <1>7, <1>8
    <3>3. QED
      BY <2>1, <2>3, <3>1, <3>2
  <2>4. CASE WrrServe /\ round_time' = Smoothed(cur, size)
    <3>1. event = "deque" /\ fifo[cur] # <<>> /\ size <= Counter
      BY <2>4 DEF WrrServe, WrrTurn, cur, size
    <3>2. Waiting /\ size \in Nat /\ size <= b[cur]
      BY <1>10, <1>11, <3>1
    <3>3. QED
      BY <2>1, <2>4, <3>1, <3>2
  <2>5. QED
    BY <1>1, <1>2, <2>2, <2>3, <2>4, WrrRoundTimeStep DEF cur, size
<1>18. QED
  BY <1>1, <1>3, <1>5, <1>6, <1>16, <1>17 DEF WrrRounds, n, L, a, SameSetup
-----------------------------------------------------------------------------
(***************************************************************************)
(* The threshold of MQ-ECN.                                                *)
(***************************************************************************)
\* With DequeMarking a packet that waits has no mark yet.
Unmarked ==
    DequeMarking => \A c \in ShareQueues : \A i \in 1 .. Len(fifo[c]) : ~fifo[c][i].ce

LEMMA UnmarkedStep ==
    ASSUME Base, Unmarked, [Next]_vars
    PROVE  Unmarked'
<1>1. SetupFacts /\ PortType /\ PortType' /\ SameSetup
  BY NextFacts, BaseStep DEF Base, PortInv
<1>2. SUFFICES ASSUME DequeMarking, NEW c \in ShareQueues
               PROVE  \A i \in 1 .. Len(fifo'[c]) : ~fifo'[c][i].ce
  BY <1>1 DEF Unmarked, SameSetup
<1>3. /\ class = "DWRR" /\ DwrrStepKind /\ c \in PortQueues /\ fifo[c] \in Seq(Pkts)
      /\ Len(fifo[c]) \in Nat
      /\ activeList \in Seq(ShareQueues) /\ Range(activeList) = Backlogged
  BY <1>1, <1>2, NextFacts, LenProperties
     DEF SetupFacts, PortType, DwrrClasses, Base, DwrrType, ActiveListExact
<1>4. \A i \in 1 .. Len(fifo[c]) : ~fifo[c][i].ce
  BY <1>2 DEF Unmarked
<1>5. CASE fifo'[c] = fifo[c]
  BY <1>4, <1>5
<1>6. CASE DwrrCalm \/ Rotate
  BY <1>5, <1>6 DEF DwrrCalm, SameFifos, Rotate, portVars
<1>7. ASSUME NEW d \in ShareQueues, DwrrArrival(d)
      PROVE  \A i \in 1 .. Len(fifo'[c]) : ~fifo'[c][i].ce
  <2>1. PICK size \in PktSizes, ect \in BOOLEAN, mark \in BOOLEAN :
            Insert(d, size, ect, mark) /\ ~mark
    BY <1>2, <1>7 DEF DwrrArrival, EnqueMark
  <2>2. d \in PortQueues
    BY <1>1 DEF SetupFacts
  <2>3. PICK pkt \in Pkts :
            /\ pkt.ce = (ect /\ mark) /\ fifo'[d] = Append(fifo[d], pkt)
            /\ \A e \in PortQueues \ {d} : fifo'[e] = fifo[e]
    BY <1>1, <2>1, <2>2, InsertFacts
  <2>4. CASE c # d
    BY <1>3, <1>5, <2>3, <2>4
  <2>5. CASE c = d
    <3> DEFINE n == Len(fifo[c])
               long == fifo'[c]
    <3>1. /\ Len(long) = n + 1 /\ long[n + 1] = pkt
          /\ \A i \in 1 .. n : long[i] = fifo[c][i]
      BY <1>3, <2>3, <2>5, AppendProperties
    <3>2. ~pkt.ce
      BY <2>1, <2>3
    <3> HIDE DEF long
    <3>3. ASSUME NEW i \in 1 .. n + 1 PROVE ~long[i].ce
      <4>1. CASE i = n + 1
        BY <3>1, <3>2, <4>1
      <4>2. CASE i # n + 1
        <5>1. i \in 1 .. n
          BY <1>3, <4>2
        <5>2. QED
          BY <1>4, <3>1, <5>1
      <4>3. QED
        BY <4>1, <4>2
    <3>4. QED
      BY <3>1, <3>3 DEF long
  <2>6. QED
    BY <2>4, <2>5
<1>8. CASE DwrrServe
  <2> DEFINE h == Head(activeList)
  <2>1. DwrrTurn /\ Leave(h, DequeMark(h, Head(fifo[h]).size))
    BY <1>8 DEF DwrrServe
  <2>2. h \in ShareQueues /\ fifo[h] # <<>>
    BY <1>1, <1>3, <2>1, DwrrHead
  <2>3. h \in PortQueues
    BY <1>1, <2>2 DEF SetupFacts
  <2> HIDE DEF h
  <2>4. fifo'[h] = Tail(fifo[h]) /\ \A d \in PortQueues \ {h} : fifo'[d] = fifo[d]
    BY <1>1, <2>1, <2>2, <2>3, LeaveFacts
  <2>5. CASE c # h
    BY <1>3, <1>5, <2>4, <2>5
  <2>6. CASE c = h
    <3> DEFINE n == Len(fifo[c])
               rest == fifo'[c]
    <3>1. Len(rest) = n - 1 /\ \A i \in 1 .. Len(rest) : rest[i] = fifo[c][i + 1]
      <4>1. fifo[c] # <<>> /\ rest = Tail(fifo[c])
        BY <2>2, <2>4, <2>6
      <4> HIDE DEF rest
      <4>2. QED
        BY <1>3, <4>1, HeadTailProperties
    <3> HIDE DEF rest
    <3>2. ASSUME NEW i \in 1 .. Len(rest) PROVE ~rest[i].ce
      <4>1. i + 1 \in 1 .. n
        BY <1>3, <3>1
      <4>2. QED
        BY <1>4, <3>1, <4>1
    <3>3. QED
      BY <3>2 DEF rest
  <2>7. QED
    BY <2>5, <2>6
<1>9. QED
  BY <1>3, <1>6, <1>7, <1>8 DEF DwrrStepKind

\* A mark that MQ-ECN gives a queue of len bytes, by an estimate of the whole.
LEMMA MarkSays ==
    ASSUME SetupFacts, ShareType, NEW c \in ShareQueues, NEW len \in Nat, NEW est,
           Whole \in Nat, share[c] <= Whole, est \in 0 .. Whole * Unit,
           NEW mark, mark <=> ShareMark(c, len, est)
    PROVE  MarkBounds(c, len, mark)
<1> DEFINE x == share[c]
           u == Unit
           k == port_thresh_
           w == Whole
<1>1. x \in Nat \ {0} /\ u \in Nat \ {0} /\ k \in Nat /\ w \in Nat /\ x <= w
  BY DEF SetupFacts, ShareType
<1>2. est \in Nat /\ est <= w * u
  <2>1. w * u \in Nat
    BY <1>1, Products
  <2>2. QED
    BY <2>1
<1>3. mark <=> IF est > x * u THEN len * est > x * u * k ELSE len > k
  BY DEF ShareMark
<1> HIDE DEF x, u, k, w
<1>4. (mark => len * w > x * k) /\ (~mark => len <= k)
  BY <1>1, <1>2, <1>3, ShareMarkBounds
<1>5. QED
  BY <1>4 DEF MarkBounds, x, u, k, w

\* Before a step and after it, for the marks of a class.
MarkInv ==
    /\ Base /\ ShareSumInv /\ SumEstimateInv /\ Busy
    /\ DwrrWaits /\ WrrWaits /\ DwrrRounds /\ WrrRounds /\ Unmarked

LEMMA MarkInvStep == ASSUME MarkInv, [Next]_vars PROVE MarkInv'
BY BaseStep, ShareSumStep, SumEstimateInvStep, BusyStep, DwrrWaitsStep, WrrWaitsStep,
   DwrrRoundsStep, WrrRoundsStep, UnmarkedStep DEF MarkInv

LEMMA WholeFacts ==
    ASSUME MarkInv, [Next]_vars, MqOn
    PROVE  /\ Whole \in Nat /\ \A c \in ShareQueues : share[c] <= Whole
           /\ marking_scheme_ = "gener" =>
                  /\ {share_sum_estimate, share_sum_estimate'} \subseteq 0 .. Whole * Unit
                  /\ class \in DwrrClasses \cup WfqClasses
           /\ marking_scheme_ = "rr" =>
                  /\ {round_time, round_time'} \subseteq 0 .. Whole * Unit
                  /\ class \in {"DWRR", "WRR"}
<1>1. /\ SetupFacts /\ ShareType /\ SameSetup /\ SchemeFacts /\ share' = share
      /\ SumEstimateInv /\ DwrrRounds /\ WrrRounds
      /\ SumEstimateInv' /\ DwrrRounds' /\ WrrRounds'
  BY NextFacts, BaseStep, MarkInvStep, ShareStays, SchemesFit
     DEF MarkInv, Base, PortInv, PortType, MqOn
<1>2. /\ TotalN' = TotalN /\ DwrrLongestRound' = DwrrLongestRound
      /\ WrrLongestRound' = WrrLongestRound /\ Unit' = Unit
      /\ class' = class /\ ShareChoices' = {} /\ ShareChoices = {}
  BY <1>1 DEF TotalN, DwrrLongestRound, WrrLongestRound, TotalShare, SumOfShares, SumOver,
              SameSetup, MqOn
<1>3. CASE marking_scheme_ = "gener"
  <2>1. Whole = TotalN /\ class \in DwrrClasses \cup WfqClasses
    <3>1. TotalShare = TotalN
      BY <1>1, TotalFacts
    <3>2. class \in DwrrClasses \cup WfqClasses
      BY <1>1, <1>3 DEF SchemeFacts
    <3>3. class # "WRR"
      BY <3>2 DEF DwrrClasses, WfqClasses
    <3>4. Whole = TotalShare
      BY <1>3, <3>3 DEF Whole
    <3>5. QED
      BY <3>1, <3>2, <3>4
  <2>2. /\ share_sum_estimate \in 0 .. TotalN * Unit
        /\ share_sum_estimate' \in 0 .. TotalN * Unit
    BY <1>1, <1>2, <2>1 DEF SumEstimateInv
  <2>3. TotalN \in Nat /\ \A c \in ShareQueues : share[c] <= TotalN
    BY <1>1, TotalFacts
  <2>4. QED
    BY <1>3, <2>1, <2>2, <2>3
<1>4. CASE marking_scheme_ = "rr"
  <2>1. class \in {"DWRR", "WRR"}
    BY <1>1, <1>4 DEF SchemeFacts, MqOn
  <2>2. CASE class = "DWRR"
    <3>1. Whole = DwrrLongestRound
      BY <1>4, <2>2 DEF Whole
    <3>2. {round_time, round_time'} \subseteq 0 .. DwrrLongestRound * Unit
      BY <1>1, <1>2, <2>2 DEF DwrrRounds
    <3>3. QED
      BY <1>1, <1>4, <2>1, <3>1, <3>2, DwrrLongestFacts
  <2>3. CASE class = "WRR"
    <3>1. Whole = WrrLongestRound
      BY <1>4, <2>3 DEF Whole
    <3>2. {round_time, round_time'} \subseteq 0 .. WrrLongestRound * Unit
      BY <1>1, <1>2, <2>3 DEF WrrRounds
    <3>3. QED
      BY <1>1, <1>4, <2>1, <3>1, <3>2, WrrLongestFacts
  <2>4. QED
    BY <2>1, <2>2, <2>3
<1>5. QED
  BY <1>3, <1>4 DEF MqOn

\* What the marking of each class says, with the estimates as they are before a step (at
\* deque) or after it (at enque).
LEMMA ClassMarks ==
    ASSUME MarkInv, [Next]_vars, MqOn, NEW c \in ShareQueues, NEW len \in Nat, NEW total,
           NEW sum \in {share_sum_estimate, share_sum_estimate'},
           NEW round \in {round_time, round_time'}, NEW mark,
           \/ class \in DwrrClasses /\ (mark <=> DwrrMark(c, len, total, sum, round))
           \/ class \in WfqClasses /\ (mark <=> WfqMark(c, len, total))
           \/ class = "WRR" /\ (mark <=> WrrMark(c, len, total))
    PROVE  MarkBounds(c, len, mark)
<1>1. /\ SetupFacts /\ ShareType /\ Whole \in Nat /\ share[c] <= Whole
      /\ marking_scheme_ = "gener" =>
             /\ {share_sum_estimate, share_sum_estimate'} \subseteq 0 .. Whole * Unit
             /\ class \in DwrrClasses \cup WfqClasses
      /\ marking_scheme_ = "rr" =>
             /\ {round_time, round_time'} \subseteq 0 .. Whole * Unit
             /\ class \in {"DWRR", "WRR"}
  BY WholeFacts, NextFacts DEF MarkInv, Base
<1>2. ~StaticMark(c, len, total)
  BY DEF StaticMark, MqOn
<1>3. CASE marking_scheme_ = "gener"
  <2>1. PICK est \in {share_sum_estimate, share_sum_estimate'} :
            mark <=> ShareMark(c, len, est)
    BY <1>1, <1>2, <1>3 DEF DwrrMark, WfqMark, DwrrClasses, WfqClasses
  <2>2. est \in 0 .. Whole * Unit
    BY <1>1, <1>3
  <2>3. QED
    BY <1>1, <2>1, <2>2, MarkSays
<1>4. CASE marking_scheme_ = "rr"
  <2>1. PICK est \in {round_time, round_time'} : mark <=> ShareMark(c, len, est)
    BY <1>1, <1>2, <1>4 DEF DwrrMark, WrrMark, DwrrClasses, WfqClasses
  <2>2. est \in 0 .. Whole * Unit
    BY <1>1, <1>4
  <2>3. QED
    BY <1>1, <2>1, <2>2, MarkSays
<1>5. QED
  BY <1>3, <1>4 DEF MqOn

\* The marks of the three disciplines.
LEMMA DwrrMarksStep ==
    ASSUME MarkInv, [Next]_vars, MqOn, class \in DwrrClasses, NEW c \in ShareQueues
    PROVE  MarksWithinBounds(c)
<1>1. /\ SetupFacts /\ PortType /\ PortType' /\ SameSetup /\ DwrrStepKind /\ Unmarked
      /\ activeList \in Seq(ShareQueues) /\ Range(activeList) = Backlogged
      /\ c \in PortQueues /\ ShareQueues \in SUBSET PortQueues
  BY NextFacts, BaseStep
     DEF MarkInv, Base, PortInv, DwrrClasses, DwrrType, ActiveListExact, SetupFacts
<1>2. ASSUME fifo'[c] = fifo[c] PROVE MarksWithinBounds(c)
  BY <1>1, <1>2, UntouchedBounds
<1>3. CASE DwrrCalm \/ Rotate
  BY <1>2, <1>3 DEF DwrrCalm, SameFifos, Rotate, portVars
<1>4. ASSUME NEW d \in ShareQueues, DwrrArrival(d) PROVE MarksWithinBounds(c)
  <2>1. PICK size \in PktSizes, ect \in BOOLEAN, mark \in BOOLEAN :
            /\ Insert(d, size, ect, mark)
            /\ mark <=> /\ ~DequeMarking
                        /\ DwrrMark(d, ByteLength(d) + size, TotalByteLength + size,
                                    share_sum_estimate', round_time')
    BY <1>4 DEF DwrrArrival, EnqueMark
  <2>2. ByteLength(c) + size \in Nat
    <3>1. ByteLength(c) \in Nat
      BY <1>1, LengthBytes
    <3>2. size \in Nat
      BY <1>1, <2>1 DEF SetupFacts
    <3>3. QED
      BY <3>1, <3>2
  <2> DEFINE len == ByteLength(c) + size
             total == TotalByteLength + size
  <2>3. ASSUME ~DequeMarking, d = c PROVE MarkBounds(c, len, mark)
    <3>1. mark <=> DwrrMark(c, len, total, share_sum_estimate', round_time')
      BY <2>1, <2>3
    <3>2. len \in Nat
      BY <2>2
    <3> HIDE DEF len, total
    <3>3. QED
      BY <3>1, <3>2, ClassMarks
  <2>4. d \in PortQueues
    BY <1>1
  <2>5. QED
    BY <1>1, <2>1, <2>3, <2>4, InsertBounds
<1>5. CASE DwrrServe
  <2> DEFINE h == Head(activeList)
             mark == DequeMark(h, Head(fifo[h]).size)
  <2>1. DwrrTurn /\ Leave(h, mark)
    BY <1>5 DEF DwrrServe
  <2>2. h \in ShareQueues /\ fifo[h] # <<>>
    BY <1>1, <2>1, DwrrHead
  <2>3. mark <=> /\ DequeMarking
                 /\ DwrrMark(h, ByteLength(h) - Head(fifo[h]).size,
                             TotalByteLength - Head(fifo[h]).size,
                             share_sum_estimate, round_time)
    BY DEF DequeMark
  <2>4. mark \in BOOLEAN
    BY DwrrMarkType DEF DequeMark
  <2> HIDE DEF h, mark
  <2>5. h \in PortQueues
    BY <1>1, <2>2
  <2>6. ASSUME DequeMarking, h = c
        PROVE  /\ ~Head(fifo[c]).ce
               /\ MarkBounds(c, ByteLength(c) - Head(fifo[c]).size, mark)
    <3> DEFINE len == ByteLength(c) - Head(fifo[c]).size
               total == TotalByteLength - Head(fifo[c]).size
    <3>1. /\ fifo[c] \in Seq(Pkts) /\ fifo[c] # <<>> /\ ByteLength(c) = PktBytes(fifo[c])
          /\ \A p \in Pkts : p.size \in Nat \ {0}
      BY <1>1, <2>2, <2>6, LengthBytes, PktFacts
    <3>2. /\ Tail(fifo[c]) \in Seq(Pkts)
          /\ PktBytes(Tail(fifo[c])) = PktBytes(fifo[c]) - Head(fifo[c]).size
      BY <3>1, PktBytesTail
    <3>3. PktBytes(Tail(fifo[c])) \in Nat
      BY <3>1, <3>2, PktBytesType
    <3>4. len \in Nat
      BY <3>1, <3>2, <3>3
    <3>5. mark <=> DwrrMark(c, len, total, share_sum_estimate, round_time)
      BY <2>3, <2>6
    <3> HIDE DEF len, total
    <3>6. MarkBounds(c, len, mark)
      BY <3>4, <3>5, ClassMarks
    <3>7. ~Head(fifo[c]).ce
      <4>1. Head(fifo[c]) = fifo[c][1] /\ 1 \in 1 .. Len(fifo[c])
        BY <3>1, HeadTailProperties, LenProperties, EmptySeq
      <4>2. QED
        BY <1>1, <2>6, <4>1 DEF Unmarked
    <3>8. QED
      BY <3>6, <3>7 DEF len
  <2>7. QED
    BY <1>1, <2>1, <2>2, <2>4, <2>5, <2>6, LeaveBounds
<1>6. QED
  BY <1>1, <1>3, <1>4, <1>5 DEF DwrrStepKind

LEMMA WfqMarksStep ==
    ASSUME MarkInv, [Next]_vars, MqOn, class \in WfqClasses, NEW c \in ShareQueues
    PROVE  MarksWithinBounds(c)
<1>1. /\ SetupFacts /\ PortType /\ PortType' /\ SameSetup /\ WfqStepKind /\ ~DequeMarking
      /\ headFinishTime \in [ShareQueues -> Int]
      /\ c \in PortQueues /\ ShareQueues \in SUBSET PortQueues
  BY NextFacts, BaseStep
     DEF MarkInv, Base, PortInv, DwrrClasses, WfqClasses, WfqType, SetupFacts
<1>2. CASE WfqCalm
  BY <1>1, <1>2, UntouchedBounds DEF WfqCalm, SameFifos
<1>3. ASSUME NEW d \in ShareQueues, WfqArrival(d) PROVE MarksWithinBounds(c)
  <2>1. PICK size \in PktSizes, ect \in BOOLEAN, mark \in BOOLEAN :
            /\ Insert(d, size, ect, mark)
            /\ mark <=> WfqMark(d, ByteLength(d) + size, TotalByteLength + size)
    BY <1>3 DEF WfqArrival
  <2>2. ByteLength(c) + size \in Nat
    <3>1. ByteLength(c) \in Nat
      BY <1>1, LengthBytes
    <3>2. size \in Nat
      BY <1>1, <2>1 DEF SetupFacts
    <3>3. QED
      BY <3>1, <3>2
  <2> DEFINE len == ByteLength(c) + size
             total == TotalByteLength + size
  <2>3. ASSUME d = c PROVE MarkBounds(c, len, mark)
    <3>1. mark <=> WfqMark(c, len, total)
      BY <2>1, <2>3
    <3>2. len \in Nat
      BY <2>2
    <3> HIDE DEF len, total
    <3>3. QED
      BY <3>1, <3>2, ClassMarks
  <2>4. d \in PortQueues
    BY <1>1
  <2>5. QED
    BY <1>1, <2>1, <2>3, <2>4, InsertBounds
<1>4. CASE WfqServe
  <2>1. Leave(Earliest, FALSE) /\ LengthOf(ShareQueues) > 0
    BY <1>4 DEF WfqServe
  <2>2. Earliest \in PortQueues /\ fifo[Earliest] # <<>>
    BY <1>1, <2>1, EarliestFacts
  <2>3. QED
    BY <1>1, <2>1, <2>2, LeaveBounds
<1>5. QED
  BY <1>1, <1>2, <1>3, <1>4 DEF WfqStepKind

LEMMA WrrMarksStep ==
    ASSUME MarkInv, [Next]_vars, MqOn, class = "WRR", NEW c \in ShareQueues
    PROVE  MarksWithinBounds(c)
<1>1. /\ SetupFacts /\ PortType /\ PortType' /\ SameSetup /\ ~DequeMarking
      /\ current \in PortQueues /\ ShareChoices = {}
      /\ c \in PortQueues /\ ShareQueues \in SUBSET PortQueues
  BY NextFacts, BaseStep DEF MarkInv, MqOn, Base, PortInv, WrrType, SetupFacts
<1>2. ASSUME fifo'[c] = fifo[c] PROVE MarksWithinBounds(c)
  BY <1>1, <1>2, UntouchedBounds
<1>3. CASE WrrDrop \/ WrrQuiet \/ PassEmpty \/ PassSpent
  BY <1>2, <1>3 DEF WrrDrop, Drop, WrrQuiet, PassEmpty, PassSpent, portVars
<1>4. ASSUME NEW d \in PortQueues, NEW size \in PktSizes, NEW ect \in BOOLEAN,
             NEW mark \in BOOLEAN, WrrJoin(d, size, ect, mark)
      PROVE  MarksWithinBounds(c)
  <2>1. /\ Insert(d, size, ect, mark)
        /\ mark <=> WrrMark(d, ByteLength(d) + size, TotalByteLength + size)
    BY <1>4 DEF WrrJoin
  <2>2. ByteLength(c) + size \in Nat
    <3>1. ByteLength(c) \in Nat
      BY <1>1, LengthBytes
    <3>2. size \in Nat
      BY <1>1, <2>1 DEF SetupFacts
    <3>3. QED
      BY <3>1, <3>2
  <2> DEFINE len == ByteLength(c) + size
             total == TotalByteLength + size
  <2>3. ASSUME d = c PROVE MarkBounds(c, len, mark)
    <3>1. mark <=> WrrMark(c, len, total)
      BY <2>1, <2>3
    <3>2. len \in Nat
      BY <2>2
    <3> HIDE DEF len, total
    <3>3. QED
      BY <3>1, <3>2, ClassMarks
  <2>4. QED
    BY <1>1, <2>1, <2>3, InsertBounds
<1>5. CASE WrrServe
  <2>1. Leave(current, FALSE) /\ fifo[current] # <<>>
    BY <1>5 DEF WrrServe
  <2>2. QED
    BY <1>1, <2>1, LeaveBounds
<1>6. QED
  BY <1>1, <1>3, <1>4, <1>5, WrrRoundKinds

LEMMA MarksStep ==
    ASSUME MarkInv, [Next]_vars
    PROVE  \A c \in ShareQueues : MarksWithinBounds(c)
<1>1. CASE ~MqOn
  BY <1>1 DEF MarksWithinBounds, MqEcn, MqOn
<1>2. CASE MqOn
  <2>1. class \in DwrrClasses \cup WfqClasses \/ class \in {"DWRR", "WRR"}
    BY <1>2, WholeFacts DEF MqOn
  <2>2. QED
    BY <1>2, <2>1, DwrrMarksStep, WfqMarksStep, WrrMarksStep DEF DwrrClasses
<1>3. QED
  BY <1>1, <1>2

LEMMA DwrrRoundsInit == Init => DwrrRounds
<1>1. SUFFICES ASSUME Init, class = "DWRR", ShareChoices = {}
               PROVE  /\ \A c \in ShareQueues :
                             deficitCounter[c] \in Nat /\ Deficit(c) <= DwrrTop[c]
                      /\ RoundsWithin(queue_num_, activeList, start_time, LinkFree, Budgets,
                                      DwrrLongestRound)
                      /\ round_time \in 0 .. DwrrLongestRound * Unit
  BY DEF DwrrRounds
<1>2. SetupFacts /\ ShareType
  BY <1>1, BaseInit, SetupIsOK DEF Base, PortInv, PortType
<1>3. /\ activeList = <<>> /\ round_time = 0
      /\ \A c \in ShareQueues : deficitCounter[c] = 0 /\ in_turn[c] = FALSE
  BY <1>1 DEF Init, DwrrInit, RoundInit
<1>4. DwrrLongestRound * Unit \in Nat
  <2>1. DwrrLongestRound \in Nat /\ Unit \in Nat
    BY <1>2, DwrrLongestFacts DEF SetupFacts
  <2>2. QED
    BY <2>1, Products
<1>5. ASSUME NEW c \in ShareQueues PROVE deficitCounter[c] \in Nat /\ Deficit(c) <= DwrrTop[c]
  BY <1>2, <1>3 DEF Deficit, DwrrTop, ShareType, SetupFacts
<1>6. RoundsWithin(queue_num_, activeList, start_time, LinkFree, Budgets, DwrrLongestRound)
  <2>1. 1 .. Len(activeList) = {}
    BY <1>3
  <2>2. QED
    BY <2>1 DEF RoundsWithin
<1>7. QED
  BY <1>3, <1>4, <1>5, <1>6

LEMMA WrrRoundsInit == Init => WrrRounds
<1>1. SUFFICES ASSUME Init, class = "WRR", ShareChoices = {}
               PROVE  /\ counter \in [PortQueues -> Int]
                      /\ counter_updated \in [PortQueues -> BOOLEAN]
                      /\ \A c \in PortQueues : WrrBudgets[c] \in 0 .. share[c]
                      /\ ~Waiting
                      /\ round_time \in 0 .. WrrLongestRound * Unit
  BY DEF WrrRounds
<1>2. SetupFacts /\ ShareType
  BY <1>1, BaseInit, SetupIsOK DEF Base, PortInv, PortType
<1>3. /\ round_time = 0 /\ fifo = [c \in PortQueues |-> <<>>]
      /\ counter = [c \in PortQueues |-> 0] /\ counter_updated = [c \in PortQueues |-> FALSE]
  BY <1>1 DEF Init, WrrInit, RoundInit, PortInit
<1>4. WrrLongestRound * Unit \in Nat
  <2>1. WrrLongestRound \in Nat /\ Unit \in Nat
    BY <1>2, WrrLongestFacts, <1>1 DEF SetupFacts
  <2>2. QED
    BY <2>1, Products
<1>5. ASSUME NEW c \in PortQueues PROVE WrrBudgets[c] \in 0 .. share[c]
  <2>1. ShareQueues = PortQueues
    BY <1>1, <1>2 DEF SetupFacts
  <2>2. QED
    BY <1>2, <1>3, <2>1 DEF WrrBudgets, ShareType, SetupFacts
<1>6. QED
  BY <1>3, <1>4, <1>5 DEF Waiting

LEMMA MarkInvInit == Init => MarkInv
<1>1. SUFFICES ASSUME Init PROVE MarkInv
  OBVIOUS
<1>2. Base /\ SetupFacts /\ ShareType
  BY <1>1, BaseInit, SetupIsOK DEF Base, PortInv, PortType
<1>3. /\ link = Idle /\ \A c \in PortQueues : fifo[c] = <<>>
      /\ ShareQueues \in SUBSET PortQueues /\ share_sum_estimate = 0
  BY <1>1, <1>2 DEF Init, PortInit, SumInit, SetupFacts
<1>4. SumEstimateInv
  <2>1. TotalN \in Nat /\ Unit \in Nat
    BY <1>2, TotalFacts DEF SetupFacts
  <2>2. TotalN * Unit \in Nat
    BY <2>1, Products
  <2>3. QED
    BY <1>3, <2>2 DEF SumEstimateInv
<1>5. Busy
  BY <1>3 DEF Busy
<1>6. Unmarked
  <2>1. \A c \in ShareQueues : 1 .. Len(fifo[c]) = {}
    BY <1>3
  <2>2. QED
    BY <2>1 DEF Unmarked
<1>7. QED
  BY <1>1, <1>2, <1>4, <1>5, <1>6, ShareSumInit, WaitsInit, DwrrRoundsInit, WrrRoundsInit
     DEF MarkInv

\* A mark of MQ-ECN tells that the queue holds more than the threshold of its share in the
\* sum of all shares ("gener") or in the longest round ("rr"), and a queue over the
\* threshold of the port is marked, however the estimates were reached: with any number of
\* queues, shares, packet sizes, smoothing factors, intervals and idle times.
THEOREM ThresholdsBetween == Spec => ThresholdBetweenShareAndPort
<1>1. Init => MarkInv
  BY MarkInvInit
<1>2. MarkInv /\ [Next]_vars => MarkInv'
  BY MarkInvStep
<1>3. MarkInv /\ [Next]_vars => [\A c \in ShareQueues : MarksWithinBounds(c)]_vars
  BY MarksStep
<1>4. QED
  BY <1>1, <1>2, <1>3, PTL DEF Spec, ThresholdBetweenShareAndPort
-----------------------------------------------------------------------------
(***************************************************************************)
(* The classifier of a switch (Ns2Ecmp).                                   *)
(***************************************************************************)
\* maxslot_ is the highest slot in use.
Highest(slots, top) ==
    IF slots = {} THEN top = NoSlot
    ELSE top \in slots /\ \A s \in slots : s <= top

EcmpType ==
    /\ mode \in Modes
    /\ slot_ \in SUBSET Slots
    /\ Highest(slot_, maxslot_)
    /\ ns_ \in Nat
    /\ count \in [Slots -> Nat]

\* From slot ns on, and after maxslot_ from 0 on, slot s comes before slot t.
Precedes(ns, s, t) ==
    \/ s >= ns /\ t < ns
    \/ (s >= ns <=> t >= ns) /\ s < t

\* The slots whose turn comes first have not been chosen more often than the others, by
\* at most one packet: as soon as the routes change the count begins anew.
TurnsInOrder ==
    mode = "turn" /\ slot_ # {} =>
        /\ \A s \in slot_ : count[s] \in {0, 1}
        /\ \E s \in slot_ : count[s] = 0
        /\ \/ \A s \in slot_ : count[s] = 0
           \/ /\ ns_ <= maxslot_
              /\ \A s, t \in slot_ : Precedes(ns_, s, t) => count[s] <= count[t]

EcmpInv == EcmpType /\ TurnsInOrder

\* A nonempty set of slots has a highest.
LEMMA HighestExists ==
    ASSUME NEW S \in SUBSET Int, S # {}, NEW bound \in Int, \A s \in S : s <= bound
    PROVE  Max(S) \in S /\ \A s \in S : s <= Max(S)
<1> DEFINE D == {bound - s : s \in S}
<1>1. D \in SUBSET Nat /\ D # {}
  <2>1. \A s \in S : bound - s \in Nat
    OBVIOUS
  <2>2. QED
    BY <2>1
<1>2. PICK d \in D : \A e \in D : d <= e
  BY <1>1, LeastNatural
<1>3. PICK m \in S : d = bound - m
  BY <1>2
<1>4. \A s \in S : m >= s
  <2>1. TAKE s \in S
  <2>2. bound - m <= bound - s
    BY <1>2, <1>3
  <2>3. QED
    BY <2>2
<1>5. Max(S) \in S /\ \A s \in S : Max(S) >= s
  BY <1>3, <1>4 DEF Max
<1>6. QED
  BY <1>5

LEMMA SlotsAreNatural ==
    Slots \subseteq Nat /\ NumSlots \in Nat /\ \A s \in Slots : s < NumSlots
BY EcmpAssumption DEF Slots

\* Every remainder is reached from every number.
LEMMA Reaches ==
    ASSUME NEW m \in Nat \ {0}, NEW x \in Int, NEW c \in 0 .. m - 1
    PROVE  /\ (c - x) % m \in 0 .. m - 1
           /\ (x + ((c - x) % m)) % m = c
<1> DEFINE y == c - x
           q == y \div m
           r == y % m
           p == 0 - q
<1>1. y \in Int
  OBVIOUS
<1> HIDE DEF y
<1>2. q \in Int /\ r \in 0 .. m - 1 /\ y = m * q + r
  BY <1>1
<1> HIDE DEF q, r
<1>3. p \in Int /\ p * m = 0 - m * q /\ m * q \in Int
  BY <1>2
<1> HIDE DEF p
<1>4. x + r = c + p * m
  BY <1>2, <1>3 DEF y
<1>5. (c + p * m) % m = c % m
  <2>1. c \in Int
    OBVIOUS
  <2>2. QED
    BY ONLY <2>1, <1>3, m \in Nat \ {0}, RemainderShift
<1>6. c % m = c
  BY Remainders
<1>7. QED
  BY <1>2, <1>4, <1>5, <1>6 DEF r, y
-----------------------------------------------------------------------------
\* Wherever the search begins it finds a slot in use; begun within the table, it finds
\* the one that comes first from there (the loop of classify).
ProbeIn(slots, top, s) ==
    LET after(i) == (s + 1 + i) % (top + 1)
    IN  IF s \in slots THEN s
        ELSE after(Min({i \in 0 .. top : after(i) \in slots}))

LEMMA ProbeInFinds ==
    ASSUME NEW slots \in SUBSET Slots, slots # {}, NEW top, Highest(slots, top), NEW s \in Nat
    PROVE  /\ ProbeIn(slots, top, s) \in slots
           /\ s <= top =>
                  \A t \in slots : t # ProbeIn(slots, top, s) =>
                      Precedes(s, ProbeIn(slots, top, s), t)
<1> DEFINE m == top + 1
           after(i) == (s + 1 + i) % m
           hits == {i \in 0 .. top : after(i) \in slots}
<1>1. slots \subseteq Nat /\ top \in slots /\ \A t \in slots : t <= top
  BY SlotsAreNatural DEF Highest
<1>2. m \in Nat \ {0} /\ top \in Nat /\ m = top + 1
  BY <1>1
<1>3. CASE s \in slots
  <2>1. ProbeIn(slots, top, s) = s
    BY <1>3 DEF ProbeIn
  <2>2. QED
    BY <1>1, <1>3, <2>1 DEF Precedes
<1>4. CASE s \notin slots
  <2>1. ProbeIn(slots, top, s) = after(Min(hits))
    BY <1>4 DEF ProbeIn
  <2> HIDE DEF m
  <2>2. \A t \in slots : \E i \in 0 .. top : after(i) = t
    <3>1. TAKE t \in slots
    <3> DEFINE i == (t - (s + 1)) % m
    <3>2. t \in 0 .. top
      BY <1>1
    <3>3. i \in 0 .. top
      BY <1>2, <3>2
    <3>4. (s + 1 + i) % m = t
      <4> DEFINE x == s + 1
      <4>1. x \in Int /\ t \in 0 .. m - 1
        BY <1>1, <1>2, <3>2
      <4> HIDE DEF x
      <4>2. (x + ((t - x) % m)) % m = t
        BY <1>2, <4>1, Reaches
      <4>3. QED
        BY <4>2 DEF x
    <3>5. QED
      BY <3>3, <3>4
  <2>3. hits \in SUBSET Nat /\ hits # {}
    <3>1. PICK i \in 0 .. top : after(i) = top
      BY <1>1, <2>2
    <3>2. i \in hits
      BY <1>1, <3>1
    <3>3. hits \subseteq 0 .. top
      OBVIOUS
    <3> HIDE DEF hits
    <3>4. QED
      BY <1>2, <3>2, <3>3
  <2>4. PICK least \in hits : \A i \in hits : least <= i
    BY <2>3, LeastNatural
  <2>5. Min(hits) \in hits /\ \A i \in hits : Min(hits) <= i
    BY <2>4 DEF Min
  <2>6. after(Min(hits)) \in slots
    <3> DEFINE k == Min(hits)
    <3>1. k \in hits
      BY <2>5
    <3> HIDE DEF k
    <3>2. after(k) \in slots
      BY <3>1
    <3>3. QED
      BY <3>2 DEF k
  <2>7. ASSUME s <= top, NEW t \in slots, t # ProbeIn(slots, top, s)
        PROVE  Precedes(s, ProbeIn(slots, top, s), t)
    <3> DEFINE k == Min(hits)
    <3>1. PICK j \in 0 .. top : after(j) = t
      BY <2>2
    <3>2. j \in hits /\ k \in hits /\ k <= j
      BY <2>5, <3>1
    <3>3. k \in 0 .. top /\ after(k) = ProbeIn(slots, top, s)
      BY <2>1, <3>2
    <3> HIDE DEF hits, k
    <3>4. \A i \in 0 .. top : after(i) = IF s + 1 + i < m THEN s + 1 + i ELSE s + 1 + i - m
      <4>1. TAKE i \in 0 .. top
      <4> DEFINE x == s + 1 + i
      <4>2. x \in 0 .. 2 * m - 1
        BY <1>2, <2>7
      <4> HIDE DEF x
      <4>3. x % m = IF x < m THEN x ELSE x - m
        BY <1>2, <4>2, WrapOnce
      <4>4. after(i) = x % m /\ x = s + 1 + i
        BY DEF x
      <4>5. QED
        BY <1>2, <4>2, <4>3, <4>4
    <3>5. k < j
      BY <2>7, <3>1, <3>2, <3>3
    <3>6. /\ t = IF s + 1 + j < m THEN s + 1 + j ELSE s + 1 + j - m
          /\ ProbeIn(slots, top, s) = IF s + 1 + k < m THEN s + 1 + k ELSE s + 1 + k - m
      BY <3>1, <3>3, <3>4
    <3> HIDE DEF after
    <3>7. ProbeIn(slots, top, s) # s /\ t # s
      <4>1. ProbeIn(slots, top, s) \in slots
        BY <2>1, <2>6
      <4>2. QED
        BY <1>4, <2>7, <4>1
    <3>8. QED
      BY <1>2, <2>7, <3>1, <3>3, <3>5, <3>6, <3>7 DEF Precedes
  <2>8. QED
    BY <2>1, <2>6, <2>7
<1>5. QED
  BY <1>3, <1>4
LEMMA ProbeFinds ==
    ASSUME EcmpType, slot_ # {}, NEW s \in Nat
    PROVE  /\ Probe(s) \in slot_
           /\ s <= maxslot_ => \A t \in slot_ : t # Probe(s) => Precedes(s, Probe(s), t)
<1>1. Probe(s) = ProbeIn(slot_, maxslot_, s)
  BY DEF Probe, ProbeIn
<1>2. slot_ \in SUBSET Slots /\ Highest(slot_, maxslot_)
  BY DEF EcmpType
<1>3. QED
  BY <1>1, <1>2, ProbeInFinds
-----------------------------------------------------------------------------
\* The lowest of a nonempty set of counts.
LEMMA LowestExists ==
    ASSUME NEW S \in SUBSET Nat, S # {}
    PROVE  Min(S) \in S /\ \A n \in S : Min(S) <= n
<1>1. PICK m \in S : \A n \in S : m <= n
  BY LeastNatural
<1>2. QED
  BY <1>1 DEF Min

\* From the slot after the one chosen, the chosen one comes last.
LEMMA TurnRestarts ==
    ASSUME EcmpType, slot_ # {}, NEW p \in slot_, NEW ns, ns = (p + 1) % (maxslot_ + 1)
    PROVE  /\ ns = IF p = maxslot_ THEN 0 ELSE p + 1
           /\ ns \in Nat /\ ns <= maxslot_
           /\ \A t \in slot_ : t # p => ~ Precedes(ns, p, t)
<1>1. slot_ \subseteq Nat /\ maxslot_ \in Nat /\ \A t \in slot_ : t <= maxslot_
  BY SlotsAreNatural DEF EcmpType, Highest
<1>2. ns = IF p = maxslot_ THEN 0 ELSE p + 1
  <2> DEFINE m == maxslot_ + 1
             x == p + 1
  <2>1. m \in Nat \ {0} /\ x \in 0 .. 2 * m - 1
    BY <1>1
  <2>2. ns = x % m /\ m = maxslot_ + 1 /\ x = p + 1
    OBVIOUS
  <2> HIDE DEF m, x
  <2>3. x % m = IF x < m THEN x ELSE x - m
    BY <2>1, WrapOnce
  <2>4. QED
    BY <1>1, <2>1, <2>2, <2>3
<1>3. ns \in Nat /\ ns <= maxslot_
  BY <1>1, <1>2
<1>4. ASSUME NEW t \in slot_, t # p PROVE ~ Precedes(ns, p, t)
  BY <1>1, <1>2, <1>4 DEF Precedes
<1>5. QED
  BY <1>2, <1>3, <1>4

\* The other slots keep their order.
LEMMA TurnMovesOn ==
    ASSUME EcmpType, slot_ # {}, ns_ <= maxslot_, NEW p, p = Probe(ns_),
           NEW ns, ns = (p + 1) % (maxslot_ + 1),
           NEW s \in slot_ \ {p}, NEW t \in slot_ \ {p}, Precedes(ns, s, t)
    PROVE  Precedes(ns_, s, t)
<1>1. slot_ \subseteq Nat /\ maxslot_ \in Nat /\ \A u \in slot_ : u <= maxslot_
  BY SlotsAreNatural DEF EcmpType, Highest
<1>2. ns_ \in Nat
  BY DEF EcmpType
<1>3. p \in slot_ /\ \A u \in slot_ : u # p => Precedes(ns_, p, u)
  BY <1>2, ProbeFinds
<1>4. ns = IF p = maxslot_ THEN 0 ELSE p + 1
  BY <1>3, TurnRestarts
<1>5. s \in Nat /\ t \in Nat /\ p \in Nat /\ s <= maxslot_ /\ t <= maxslot_
  BY <1>1, <1>3
<1>6. Precedes(ns_, p, s) /\ Precedes(ns_, p, t)
  BY <1>3
<1>7. QED
  BY <1>1, <1>2, <1>4, <1>5, <1>6 DEF Precedes

\* What classify counts for the slot p, if some other slot lags behind and if none does.
LEMMA CountTurnFacts ==
    ASSUME EcmpType, slot_ # {}, NEW p \in slot_,
           \A s \in slot_ : count[s] \in {0, 1}, count[p] = 0,
           NEW new, new = CountTurn(p)
    PROVE  /\ new \in [Slots -> Nat]
           /\ (\E q \in slot_ : q # p /\ count[q] = 0) =>
                  \A s \in slot_ : new[s] = IF s = p THEN 1 ELSE count[s]
           /\ (\A q \in slot_ : q # p => count[q] = 1) => \A s \in slot_ : new[s] = 0
<1> DEFINE more == [count EXCEPT ![p] = @ + 1]
           counts == {more[t] : t \in slot_}
           least == Min(counts)
<1>1. slot_ \subseteq Slots /\ count \in [Slots -> Nat]
  BY DEF EcmpType
<1>2. /\ more \in [Slots -> Nat]
      /\ \A s \in slot_ : more[s] = IF s = p THEN 1 ELSE count[s]
  BY <1>1
<1>3. new = [t \in Slots |-> IF t \in slot_ THEN more[t] - least ELSE 0]
  BY DEF CountTurn
<1> HIDE DEF more
<1>4. counts \in SUBSET Nat /\ counts # {}
  BY <1>1, <1>2
<1>5. least \in counts /\ \A n \in counts : least <= n
  BY <1>4, LowestExists
<1>6. PICK u \in slot_ : least = more[u]
  BY <1>5
<1>7. \A t \in slot_ : more[t] \in Nat /\ least <= more[t]
  BY <1>1, <1>2, <1>5
<1>8. least \in Nat
  BY <1>6, <1>7
<1> HIDE DEF least
<1>9. new \in [Slots -> Nat]
  BY <1>3, <1>7, <1>8
<1>10. \A s \in slot_ : new[s] = more[s] - least
  BY <1>1, <1>3
<1>11. ASSUME NEW q \in slot_, q # p, count[q] = 0
       PROVE  \A s \in slot_ : new[s] = IF s = p THEN 1 ELSE count[s]
  <2>1. least = 0
    BY <1>2, <1>7, <1>8, <1>11
  <2>2. QED
    BY <1>2, <1>7, <1>10, <2>1
<1>12. ASSUME \A q \in slot_ : q # p => count[q] = 1
       PROVE  \A s \in slot_ : new[s] = 0
  <2>1. \A s \in slot_ : more[s] = 1
    BY <1>2, <1>12
  <2>2. QED
    BY <1>6, <1>10, <2>1
<1>13. QED
  BY <1>9, <1>11, <1>12

LEMMA ClassifyInTurnInv ==
    ASSUME EcmpInv, ClassifyInTurn
    PROVE  EcmpInv'
<1> DEFINE p == Probe(ns_)
<1>1. /\ mode = "turn" /\ slot_ # {}
      /\ count' = CountTurn(p) /\ ns_' = (p + 1) % (maxslot_ + 1)
      /\ UNCHANGED <<mode, slot_, maxslot_>>
  BY DEF ClassifyInTurn
<1>2. EcmpType /\ TurnsInOrder
  BY DEF EcmpInv
<1>3. /\ \A s \in slot_ : count[s] \in {0, 1}
      /\ \E s \in slot_ : count[s] = 0
      /\ \/ \A s \in slot_ : count[s] = 0
         \/ /\ ns_ <= maxslot_
            /\ \A s, t \in slot_ : Precedes(ns_, s, t) => count[s] <= count[t]
  BY <1>1, <1>2 DEF TurnsInOrder
<1>4. slot_ \subseteq Nat /\ maxslot_ \in Nat /\ ns_ \in Nat
  BY <1>1, <1>2, SlotsAreNatural DEF EcmpType, Highest
<1>5. /\ p \in slot_
      /\ ns_ <= maxslot_ => \A t \in slot_ : t # p => Precedes(ns_, p, t)
  BY <1>1, <1>2, <1>4, ProbeFinds
<1> HIDE DEF p
<1>6. count[p] = 0
  BY <1>3, <1>5
<1>7. ns_' \in Nat /\ ns_' <= maxslot_
  BY <1>1, <1>2, <1>5, TurnRestarts
<1>8. /\ count' \in [Slots -> Nat]
      /\ (\E q \in slot_ : q # p /\ count[q] = 0) =>
             \A s \in slot_ : count'[s] = IF s = p THEN 1 ELSE count[s]
      /\ (\A q \in slot_ : q # p => count[q] = 1) => \A s \in slot_ : count'[s] = 0
  BY <1>1, <1>2, <1>3, <1>5, <1>6, CountTurnFacts
<1>9. EcmpType'
  BY <1>1, <1>2, <1>7, <1>8 DEF EcmpType, Highest
<1>10. TurnsInOrder'
  <2>1. CASE \A q \in slot_ : q # p => count[q] = 1
    <3>1. \A s \in slot_ : count'[s] = 0
      BY <1>8, <2>1
    <3>2. QED
      BY <1>1, <3>1 DEF TurnsInOrder
  <2>2. CASE \E q \in slot_ : q # p /\ count[q] = 0
    <3>1. \A s \in slot_ : count'[s] = IF s = p THEN 1 ELSE count[s]
      BY <1>8, <2>2
    <3>2. ASSUME NEW s \in slot_, NEW t \in slot_, Precedes(ns_', s, t)
          PROVE  count'[s] <= count'[t]
      <4>1. CASE t = p
        BY <1>3, <3>1, <4>1
      <4>2. CASE t # p /\ \A u \in slot_ : count[u] = 0
        <5>1. s # p
          BY <1>1, <1>2, <1>5, <3>2, <4>2, TurnRestarts
        <5>2. QED
          BY <3>1, <4>2, <5>1
      <4>3. CASE /\ t # p /\ ns_ <= maxslot_
                 /\ \A u, v \in slot_ : Precedes(ns_, u, v) => count[u] <= count[v]
        <5>1. s # p
          BY <1>1, <1>2, <1>5, <3>2, <4>3, TurnRestarts
        <5>2. Precedes(ns_, s, t)
          BY <1>1, <1>2, <3>2, <4>3, <5>1, TurnMovesOn DEF p
        <5>3. QED
          BY <3>1, <4>3, <5>1, <5>2
      <4>4. QED
        BY <1>3, <4>1, <4>2, <4>3
    <3>3. QED
      BY <1>1, <1>3, <1>7, <2>2, <3>1, <3>2 DEF TurnsInOrder
  <2>3. QED
    BY <1>3, <2>1, <2>2
<1>11. QED
  BY <1>9, <1>10 DEF EcmpInv

LEMMA InstallInv ==
    ASSUME EcmpInv, NEW s \in Slots, Install(s)
    PROVE  EcmpInv'
<1>1. EcmpType /\ s \in Nat /\ slot_ \subseteq Nat
  BY SlotsAreNatural DEF EcmpInv, EcmpType
<1>2. /\ slot_' = slot_ \union {s} /\ maxslot_' = Max({maxslot_, s})
      /\ count' = Fresh /\ mode' = mode /\ ns_' = ns_
  BY DEF Install
<1>3. /\ maxslot_ \in Int /\ \A t \in slot_ : t <= maxslot_
      /\ IF slot_ = {} THEN maxslot_ < 0 ELSE maxslot_ \in slot_
  <2>1. CASE slot_ = {}
    BY <1>1, <2>1 DEF EcmpType, Highest, NoSlot
  <2>2. CASE slot_ # {}
    <3>1. maxslot_ \in slot_ /\ \A t \in slot_ : t <= maxslot_
      BY <1>1, <2>2 DEF EcmpType, Highest
    <3>2. maxslot_ \in Int
      BY <1>1, <3>1
    <3>3. QED
      BY <2>2, <3>1, <3>2
  <2>3. QED
    BY <2>1, <2>2
<1>4. maxslot_' \in {maxslot_, s} /\ maxslot_ <= maxslot_' /\ s <= maxslot_'
  <2> DEFINE S == {maxslot_, s}
             bound == IF maxslot_ <= s THEN s ELSE maxslot_
  <2>1. S \in SUBSET Int /\ S # {} /\ bound \in Int /\ \A x \in S : x <= bound
    BY <1>1, <1>3
  <2>2. Max(S) \in S /\ \A x \in S : x <= Max(S)
    <3> HIDE DEF S, bound
    <3>1. QED
      BY <2>1, HighestExists
  <2>3. QED
    BY <1>2, <2>2
<1>5. Highest(slot_', maxslot_')
  BY <1>1, <1>2, <1>3, <1>4 DEF EcmpType, Highest, NoSlot
<1>6. EcmpType'
  BY <1>1, <1>2, <1>5 DEF EcmpType, Fresh
<1>7. TurnsInOrder'
  BY <1>1, <1>2 DEF EcmpType, TurnsInOrder, Fresh
<1>8. QED
  BY <1>6, <1>7 DEF EcmpInv

LEMMA ClearInv ==
    ASSUME EcmpInv, NEW s \in Slots, Clear(s)
    PROVE  EcmpInv'
<1> DEFINE rest == slot_ \ {s}
           S    == rest \union {NoSlot}
<1>1. EcmpType /\ slot_ \subseteq Nat /\ NumSlots \in Nat /\ \A t \in slot_ : t < NumSlots
  BY SlotsAreNatural DEF EcmpInv, EcmpType
<1>2. /\ slot_' = rest /\ maxslot_' = Max(S)
      /\ count' = Fresh /\ mode' = mode /\ ns_' = ns_
  BY DEF Clear
<1>3. Max(S) \in S /\ \A x \in S : x <= Max(S)
  <2>1. NoSlot \in Int /\ NoSlot <= NumSlots
    BY <1>1 DEF NoSlot
  <2>2. \A x \in rest : x \in Int /\ x <= NumSlots
    BY <1>1
  <2> HIDE DEF rest
  <2>3. S \in SUBSET Int /\ S # {} /\ \A x \in S : x <= NumSlots
    BY <2>1, <2>2
  <2> HIDE DEF S
  <2>4. QED
    BY <1>1, <2>3, HighestExists
<1>4. Highest(slot_', maxslot_')
  <2>1. CASE rest = {}
    BY <1>2, <1>3, <2>1 DEF Highest
  <2>2. CASE rest # {}
    <3>1. PICK t \in rest : TRUE
      BY <2>2
    <3>2. t \in Nat /\ NoSlot \in Int /\ NoSlot < 0 /\ t <= Max(S)
      BY <1>1, <1>3, <3>1 DEF NoSlot
    <3> HIDE DEF S
    <3>3. Max(S) # NoSlot
      BY <3>2
    <3> USE DEF S
    <3>4. QED
      BY <1>2, <1>3, <2>2, <3>3 DEF Highest
  <2>3. QED
    BY <2>1, <2>2
<1>5. EcmpType'
  BY <1>1, <1>2, <1>4 DEF EcmpType, Fresh
<1>6. TurnsInOrder'
  BY <1>1, <1>2 DEF EcmpType, TurnsInOrder, Fresh
<1>7. QED
  BY <1>5, <1>6 DEF EcmpInv

LEMMA EcmpInductive == EcmpSpec => []EcmpInv
<1>1. EcmpInit => EcmpInv
  BY DEF EcmpInit, EcmpInv, EcmpType, TurnsInOrder, Highest
<1>2. EcmpInv /\ [EcmpNext]_ecmpVars => EcmpInv'
  <2>1. SUFFICES ASSUME EcmpInv, [EcmpNext]_ecmpVars PROVE EcmpInv'
    OBVIOUS
  <2>2. CASE UNCHANGED ecmpVars
    BY <2>1, <2>2 DEF EcmpInv, EcmpType, TurnsInOrder, Highest, ecmpVars
  <2>3. CASE \E f \in Flows, prio \in Prios : ClassifyByHash(f, prio)
    BY <2>1, <2>3 DEF EcmpInv, EcmpType, TurnsInOrder, Highest, ClassifyByHash
  <2>4. QED
    BY <2>1, <2>2, <2>3, InstallInv, ClearInv, ClassifyInTurnInv DEF EcmpNext
<1>3. QED
  BY <1>1, <1>2, PTL DEF EcmpSpec

\* Next hops in turn share the packets evenly, for any number of slots, of which any are
\* in use, and from wherever the turn stands when the routes change.
THEOREM TurnsEven == EcmpSpec => []EvenTurns
<1>1. EcmpInv => EvenTurns
  <2>1. SUFFICES ASSUME EcmpInv, mode = "turn", NEW s \in slot_, NEW t \in slot_
                 PROVE  count[s] <= count[t] + 1
    BY DEF EvenTurns
  <2>2. count[s] \in {0, 1} /\ count[t] \in {0, 1}
    BY <2>1 DEF EcmpInv, TurnsInOrder
  <2>3. QED
    BY <2>2
<1>2. QED
  BY <1>1, EcmpInductive, PTL
-----------------------------------------------------------------------------
\* The hash of a string of bytes is a pair of halves (HashString): its recursion has a
\* solution, of integers, by induction on the length of the string.
IsHash(h, bytes, n) ==
    h = [i \in 0 .. n |-> IF i = 0 THEN <<0, 0>> ELSE HashByte(h[i - 1], bytes[i])]

LEMMA HashByteType ==
    ASSUME NEW result \in Int \X Int, NEW byte \in Int
    PROVE  HashByte(result, byte) \in Int \X Int
<1> DEFINE high == result[1]
           low  == result[2] * 9 + byte
<1>1. high \in Int /\ low \in Int
  OBVIOUS
<1>2. HashByte(result, byte) = <<(high * 9 + low \div 65536) % 65536, low % 65536>>
  BY DEF HashByte
<1> HIDE DEF high, low
<1>3. QED
  BY <1>1, <1>2

LEMMA HashExists ==
    ASSUME NEW bytes, NEW N \in Nat
    PROVE  \E h : IsHash(h, bytes, N)
<1> DEFINE S == {n \in Nat : n <= N => \E h : IsHash(h, bytes, n)}
<1>1. 0 \in S
  <2>1. IsHash([i \in 0 .. 0 |-> <<0, 0>>], bytes, 0)
    BY DEF IsHash
  <2>2. QED
    BY <2>1
<1>2. ASSUME NEW n \in Nat, n \in S, n + 1 <= N
      PROVE  \E h : IsHash(h, bytes, n + 1)
  <2>1. PICK g : IsHash(g, bytes, n)
    BY <1>2
  <2> DEFINE next == HashByte(g[n], bytes[n + 1])
             h == [i \in 0 .. n + 1 |-> IF i <= n THEN g[i] ELSE next]
  <2>2. \A i \in 0 .. n : g[i] = IF i = 0 THEN <<0, 0>> ELSE HashByte(g[i - 1], bytes[i])
    BY <2>1 DEF IsHash
  <2>3. \A i \in 0 .. n + 1 : h[i] = IF i = 0 THEN <<0, 0>> ELSE HashByte(h[i - 1], bytes[i])
    <3>1. TAKE i \in 0 .. n + 1
    <3>2. CASE i <= n
      <4>1. i \in 0 .. n /\ (i # 0 => i - 1 \in 0 .. n)
        BY <3>2
      <4>2. h[i] = g[i] /\ (i # 0 => h[i - 1] = g[i - 1])
        BY <4>1
      <4>3. QED
        BY <2>2, <4>1, <4>2
    <3>3. CASE i = n + 1
      BY <1>2, <3>3
    <3>4. QED
      BY <3>2, <3>3
  <2>4. IsHash(h, bytes, n + 1)
    BY <2>3 DEF IsHash
  <2>5. QED
    BY <2>4
<1>3. \A n \in Nat : n \in S => n + 1 \in S
  <2>1. SUFFICES ASSUME NEW n \in Nat, n \in S, n + 1 <= N
                 PROVE  \E h : IsHash(h, bytes, n + 1)
    OBVIOUS
  <2> HIDE DEF S
  <2>2. QED
    BY <1>2, <2>1
<1> HIDE DEF S
<1>4. N \in S
  BY <1>1, <1>3, NatInduct
<1>5. QED
  BY <1>4 DEF S

LEMMA HashTyped ==
    ASSUME NEW bytes, NEW N \in Nat, \A i \in 1 .. N : bytes[i] \in Int,
           NEW h, IsHash(h, bytes, N)
    PROVE  h[N] \in Int \X Int
<1> DEFINE S == {n \in Nat : n <= N => h[n] \in Int \X Int}
<1>1. \A i \in 0 .. N : h[i] = IF i = 0 THEN <<0, 0>> ELSE HashByte(h[i - 1], bytes[i])
  BY DEF IsHash
<1>2. 0 \in S
  BY <1>1
<1>3. \A n \in Nat : n \in S => n + 1 \in S
  <2>1. SUFFICES ASSUME NEW n \in Nat, n \in S, n + 1 <= N PROVE h[n + 1] \in Int \X Int
    OBVIOUS
  <2>2. h[n] \in Int \X Int /\ bytes[n + 1] \in Int
    BY <2>1
  <2>3. h[n + 1] = HashByte(h[n], bytes[n + 1])
    BY <1>1, <2>1
  <2>4. QED
    BY <2>2, <2>3, HashByteType
<1> HIDE DEF S
<1>4. N \in S
  BY <1>2, <1>3, NatInduct
<1>5. QED
  BY <1>4 DEF S

LEMMA FlowHashType == ASSUME NEW f \in Flows PROVE FlowHash[f] \in Int \X Int
<1> DEFINE bytes == Bytes(NodeId) \o Bytes(f.src) \o Bytes(f.dst) \o Bytes(f.fid)
           N == Len(bytes)
<1>1. \A x \in Nat : Bytes(x) \in Seq(Int)
  <2>1. TAKE x \in Nat
  <2>2. \A i \in 1 .. 4 : Bytes(x)[i] \in Int
    <3>1. TAKE i \in 1 .. 4
    <3> DEFINE unit == <<1, 256, 65536, 16777216>>[i]
               b == (x \div unit) % 256
    <3>2. unit \in Nat \ {0}
      OBVIOUS
    <3> HIDE DEF unit
    <3>3. b \in Int
      BY <3>2
    <3>4. Bytes(x)[i] = IF b >= 128 THEN b - 256 ELSE b
      BY DEF Bytes, unit
    <3> HIDE DEF b
    <3>5. QED
      BY <3>3, <3>4
  <2>3. Bytes(x) = [i \in 1 .. 4 |-> Bytes(x)[i]]
    BY DEF Bytes
  <2>4. QED
    BY <2>2, <2>3, SeqDef
<1>2. NodeId \in Nat /\ f.src \in Nat /\ f.dst \in Nat /\ f.fid \in Nat
  BY EcmpAssumption DEF Flows
<1>3. bytes \in Seq(Int)
  BY <1>1, <1>2, ConcatProperties
<1> HIDE DEF bytes
<1>4. N \in Nat /\ \A i \in 1 .. N : bytes[i] \in Int
  BY <1>3, LenProperties, ElementOfSeq
<1>5. PICK h : IsHash(h, bytes, N)
  BY <1>4, HashExists
<1>6. HashString(bytes) = (CHOOSE g : IsHash(g, bytes, N))[N]
  BY DEF HashString, IsHash
<1>7. \A g : IsHash(g, bytes, N) => g[N] \in Int \X Int
  BY <1>4, <1>5, HashTyped
<1>8. QED
  BY <1>5, <1>6, <1>7 DEF FlowHash, bytes

\* The slot at which the search for a packet's next hop begins lies within the table.
LEMMA HashBegin ==
    ASSUME NEW f \in Flows, NEW shift \in Nat, NEW n \in Nat \ {0}
    PROVE  (HashMod(FlowHash[f], n) + shift) % n \in 0 .. n - 1
<1> DEFINE h == FlowHash[f]
           x == h[1] * (65536 % n) + h[2]
           y == (x % n) + shift
<1>1. h[1] \in Int /\ h[2] \in Int
  BY FlowHashType
<1> HIDE DEF h
<1>2. 65536 % n \in Int
  OBVIOUS
<1>3. x \in Int
  BY <1>1, <1>2
<1>4. HashMod(h, n) = x % n
  BY DEF HashMod
<1> HIDE DEF x
<1>5. y \in Int
  BY <1>3
<1>6. (HashMod(h, n) + shift) % n = y % n
  BY <1>4
<1> HIDE DEF y
<1>7. y % n \in 0 .. n - 1
  BY <1>5
<1>8. QED
  BY <1>6, <1>7 DEF h

\* A route below the highest that comes or goes moves only the packets it takes over or
\* leaves behind, for every flow and priority.
THEOREM ChangesAreLocal == EcmpSpec => ChangeIsLocal
<1> DEFINE Local == mode # "turn" /\ slot_ # {} /\ maxslot_' = maxslot_ =>
                        \A f \in Flows, prio \in Prios :
                            HashedSlot(f, prio)' # HashedSlot(f, prio) =>
                                \/ HashedSlot(f, prio) \notin slot_'
                                \/ HashedSlot(f, prio)' \notin slot_
<1>1. ASSUME EcmpInv, EcmpInv', [EcmpNext]_ecmpVars PROVE Local
  <2>1. SUFFICES ASSUME mode # "turn", slot_ # {}, maxslot_' = maxslot_,
                        NEW f \in Flows, NEW prio \in Prios,
                        HashedSlot(f, prio) \in slot_', HashedSlot(f, prio)' \in slot_
                 PROVE  HashedSlot(f, prio)' = HashedSlot(f, prio)
    OBVIOUS
  <2> DEFINE n == maxslot_ + 1
             shift == IF mode = "path" THEN prio ELSE 0
             x == (HashMod(FlowHash[f], n) + shift) % n
             p == Probe(x)
  <2>2. mode' = mode
    BY <1>1 DEF EcmpNext, ecmpVars, Install, Clear, ClassifyByHash, ClassifyInTurn
  <2>3. /\ EcmpType /\ EcmpType'
        /\ slot_ \subseteq Nat /\ maxslot_ \in Nat /\ \A t \in slot_ : t <= maxslot_
    BY <1>1, <2>1, SlotsAreNatural DEF EcmpInv, EcmpType, Highest
  <2>4. slot_' # {} /\ slot_' \subseteq Nat
    BY <2>1, <2>3, SlotsAreNatural DEF EcmpType
  <2>5. n \in Nat \ {0} /\ shift \in Nat
    BY <2>3, EcmpAssumption
  <2>6. x \in 0 .. n - 1
    <3> HIDE DEF n, shift
    <3>1. QED
      BY <2>5, HashBegin
  <2>7. x \in Nat /\ x <= maxslot_
    <3> HIDE DEF x
    <3>1. QED
      BY <2>3, <2>6
  <2>8. HashedSlot(f, prio) = p /\ HashedSlot(f, prio)' = p'
    BY <2>1, <2>2 DEF HashedSlot
  <2>9. x' = x
    BY <2>1, <2>2 DEF FlowHash, HashMod
  <2> HIDE DEF x
  <2>10. p \in slot_ /\ \A t \in slot_ : t # p => Precedes(x, p, t)
    BY <2>1, <2>3, <2>7, ProbeFinds
  <2>11. p' \in slot_' /\ \A t \in slot_' : t # p' => Precedes(x, p', t)
    <3>1. p' = ProbeIn(slot_', maxslot_', x)
      BY <2>9 DEF Probe, ProbeIn
    <3>2. slot_' \in SUBSET Slots /\ Highest(slot_', maxslot_')
      BY <2>3 DEF EcmpType
    <3>3. QED
      BY <2>1, <2>4, <2>7, <3>1, <3>2, ProbeInFinds
  <2>12. QED
    <3> DEFINE q == p'
    <3>1. q \in slot_ /\ p \in slot_' /\ q \in slot_'
      BY <2>1, <2>8, <2>11
    <3>2. q # p => Precedes(x, p, q) /\ Precedes(x, q, p)
      BY <2>10, <2>11, <3>1
    <3>3. p \in Nat /\ q \in Nat
      BY <2>3, <2>10, <3>1
    <3> HIDE DEF p, q
    <3>4. p = q
      BY <2>7, <3>2, <3>3 DEF Precedes
    <3>5. QED
      BY <2>8, <3>4 DEF q
<1>2. QED
  BY <1>1, EcmpInductive, PTL DEF EcmpSpec, ChangeIsLocal
=============================================================================
