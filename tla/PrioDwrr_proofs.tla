-------------------------- MODULE PrioDwrr_proofs --------------------------
(***************************************************************************)
(* sch_prio_dwrr for any number of priority and DWRR queues, any packets   *)
(* and any writes to its parameters: its counters, its active list and the *)
(* sum of the active quanta are exact, a class gets its quantum once per   *)
(* turn, the samples of the round time are of one turn, MQ-ECN is never    *)
(* laxer than the port's threshold, and the qdisc implements a port of     *)
(* FIFOs in strict priority (PriorityFifos).                               *)
(***************************************************************************)
EXTENDS PrioDwrrQdisc, PrioPortLemmas

\* The turn of a DWRR queue.  A queue in its turn has the whole quantum of the turn left,
\* as much as its largest packet needs, until it sends.
ClassTurn(c) ==
    /\ start_time[c] <= now
    /\ queue_quantum[c] \in QuantumChoices[c]
    /\ c \in Range(activeList) => quantum[c] \in QuantumChoices[c]
    /\ curr[c] => /\ c \in Range(activeList)
                  /\ deficit[c] >= quantum[c] \/ last_pkt_time[c] >= start_time[c]

\* A dequeue that has found no priority packet finds none until it ends, for it holds
\* the root lock.
Turns ==
    /\ last_idle_time <= now
    /\ looping => sum_prio_len_bytes = 0
    /\ \A c \in DwrrQueues : ClassTurn(c)

\* The inductive invariant.
IInv ==
    /\ TypeOK /\ AccountingExact /\ ActiveListExact
    /\ QuantumSumExact /\ CreditOncePerTurn /\ Turns
-----------------------------------------------------------------------------
\* A quotient of natural numbers is one.
LEMMA Quotient == \A a \in Nat, b \in Nat \ {0} : a \div b \in Nat
  OBVIOUS

LEMMA EwmaType ==
    ASSUME NEW smooth \in Nat, NEW sample \in Nat, NEW alpha \in 0 .. AlphaUnit
    PROVE  Ewma(smooth, sample, alpha) \in Nat
<1>1. AlphaUnit \in Nat \ {0} /\ alpha \in Nat /\ AlphaUnit - alpha \in Nat
  BY PrioDwrrAssumption
<1>2. alpha * smooth \in Nat /\ (AlphaUnit - alpha) * sample \in Nat
  BY <1>1
<1>3. QED
  BY <1>1, <1>2, Quotient DEF Ewma

\* The recursion of Decay has a solution, of natural numbers: by induction on its length.
IsDecay(f, estimate, alpha, n) ==
    f = [i \in 0 .. n |-> IF i = 0 THEN estimate ELSE (f[i - 1] * alpha) \div AlphaUnit]

LEMMA DecayExists ==
    ASSUME NEW estimate \in Nat, NEW alpha \in Nat
    PROVE  \A n \in Nat : \E f \in [0 .. n -> Nat] : IsDecay(f, estimate, alpha, n)
<1> DEFINE S == {n \in Nat : \E f \in [0 .. n -> Nat] : IsDecay(f, estimate, alpha, n)}
           Next1(x) == (x * alpha) \div AlphaUnit
<1>1. 0 \in S
  <2>1. [i \in 0 .. 0 |-> estimate] \in [0 .. 0 -> Nat]
    OBVIOUS
  <2>2. IsDecay([i \in 0 .. 0 |-> estimate], estimate, alpha, 0)
    BY DEF IsDecay
  <2>3. QED
    BY <2>1, <2>2
<1>2. ASSUME NEW n \in Nat, n \in S PROVE n + 1 \in S
  <2>1. PICK f \in [0 .. n -> Nat] : IsDecay(f, estimate, alpha, n)
    BY <1>2
  <2> DEFINE g == [i \in 0 .. n + 1 |-> IF i <= n THEN f[i] ELSE Next1(f[n])]
  <2>2. f[n] \in Nat /\ Next1(f[n]) \in Nat
    <3>1. f[n] \in Nat /\ f[n] * alpha \in Nat /\ AlphaUnit \in Nat \ {0}
      BY PrioDwrrAssumption
    <3>2. QED
      BY <3>1, Quotient
  <2>3. g \in [0 .. n + 1 -> Nat]
    BY <2>2
  <2>4. \A i \in 0 .. n + 1 : g[i] = IF i = 0 THEN estimate ELSE Next1(g[i - 1])
    <3>1. TAKE i \in 0 .. n + 1
    <3>2. CASE i <= n
      <4>1. i \in 0 .. n /\ (i # 0 => i - 1 \in 0 .. n)
        BY <3>2
      <4>2. f[i] = IF i = 0 THEN estimate ELSE Next1(f[i - 1])
        BY <2>1, <4>1 DEF IsDecay
      <4>3. g[i] = f[i] /\ (i # 0 => g[i - 1] = f[i - 1])
        BY <4>1
      <4>4. QED
        BY <4>2, <4>3
    <3>3. CASE i = n + 1
      BY <3>3
    <3>4. QED
      BY <3>2, <3>3
  <2>5. IsDecay(g, estimate, alpha, n + 1)
    BY <2>4 DEF IsDecay
  <2>6. QED
    BY <2>3, <2>5
<1> HIDE DEF S
<1>3. \A n \in Nat : n \in S
  BY <1>1, <1>2, NatInduct
<1>4. QED
  BY <1>3 DEF S

LEMMA DecayType ==
    ASSUME NEW estimate \in Nat, NEW alpha \in Nat
    PROVE  \A i \in 0 .. MaxIteration : Decay(estimate, alpha)[i] \in Nat
<1> DEFINE d == Decay(estimate, alpha)
           S == {n \in Nat : n <= MaxIteration => d[n] \in Nat}
<1>1. MaxIteration \in Nat /\ AlphaUnit \in Nat \ {0}
  BY PrioDwrrAssumption
<1>2. \E f : IsDecay(f, estimate, alpha, MaxIteration)
  BY <1>1, DecayExists
<1>3. d = CHOOSE f : IsDecay(f, estimate, alpha, MaxIteration)
  BY DEF Decay, IsDecay
<1> HIDE DEF d
<1>4. IsDecay(d, estimate, alpha, MaxIteration)
  BY <1>2, <1>3
<1>5. \A i \in 0 .. MaxIteration :
          d[i] = IF i = 0 THEN estimate ELSE (d[i - 1] * alpha) \div AlphaUnit
  BY <1>4 DEF IsDecay
<1>6. 0 \in S
  BY <1>1, <1>5
<1>7. ASSUME NEW n \in Nat, n \in S PROVE n + 1 \in S
  <2>1. SUFFICES ASSUME n + 1 <= MaxIteration PROVE d[n + 1] \in Nat
    OBVIOUS
  <2>2. d[n] \in Nat
    BY <1>1, <1>7, <2>1
  <2>3. d[n + 1] = (d[n] * alpha) \div AlphaUnit
    <3>1. n + 1 \in 0 .. MaxIteration /\ n + 1 # 0 /\ (n + 1) - 1 = n
      BY <1>1, <2>1
    <3>2. QED
      BY <1>5, <3>1
  <2>4. d[n] * alpha \in Nat
    BY <2>2
  <2>5. QED
    BY <1>1, <2>3, <2>4, Quotient
<1> HIDE DEF S
<1>8. \A n \in Nat : n \in S
  BY <1>6, <1>7, NatInduct
<1>9. QED
  BY <1>1, <1>8 DEF S, d

\* The estimates after an idle period.
LEMMA AfterIdleType ==
    ASSUME NEW estimate \in Nat, NEW alpha \in Nat, NEW interval \in Nat
    PROVE  AfterIdle(estimate, alpha, interval) \in Nat
<1> DEFINE slots == interval \div IdleInterval
<1>1. CASE IdleInterval > 0 /\ slots <= MaxIteration
  <2>1. IdleInterval \in Nat \ {0} /\ MaxIteration \in Nat
    BY <1>1, PrioDwrrAssumption
  <2>2. slots \in 0 .. MaxIteration
    BY <1>1, <2>1, Quotient
  <2>3. QED
    BY <1>1, <2>2, DecayType DEF AfterIdle
<1>2. CASE ~ (IdleInterval > 0 /\ slots <= MaxIteration)
  BY <1>2 DEF AfterIdle
<1>3. QED
  BY <1>1, <1>2

LEMMA AlphaTypes ==
    /\ RoundAlpha \in 0 .. AlphaUnit /\ QuantumAlpha \in 0 .. AlphaUnit
    /\ RoundAlpha \in Nat /\ QuantumAlpha \in Nat
<1>1. RoundAlpha \in 0 .. AlphaUnit /\ QuantumAlpha \in 0 .. AlphaUnit /\ AlphaUnit \in Nat
  BY PrioDwrrAssumption
<1>2. QED
  BY <1>1
-----------------------------------------------------------------------------
\* The two kinds of queues.
LEMMA Kinds ==
    /\ PrioQueues \subseteq Queues /\ DwrrQueues \subseteq Queues
    /\ PrioQueues \cap DwrrQueues = {} /\ PrioQueues \cup DwrrQueues = Queues
<1>1. PrioQueues \subseteq Queues
  BY PrioAssumption, BufferAssumption DEF PrioQueues, Queues
<1>2. QED
  BY <1>1 DEF DwrrQueues

LEMMA PortFacts == ASSUME IInv PROVE PortTypeOK /\ PortAccounting
  BY DEF IInv, TypeOK, AccountingExact

\* A quantum is enough for any packet.
LEMMA QuantumCovers ==
    ASSUME NEW c \in DwrrQueues, NEW q \in QuantumChoices[c]
    PROVE  q \in Nat /\ \A len \in PktLens : q >= SkbSize(len)
  BY PrioDwrrAssumption

\* The class at the head of the active list.
LEMMA HeadClassFacts ==
    ASSUME IInv, activeList # <<>>, NEW c, c = Head(activeList)
    PROVE  /\ c \in DwrrQueues /\ c \in Queues /\ c \notin PrioQueues
           /\ fifo[c] # <<>> /\ c \in Range(activeList)
           /\ HeadSize(c) \in Nat \ {0}
           /\ \E len \in PktLens : HeadSize(c) = SkbSize(len)
           /\ quantum[c] \in QuantumChoices[c] /\ quantum[c] \in Nat
           /\ quantum[c] >= HeadSize(c)
           /\ Credit(c) \in Nat /\ Credit(c) >= deficit[c]
           /\ ~ curr[c] => Credit(c) >= quantum[c]
<1>1. /\ activeList \in Seq(DwrrQueues) /\ IsInjective(activeList)
      /\ Range(activeList) = {d \in DwrrQueues : fifo[d] # <<>>}
  BY DEF IInv, TypeOK, ActiveListExact
<1>2. c \in DwrrQueues /\ c \in Range(activeList)
  BY <1>1, TailList
<1>3. c \in Queues /\ c \notin PrioQueues /\ fifo[c] # <<>>
  BY <1>1, <1>2, Kinds
<1>4. Head(fifo[c]) \in Packets /\ HeadSize(c) \in Nat \ {0}
  BY <1>3, PortFacts, HeadType
<1>5. PICK len \in PktLens : HeadSize(c) = SkbSize(len)
  BY <1>4 DEF HeadSize, Packets
<1>6. quantum[c] \in QuantumChoices[c]
  BY <1>2 DEF IInv, Turns, ClassTurn
<1>7. quantum[c] \in Nat /\ quantum[c] >= HeadSize(c)
  BY <1>2, <1>5, <1>6, QuantumCovers
<1>8. deficit[c] \in Nat
  BY <1>2 DEF IInv, TypeOK
<1>9. Credit(c) \in Nat /\ Credit(c) >= deficit[c] /\ (~ curr[c] => Credit(c) >= quantum[c])
  BY <1>7, <1>8 DEF Credit
<1>10. QED
  BY <1>2, <1>3, <1>4, <1>5, <1>6, <1>7, <1>9

\* A step that changes the turn of one class at most.
LEMMA OneClass ==
    ASSUME IInv, NEW c \in DwrrQueues, ClassTurn(c)',
           now' = now, last_idle_time' <= now', looping' => sum_prio_len_bytes' = 0,
           \A q \in DwrrQueues : q # c =>
               /\ deficit'[q] = deficit[q] /\ curr'[q] = curr[q] /\ quantum'[q] = quantum[q]
               /\ start_time'[q] = start_time[q] /\ last_pkt_time'[q] = last_pkt_time[q]
               /\ queue_quantum'[q] = queue_quantum[q]
               /\ q \in Range(activeList') <=> q \in Range(activeList),
           Range(activeList') \subseteq DwrrQueues,
           c \in Range(activeList') =>
               \E len \in PktLens :
                   deficit'[c] < SkbSize(len) + (IF curr'[c] THEN quantum'[c] ELSE 0)
    PROVE  Turns' /\ CreditOncePerTurn'
<1>1. \A q \in DwrrQueues : ClassTurn(q)'
  <2>1. SUFFICES ASSUME NEW q \in DwrrQueues, q # c PROVE ClassTurn(q)'
    OBVIOUS
  <2>2. ClassTurn(q)
    BY DEF IInv, Turns
  <2>3. QED
    BY <2>1, <2>2 DEF ClassTurn
<1>2. Turns'
  BY <1>1 DEF Turns
<1>3. CreditOncePerTurn'
  <2>1. SUFFICES ASSUME NEW q \in Range(activeList')
                 PROVE  \E len \in PktLens :
                            deficit'[q] < SkbSize(len) + (IF curr'[q] THEN quantum'[q] ELSE 0)
    BY DEF CreditOncePerTurn
  <2>2. CASE q # c
    <3>1. q \in DwrrQueues /\ q \in Range(activeList)
      BY <2>2
    <3>2. \E len \in PktLens :
              deficit[q] < SkbSize(len) + (IF curr[q] THEN quantum[q] ELSE 0)
      BY <3>1 DEF IInv, CreditOncePerTurn
    <3>3. deficit'[q] = deficit[q] /\ curr'[q] = curr[q] /\ quantum'[q] = quantum[q]
      BY <2>2, <3>1
    <3>4. QED
      BY <3>2, <3>3
  <2>3. QED
    BY <2>2
<1>4. QED
  BY <1>2, <1>3
-----------------------------------------------------------------------------
\* A step that leaves every turn alone.
LEMMA SameTurns ==
    ASSUME IInv, PortTypeOK', PortAccounting',
           UNCHANGED <<turnVars, sentVars>>,
           \A c \in DwrrQueues : fifo'[c] # <<>> <=> fifo[c] # <<>>,
           queue_quantum' \in [DwrrQueues -> Nat],
           \A c \in DwrrQueues : queue_quantum'[c] \in QuantumChoices[c],
           round_time' \in Nat, quantum_sum_estimate' \in Nat,
           now <= now',
           looping' \in BOOLEAN, looping' => sum_prio_len_bytes' = 0,
           sum_prio_len_bytes' \in Int,
           sum_prio_len_bytes' = TotalOver(PrioQueues, len_bytes')
    PROVE  IInv'
<1>1. TypeOK'
  BY DEF IInv, TypeOK, turnVars, sentVars
<1>2. AccountingExact'
  BY DEF AccountingExact
<1>3. ActiveListExact'
  BY DEF IInv, ActiveListExact, turnVars
<1>4. QuantumSumExact'
  BY DEF IInv, QuantumSumExact, turnVars
<1>5. CreditOncePerTurn'
  BY DEF IInv, CreditOncePerTurn, turnVars
<1>6. Turns'
  <2>1. now \in Nat /\ now' \in Nat /\ last_idle_time \in Nat
    BY DEF IInv, TypeOK, PortTypeOK
  <2>2. last_idle_time' <= now'
    BY <2>1 DEF IInv, Turns, sentVars
  <2>3. ASSUME NEW c \in DwrrQueues PROVE ClassTurn(c)'
    <3>1. ClassTurn(c) /\ start_time[c] \in Nat
      BY DEF IInv, Turns, TypeOK
    <3>2. start_time'[c] <= now'
      BY <2>1, <3>1 DEF ClassTurn, turnVars
    <3>3. QED
      BY <3>1, <3>2 DEF ClassTurn, turnVars, sentVars
  <2>4. QED
    BY <2>2, <2>3 DEF Turns
<1>7. QED
  BY <1>1, <1>2, <1>3, <1>4, <1>5, <1>6 DEF IInv

\* What SameTurns asks for, of a step that writes no variable of the DWRR queues.
LEMMA SameDwrr ==
    ASSUME IInv, UNCHANGED dwrrVars, fifo' = fifo, len_bytes' = len_bytes,
           PortTypeOK', PortAccounting', now <= now'
    PROVE  IInv'
<1>1. /\ UNCHANGED <<turnVars, sentVars>> /\ \A c \in DwrrQueues : fifo'[c] # <<>> <=> fifo[c] # <<>>
      /\ queue_quantum' \in [DwrrQueues -> Nat]
      /\ round_time' \in Nat /\ quantum_sum_estimate' \in Nat
  BY DEF dwrrVars, estimates, IInv, TypeOK
<1>2. \A c \in DwrrQueues : queue_quantum'[c] \in QuantumChoices[c]
  BY DEF dwrrVars, IInv, Turns, ClassTurn
<1>3. looping' \in BOOLEAN /\ (looping' => sum_prio_len_bytes' = 0)
  BY DEF dwrrVars, IInv, Turns, TypeOK
<1>4. sum_prio_len_bytes' \in Int /\ sum_prio_len_bytes' = TotalOver(PrioQueues, len_bytes')
  BY DEF dwrrVars, IInv, AccountingExact, TypeOK
<1>5. QED
  BY <1>1, <1>2, <1>3, <1>4, SameTurns
-----------------------------------------------------------------------------
LEMMA DecayFacts ==
    ASSUME IInv, DecayEstimates
    PROVE  round_time' \in Nat /\ quantum_sum_estimate' \in Nat
<1>1. /\ round_time \in Nat /\ quantum_sum_estimate \in Nat
      /\ now \in Nat /\ last_idle_time \in Nat /\ last_idle_time <= now
  BY DEF IInv, TypeOK, PortTypeOK, Turns
<1>2. now - last_idle_time \in Nat
  BY <1>1
<1>3. /\ AfterIdle(round_time, RoundAlpha, now - last_idle_time) \in Nat
      /\ AfterIdle(quantum_sum_estimate, QuantumAlpha, now - last_idle_time) \in Nat
  BY <1>1, <1>2, AlphaTypes, AfterIdleType
<1>4. QED
  BY <1>1, <1>3 DEF DecayEstimates, estimates

\* What every enqueue leaves as it should be.
LEMMA EnqueueCommon ==
    ASSUME IInv, DecayEstimates, UNCHANGED <<now, queue_quantum>>
    PROVE  /\ round_time' \in Nat /\ quantum_sum_estimate' \in Nat
           /\ queue_quantum' \in [DwrrQueues -> Nat]
           /\ \A d \in DwrrQueues : queue_quantum'[d] \in QuantumChoices[d]
           /\ now \in Nat /\ now <= now'
<1>1. queue_quantum \in [DwrrQueues -> Nat] /\ now \in Nat
  BY DEF IInv, TypeOK, PortTypeOK
<1>2. \A d \in DwrrQueues : queue_quantum[d] \in QuantumChoices[d]
  BY DEF IInv, Turns, ClassTurn
<1>3. QED
  BY <1>1, <1>2, DecayFacts

\* The lengths of the priority queues when only that of another queue changes.
LEMMA SamePrioTotal ==
    ASSUME NEW c \in DwrrQueues, len_bytes \in [Queues -> Int], len_bytes' \in [Queues -> Int],
           \A q \in Queues : q # c => len_bytes'[q] = len_bytes[q]
    PROVE  TotalOver(PrioQueues, len_bytes') = TotalOver(PrioQueues, len_bytes)
<1> DEFINE more == 0
<1>1. c \in Queues /\ c \notin PrioQueues
  BY Kinds
<1>2. more \in Int
  OBVIOUS
<1>3. /\ \A q \in Queues : q \in PrioQueues => len_bytes[q] \in Int
      /\ \A q \in Queues : q \in PrioQueues => len_bytes'[q] \in Int
  OBVIOUS
<1>4. (IF c \in PrioQueues THEN len_bytes'[c] ELSE 0)
          = (IF c \in PrioQueues THEN len_bytes[c] ELSE 0) + more
  BY <1>1
<1>5. \A q \in Queues : q # c =>
          /\ q \in PrioQueues <=> q \in PrioQueues
          /\ q \in PrioQueues => len_bytes'[q] = len_bytes[q]
  OBVIOUS
<1> HIDE DEF more
<1>6. TotalOver(PrioQueues, len_bytes') = TotalOver(PrioQueues, len_bytes) + more
  BY <1>1, <1>2, <1>3, <1>4, <1>5, TotalOverChange
<1>7. TotalOver(PrioQueues, len_bytes) \in Int
  <2> DEFINE F == [q \in Queues |-> IF q \in PrioQueues THEN len_bytes[q] ELSE 0]
  <2>1. F \in [Queues -> Int]
    OBVIOUS
  <2>2. TotalOver(PrioQueues, len_bytes) = Total(F)
    BY DEF TotalOver
  <2> HIDE DEF F
  <2>3. QED
    BY <2>1, <2>2, TotalInt
<1>8. QED
  BY <1>6, <1>7 DEF more

\* A packet joins a priority queue.
LEMMA AdmitPrioInv ==
    ASSUME IInv, NEW c \in Queues, NEW len \in PktLens, AdmitPrio(c, len), DecayEstimates,
           ~ looping, run' \in BOOLEAN,
           UNCHANGED <<now, watchdog, wire, configVars, bucketVars, queue_quantum, sentVars,
                       looping>>
    PROVE  IInv' /\ \E pkt \in Packets : fifo' = [fifo EXCEPT ![c] = Append(@, pkt)]
<1> DEFINE ce == StaticMark(c) \/ (MqEcn /\ len_bytes'[c] > QueueThresh[c])
<1>1. ce \in BOOLEAN
  OBVIOUS
<1>2. /\ c \in PrioQueues /\ Insert(c, len, ce) /\ UNCHANGED turnVars
      /\ sum_prio_len_bytes' = sum_prio_len_bytes + SkbSize(len)
  BY DEF AdmitPrio
<1> HIDE DEF ce
<1>3. /\ PortTypeOK' /\ PortAccounting'
      /\ \E pkt \in Packets : fifo' = [fifo EXCEPT ![c] = Append(@, pkt)]
      /\ len_bytes' = [len_bytes EXCEPT ![c] = @ + SkbSize(len)]
      /\ \A d \in Queues : d # c => fifo'[d] = fifo[d] /\ len_bytes'[d] = len_bytes[d]
      /\ len_bytes \in [Queues -> Int] /\ SkbSize(len) \in Nat \ {0}
  BY <1>1, <1>2, InsertPort, PortFacts
<1>4. \A d \in DwrrQueues : fifo'[d] # <<>> <=> fifo[d] # <<>>
  BY <1>2, <1>3, Kinds
<1>5. /\ sum_prio_len_bytes \in Int
      /\ sum_prio_len_bytes = TotalOver(PrioQueues, len_bytes)
  BY DEF IInv, TypeOK, AccountingExact
<1>6. TotalOver(PrioQueues, len_bytes') = TotalOver(PrioQueues, len_bytes) + SkbSize(len)
  <2> DEFINE more == SkbSize(len)
  <2>1. more \in Int /\ len_bytes \in [Queues -> Int]
        /\ len_bytes' = [len_bytes EXCEPT ![c] = @ + more]
    BY <1>3
  <2> HIDE DEF more
  <2>2. TotalOver(PrioQueues, [len_bytes EXCEPT ![c] = @ + more])
            = TotalOver(PrioQueues, len_bytes) + (IF c \in PrioQueues THEN more ELSE 0)
    BY <2>1, PrioTotalChange
  <2>3. QED
    BY <1>2, <2>1, <2>2 DEF more
<1>7. /\ sum_prio_len_bytes' \in Int
      /\ sum_prio_len_bytes' = TotalOver(PrioQueues, len_bytes')
  BY <1>2, <1>3, <1>5, <1>6
<1>8. /\ round_time' \in Nat /\ quantum_sum_estimate' \in Nat
      /\ queue_quantum' \in [DwrrQueues -> Nat]
      /\ \A d \in DwrrQueues : queue_quantum'[d] \in QuantumChoices[d]
      /\ now \in Nat /\ now <= now'
  BY EnqueueCommon
<1>9. looping' \in BOOLEAN /\ (looping' => sum_prio_len_bytes' = 0)
  BY DEF IInv, TypeOK
<1>10. IInv'
  BY <1>2, <1>3, <1>4, <1>7, <1>8, <1>9, SameTurns
<1>11. QED
  BY <1>3, <1>10

\* A packet joins a DWRR queue, which joins the active list if it was empty.
LEMMA AdmitDwrrInv ==
    ASSUME IInv, NEW c \in Queues, NEW len \in PktLens, AdmitDwrr(c, len), DecayEstimates,
           ~ looping, run' \in BOOLEAN,
           UNCHANGED <<now, watchdog, wire, configVars, bucketVars, queue_quantum, sentVars,
                       looping>>
    PROVE  IInv' /\ \E pkt \in Packets : fifo' = [fifo EXCEPT ![c] = Append(@, pkt)]
<1> DEFINE ce == StaticMark(c) \/ MqEcnMark(c)
<1>1. ce \in BOOLEAN
  OBVIOUS
<1>2. /\ c \in DwrrQueues /\ Insert(c, len, ce)
      /\ sum_prio_len_bytes' = sum_prio_len_bytes
      /\ IF Active(c) THEN UNCHANGED turnVars ELSE Activate(c)
  BY DEF AdmitDwrr
<1> HIDE DEF ce
<1>3. /\ PortTypeOK' /\ PortAccounting'
      /\ \E pkt \in Packets : fifo' = [fifo EXCEPT ![c] = Append(@, pkt)]
      /\ len_bytes' = [len_bytes EXCEPT ![c] = @ + SkbSize(len)]
      /\ fifo'[c] # <<>>
      /\ \A d \in Queues : d # c => fifo'[d] = fifo[d] /\ len_bytes'[d] = len_bytes[d]
      /\ len_bytes \in [Queues -> Int] /\ SkbSize(len) \in Nat \ {0}
  BY <1>1, <1>2, InsertPort, PortFacts
<1>4. /\ sum_prio_len_bytes' \in Int
      /\ sum_prio_len_bytes' = TotalOver(PrioQueues, len_bytes')
  <2>1. /\ sum_prio_len_bytes \in Int
        /\ sum_prio_len_bytes = TotalOver(PrioQueues, len_bytes)
    BY DEF IInv, TypeOK, AccountingExact
  <2>2. len_bytes' \in [Queues -> Int]
    BY <1>3
  <2>3. TotalOver(PrioQueues, len_bytes') = TotalOver(PrioQueues, len_bytes)
    BY <1>2, <1>3, <2>2, SamePrioTotal
  <2>4. QED
    BY <1>2, <2>1, <2>3
<1>5. /\ round_time' \in Nat /\ quantum_sum_estimate' \in Nat
      /\ queue_quantum' \in [DwrrQueues -> Nat]
      /\ \A d \in DwrrQueues : queue_quantum'[d] \in QuantumChoices[d]
      /\ now \in Nat /\ now <= now'
  BY EnqueueCommon
<1>6. looping' \in BOOLEAN /\ (looping' => sum_prio_len_bytes' = 0)
  BY DEF IInv, TypeOK
<1>7. /\ activeList \in Seq(DwrrQueues) /\ IsInjective(activeList)
      /\ Range(activeList) = {d \in DwrrQueues : fifo[d] # <<>>}
  BY DEF IInv, TypeOK, ActiveListExact
<1>8. CASE Active(c)
  <2>1. fifo[c] # <<>>
    BY <1>7, <1>8 DEF Active
  <2>2. \A d \in DwrrQueues : fifo'[d] # <<>> <=> fifo[d] # <<>>
    BY <1>3, <2>1, Kinds
  <2>3. UNCHANGED turnVars
    BY <1>2, <1>8
  <2>4. IInv'
    BY <1>3, <1>4, <1>5, <1>6, <2>2, <2>3, SameTurns
  <2>5. QED
    BY <1>3, <2>4
<1>9. CASE ~ Active(c)
  <2>1. /\ deficit' = [deficit EXCEPT ![c] = 0]
        /\ curr' = [curr EXCEPT ![c] = FALSE]
        /\ start_time' = [start_time EXCEPT ![c] = now]
        /\ quantum' = [quantum EXCEPT ![c] = queue_quantum[c]]
        /\ activeList' = Append(activeList, c)
        /\ quantum_sum' = quantum_sum + quantum'[c]
    BY <1>2, <1>9 DEF Activate
  <2>2. /\ deficit \in [DwrrQueues -> Nat] /\ curr \in [DwrrQueues -> BOOLEAN]
        /\ start_time \in [DwrrQueues -> Nat] /\ quantum \in [DwrrQueues -> Nat]
        /\ queue_quantum \in [DwrrQueues -> Nat] /\ quantum_sum \in Nat
        /\ last_pkt_time \in [DwrrQueues -> Nat]
    BY DEF IInv, TypeOK
  <2>3. c \notin Range(activeList)
    BY <1>9 DEF Active
  <2>4. /\ activeList' \in Seq(DwrrQueues) /\ IsInjective(activeList')
        /\ Range(activeList') = Range(activeList) \cup {c}
    BY <1>2, <1>7, <2>1, <2>3, AppendList
  <2>5. /\ quantum'[c] = queue_quantum[c] /\ quantum'[c] \in Nat
        /\ \A q \in DwrrQueues : q # c => quantum'[q] = quantum[q]
    BY <1>2, <2>1, <2>2
  <2>6. TypeOK'
    <3>1. /\ deficit' \in [DwrrQueues -> Nat] /\ curr' \in [DwrrQueues -> BOOLEAN]
          /\ start_time' \in [DwrrQueues -> Nat] /\ quantum' \in [DwrrQueues -> Nat]
          /\ quantum_sum' \in Nat
      <4>1. deficit' \in [DwrrQueues -> Nat] /\ start_time' \in [DwrrQueues -> Nat]
        BY <1>5, <2>1, <2>2
      <4>2. FALSE \in BOOLEAN
        OBVIOUS
      <4>3. curr' \in [DwrrQueues -> BOOLEAN]
        BY <2>1, <2>2, <4>2
      <4>4. quantum' \in [DwrrQueues -> Nat] /\ quantum_sum' \in Nat
        BY <1>2, <2>1, <2>2, <2>5
      <4>5. QED
        BY <4>1, <4>3, <4>4
    <3>2. QED
      BY <1>3, <1>4, <1>5, <1>6, <2>4, <3>1 DEF IInv, TypeOK, sentVars
  <2>7. AccountingExact'
    BY <1>3, <1>4 DEF AccountingExact
  <2>8. ActiveListExact'
    <3>1. {d \in DwrrQueues : fifo'[d] # <<>>} = Range(activeList) \cup {c}
      BY <1>2, <1>3, <1>7, Kinds
    <3>2. QED
      BY <2>4, <3>1 DEF ActiveListExact
  <2>9. QuantumSumExact'
    <3>1. quantum_sum = TotalOver(Range(activeList), quantum)
      BY DEF IInv, QuantumSumExact
    <3>2. /\ \A q \in Queues : q \in Range(activeList) => quantum[q] \in Int
          /\ \A q \in Queues : q \in Range(activeList') => quantum'[q] \in Int
          /\ \A q \in Queues : q # c =>
                 /\ q \in Range(activeList) <=> q \in Range(activeList')
                 /\ q \in Range(activeList) => quantum'[q] = quantum[q]
      BY <1>2, <1>7, <2>2, <2>4, <2>5
    <3>3. (IF c \in Range(activeList') THEN quantum'[c] ELSE 0)
              = (IF c \in Range(activeList) THEN quantum[c] ELSE 0) + quantum'[c]
      BY <2>3, <2>4, <2>5
    <3>4. quantum'[c] \in Int
      BY <2>5
    <3>5. TotalOver(Range(activeList'), quantum')
              = TotalOver(Range(activeList), quantum) + quantum'[c]
      BY <3>2, <3>3, <3>4, TotalOverChange
    <3>6. QED
      BY <2>1, <3>1, <3>5 DEF QuantumSumExact
  <2>10. Turns' /\ CreditOncePerTurn'
    <3>1. ClassTurn(c)
      BY <1>2 DEF IInv, Turns
    <3>2. /\ start_time'[c] = now /\ curr'[c] = FALSE /\ deficit'[c] = 0
          /\ queue_quantum'[c] = queue_quantum[c] /\ now' = now
      BY <1>2, <2>1, <2>2
    <3>3. ClassTurn(c)'
      BY <1>5, <2>5, <3>1, <3>2 DEF ClassTurn
    <3>4. /\ now' = now /\ last_idle_time' <= now'
      BY DEF IInv, Turns, sentVars
    <3>5. \A q \in DwrrQueues : q # c =>
              /\ deficit'[q] = deficit[q] /\ curr'[q] = curr[q] /\ quantum'[q] = quantum[q]
              /\ start_time'[q] = start_time[q] /\ last_pkt_time'[q] = last_pkt_time[q]
              /\ queue_quantum'[q] = queue_quantum[q]
              /\ q \in Range(activeList') <=> q \in Range(activeList)
      BY <2>1, <2>2, <2>4 DEF sentVars
    <3>6. Range(activeList') \subseteq DwrrQueues
      BY <1>2, <1>7, <2>4
    <3>7. deficit'[c] < SkbSize(len) + (IF curr'[c] THEN quantum'[c] ELSE 0)
      BY <1>3, <3>2
    <3>8. QED
      BY <1>2, <1>6, <3>3, <3>4, <3>5, <3>6, <3>7, OneClass
  <2>11. IInv'
    BY <2>6, <2>7, <2>8, <2>9, <2>10 DEF IInv
  <2>12. QED
    BY <1>3, <2>11
<1>10. QED
  BY <1>8, <1>9

LEMMA EnqueueFacts ==
    ASSUME IInv, NEW dscp \in Dscps, NEW len \in PktLens, Enqueue(dscp, len)
    PROVE  /\ IInv'
           /\ Classify(dscp) \in Queues
           /\ \/ UNCHANGED fifo
              \/ \E pkt : fifo' = [fifo EXCEPT ![Classify(dscp)] = Append(@, pkt)]
           /\ UNCHANGED wire
<1> DEFINE c == Classify(dscp)
<1>1. /\ c \in Queues
      /\ ~ looping /\ run' = TRUE /\ DecayEstimates
      /\ UNCHANGED <<now, watchdog, wire, configVars, bucketVars, queue_quantum, sentVars,
                     looping>>
      /\ Drop(c, len) \/ AdmitPrio(c, len) \/ AdmitDwrr(c, len)
  BY ClassifyType DEF Enqueue
<1> HIDE DEF c
<1>2. run' \in BOOLEAN
  BY <1>1, Zenon
<1>3. CASE Drop(c, len)
  <2>1. UNCHANGED <<fifoVars, turnVars, sum_prio_len_bytes>>
    BY <1>3 DEF Drop
  <2>2. PortTypeOK'
    BY <1>1, <1>2, <2>1, PortFacts DEF PortTypeOK, configVars, fifoVars, bucketVars
  <2>3. PortAccounting'
    BY <2>1, PortFacts DEF PortAccounting, fifoVars
  <2>4. /\ round_time' \in Nat /\ quantum_sum_estimate' \in Nat
        /\ queue_quantum' \in [DwrrQueues -> Nat]
        /\ \A d \in DwrrQueues : queue_quantum'[d] \in QuantumChoices[d]
        /\ now \in Nat /\ now <= now'
    BY <1>1, EnqueueCommon
  <2>5. /\ looping' \in BOOLEAN /\ (looping' => sum_prio_len_bytes' = 0)
        /\ sum_prio_len_bytes' \in Int
        /\ sum_prio_len_bytes' = TotalOver(PrioQueues, len_bytes')
        /\ fifo' = fifo
    BY <1>1, <2>1 DEF IInv, TypeOK, AccountingExact, fifoVars
  <2>6. /\ UNCHANGED <<turnVars, sentVars>>
        /\ \A d \in DwrrQueues : fifo'[d] # <<>> <=> fifo[d] # <<>>
    BY <1>1, <2>1, <2>5
  <2>7. IInv'
    BY <2>2, <2>3, <2>4, <2>5, <2>6, SameTurns
  <2>8. QED
    BY <1>1, <2>5, <2>7 DEF c
<1>4. CASE AdmitPrio(c, len)
  BY <1>1, <1>2, <1>4, AdmitPrioInv DEF c
<1>5. CASE AdmitDwrr(c, len)
  BY <1>1, <1>2, <1>5, AdmitDwrrInv DEF c
<1>6. QED
  BY <1>1, <1>3, <1>4, <1>5
-----------------------------------------------------------------------------
\* The choice between priority and DWRR queues: the sum of the lengths of the priority
\* queues is zero just when they are empty.
LEMMA PrioBusy ==
    ASSUME IInv
    PROVE  /\ sum_prio_len_bytes > 0 => BusyPrioQueues # {}
           /\ ~ (sum_prio_len_bytes > 0) => \A c \in PrioQueues : fifo[c] = <<>>
<1>1. PortTypeOK /\ PortAccounting /\ sum_prio_len_bytes = TotalOver(PrioQueues, len_bytes)
  BY PortFacts DEF IInv, AccountingExact
<1>2. QED
  BY <1>1, PrioSumFacts

\* A dequeue that returns NULL at the priority queues, or finds nothing.
LEMMA NullInv ==
    ASSUME IInv,
           DequeueNothing \/ (PrioTurn /\ ThrottlePrio(PrioHead))
    PROVE  IInv' /\ wire' = NoPacket /\ fifo' = fifo /\ UNCHANGED dwrrVars
<1>1. PortTypeOK /\ PortAccounting
  BY PortFacts
<1>2. \E result \in Int : result <= 0 /\ (Arm(result) \/ ReturnNull)
  <2>1. CASE DequeueNothing
    <3>1. 0 \in Int /\ 0 <= 0 /\ (Arm(0) \/ ReturnNull)
      BY <2>1 DEF DequeueNothing
    <3>2. QED
      BY <3>1
  <2>2. CASE PrioTurn /\ ThrottlePrio(PrioHead)
    <3> DEFINE result == Result(HeadSize(PrioHead))
    <3>1. PrioHead \in Queues /\ fifo[PrioHead] # <<>>
      BY <2>2, PrioBusy, PrioHeadType DEF PrioTurn
    <3>2. HeadSize(PrioHead) \in Nat
      BY <1>1, <3>1, HeadType
    <3>3. result \in Int /\ result < 0 /\ Arm(result)
      BY <1>1, <2>2, <3>2, ResultType DEF ThrottlePrio
    <3> HIDE DEF result
    <3>4. QED
      BY <3>3
  <2>3. QED
    BY <2>1, <2>2
<1>3. PICK result \in Int : result <= 0 /\ (Arm(result) \/ ReturnNull)
  BY <1>2
<1>4. /\ PortTypeOK' /\ PortAccounting'
      /\ wire' = NoPacket /\ UNCHANGED <<now, configVars, fifoVars, bucketVars>>
  BY <1>1, <1>3, ArmFacts
<1>5. UNCHANGED dwrrVars
  BY DEF DequeueNothing, ThrottlePrio
<1>6. now \in Nat /\ now <= now' /\ fifo' = fifo /\ len_bytes' = len_bytes
  BY <1>1, <1>4, ClockTypes DEF fifoVars
<1>7. QED
  BY <1>4, <1>5, <1>6, SameDwrr

\* A priority packet leaves.
LEMMA TransmitPrioInv ==
    ASSUME IInv, PrioTurn, NEW c, c = PrioHead, TransmitPrio(c)
    PROVE  /\ IInv'
           /\ c \in Queues /\ fifo[c] # <<>>
           /\ c \in PrioQueues /\ \A d \in PrioQueues : fifo[d] # <<>> => c <= d
           /\ fifo' = [fifo EXCEPT ![c] = Tail(@)]
           /\ Seen(wire') \in {[queue |-> c, size |-> WireSize(Head(fifo[c])), ce |-> ce] :
                                   ce \in {Head(fifo[c]).ce, TRUE}}
           /\ UNCHANGED <<turnVars, sentVars>>
<1> DEFINE result == Result(HeadSize(c))
<1>1. /\ c \in PrioQueues /\ c \in Queues /\ fifo[c] # <<>>
      /\ \A d \in PrioQueues : fifo[d] # <<>> => c <= d
  BY PrioBusy, PrioHeadType DEF PrioTurn
<1>2. /\ Leave(c, result) /\ result >= 0
      /\ sum_prio_len_bytes' = sum_prio_len_bytes - HeadSize(c)
      /\ UNCHANGED <<queue_quantum, turnVars, sentVars, estimates, looping>>
  BY DEF TransmitPrio
<1>3. result \in Nat
  BY <1>1, <1>2, PortFacts, HeadType, ResultType
<1> HIDE DEF result
<1>4. /\ PortTypeOK' /\ PortAccounting' /\ now' = now
      /\ fifo' = [fifo EXCEPT ![c] = Tail(@)]
      /\ \A d \in Queues : d # c => fifo'[d] = fifo[d] /\ len_bytes'[d] = len_bytes[d]
      /\ len_bytes \in [Queues -> Int] /\ len_bytes' \in [Queues -> Int]
      /\ len_bytes'[c] = len_bytes[c] - HeadSize(c)
      /\ HeadSize(c) \in Nat \ {0}
      /\ Seen(wire') \in {[queue |-> c, size |-> WireSize(Head(fifo[c])), ce |-> ce] :
                              ce \in {Head(fifo[c]).ce, TRUE}}
  BY <1>1, <1>2, <1>3, LeavePort, PortFacts
<1>5. \A d \in DwrrQueues : fifo'[d] # <<>> <=> fifo[d] # <<>>
  BY <1>1, <1>4, Kinds
<1>6. /\ sum_prio_len_bytes' \in Int
      /\ sum_prio_len_bytes' = TotalOver(PrioQueues, len_bytes')
  <2> DEFINE less == 0 - HeadSize(c)
  <2>1. /\ sum_prio_len_bytes \in Int
        /\ sum_prio_len_bytes = TotalOver(PrioQueues, len_bytes)
    BY DEF IInv, TypeOK, AccountingExact
  <2>2. less \in Int /\ sum_prio_len_bytes' = sum_prio_len_bytes + less
    BY <1>2, <1>4, <2>1
  <2>3. len_bytes' = [len_bytes EXCEPT ![c] = @ + less]
    BY <1>1, <1>4
  <2> HIDE DEF less
  <2>4. TotalOver(PrioQueues, [len_bytes EXCEPT ![c] = @ + less])
            = TotalOver(PrioQueues, len_bytes) + (IF c \in PrioQueues THEN less ELSE 0)
    BY <1>1, <1>4, <2>2, PrioTotalChange
  <2>5. TotalOver(PrioQueues, len_bytes') = TotalOver(PrioQueues, len_bytes) + less
    BY <1>1, <2>3, <2>4
  <2>6. QED
    BY <2>1, <2>2, <2>5
<1>7. /\ queue_quantum' \in [DwrrQueues -> Nat]
      /\ round_time' \in Nat /\ quantum_sum_estimate' \in Nat
      /\ now \in Nat /\ now <= now'
  <2>1. now \in Nat
    BY PortFacts, ClockTypes
  <2>2. /\ queue_quantum \in [DwrrQueues -> Nat]
        /\ round_time \in Nat /\ quantum_sum_estimate \in Nat
    BY DEF IInv, TypeOK
  <2>3. QED
    BY <1>2, <1>4, <2>1, <2>2 DEF estimates
<1>8. \A d \in DwrrQueues : queue_quantum'[d] \in QuantumChoices[d]
  BY <1>2 DEF IInv, Turns, ClassTurn
<1>9. looping' \in BOOLEAN /\ (looping' => sum_prio_len_bytes' = 0)
  BY <1>2 DEF IInv, TypeOK, PrioTurn
<1>10. UNCHANGED <<turnVars, sentVars>>
  BY <1>2
<1>11. IInv'
  BY <1>4, <1>5, <1>6, <1>7, <1>8, <1>9, <1>10, SameTurns
<1>12. QED
  BY <1>1, <1>4, <1>10, <1>11
-----------------------------------------------------------------------------
\* The turn of the DWRR class c at the head of the list, when it may send.
LEMMA TurnFacts ==
    ASSUME IInv, DwrrTurn, NEW c, c = Head(activeList)
    PROVE  /\ \A d \in PrioQueues : fifo[d] = <<>>
           /\ sum_prio_len_bytes = 0
           /\ ClassTurn(c) /\ curr[c] \in BOOLEAN
           /\ \E len \in PktLens : Credit(c) < SkbSize(len) + quantum[c]
           /\ ~ curr[c] \/ Credit(c) = deficit[c]
           /\ Credit(c) >= quantum[c] \/ last_pkt_time[c] >= start_time[c]
<1>1. c \in DwrrQueues /\ c \in Range(activeList) /\ quantum[c] \in Nat
      /\ (~ curr[c] => Credit(c) >= quantum[c])
  BY HeadClassFacts DEF DwrrTurn
<1>2. sum_prio_len_bytes \in Int /\ curr[c] \in BOOLEAN /\ deficit[c] \in Nat
  BY <1>1 DEF IInv, TypeOK
<1>3. sum_prio_len_bytes = 0 /\ \A d \in PrioQueues : fifo[d] = <<>>
  <2>1. CASE looping
    <3>1. sum_prio_len_bytes = 0
      BY <2>1 DEF IInv, Turns
    <3>2. QED
      BY <3>1, PrioBusy
  <2>2. CASE ~ looping
    <3>1. ~ (sum_prio_len_bytes > 0)
      BY <2>2 DEF DwrrTurn, PrioTurn
    <3>2. 0 <= sum_prio_len_bytes
      <4>1. \A q \in Queues : q \in PrioQueues => len_bytes[q] \in Nat
        <5>1. \A q \in Queues : fifo[q] \in Seq(Packets) /\ len_bytes[q] = WireBytes(fifo[q])
          BY PortFacts DEF PortTypeOK, PortAccounting, Counted
        <5>2. QED
          BY <5>1, BytesType
      <4>2. QED
        BY <4>1, TotalOverType DEF IInv, AccountingExact
    <3>3. QED
      BY <1>2, <3>1, <3>2, PrioBusy
  <2>3. QED
    BY <2>1, <2>2
<1>4. ClassTurn(c)
  BY <1>1 DEF IInv, Turns
<1>5. PICK len \in PktLens : deficit[c] < SkbSize(len) + (IF curr[c] THEN quantum[c] ELSE 0)
  BY <1>1 DEF IInv, CreditOncePerTurn
<1>6. SkbSize(len) \in Nat
  BY SkbSizeType, BufferAssumption
<1>7. CASE curr[c]
  <2>1. Credit(c) = deficit[c]
    BY <1>2, <1>7 DEF Credit
  <2>2. Credit(c) < SkbSize(len) + quantum[c]
    BY <1>5, <1>7, <2>1
  <2>3. QED
    BY <1>2, <1>3, <1>4, <1>7, <2>1, <2>2 DEF ClassTurn
<1>8. CASE ~ curr[c]
  <2>1. Credit(c) = deficit[c] + quantum[c]
    BY <1>8 DEF Credit
  <2>2. Credit(c) < SkbSize(len) + quantum[c]
    BY <1>1, <1>2, <1>5, <1>6, <1>8, <2>1
  <2>3. QED
    BY <1>1, <1>2, <1>3, <1>4, <1>8, <2>2
<1>9. QED
  BY <1>7, <1>8

\* The DWRR class waits for tokens.
LEMMA ThrottleDwrrInv ==
    ASSUME IInv, DwrrTurn, NEW c, c = Head(activeList), ThrottleDwrr(c)
    PROVE  /\ IInv' /\ wire' = NoPacket /\ fifo' = fifo
           /\ UNCHANGED <<start_time, last_pkt_time>>
           /\ \A q \in DwrrQueues : curr[q] => curr'[q]
<1> DEFINE result == Result(HeadSize(c))
<1>1. /\ c \in DwrrQueues /\ c \in Range(activeList) /\ HeadSize(c) \in Nat
      /\ quantum[c] \in QuantumChoices[c] /\ quantum[c] \in Nat /\ Credit(c) \in Nat
  BY HeadClassFacts DEF DwrrTurn
<1>2. /\ Arm(result) /\ result <= 0
      /\ deficit' = [deficit EXCEPT ![c] = Credit(c)]
      /\ curr' = [curr EXCEPT ![c] = TRUE]
      /\ looping' = FALSE
      /\ UNCHANGED <<queue_quantum, quantum, start_time, activeList, quantum_sum, sentVars,
                     estimates, sum_prio_len_bytes>>
  BY DEF ThrottleDwrr
<1>3. result \in Int
  BY <1>1, PortFacts, ResultType
<1> HIDE DEF result
<1>4. Arm(result) \/ ReturnNull
  BY <1>2
<1>5. /\ PortTypeOK' /\ PortAccounting' /\ wire' = NoPacket
      /\ UNCHANGED <<now, configVars, fifoVars, bucketVars>>
  BY <1>2, <1>3, <1>4, PortFacts, ArmFacts
<1>6. /\ deficit \in [DwrrQueues -> Nat] /\ curr \in [DwrrQueues -> BOOLEAN]
  BY DEF IInv, TypeOK
<1>7. /\ deficit' \in [DwrrQueues -> Nat] /\ curr' \in [DwrrQueues -> BOOLEAN]
      /\ deficit'[c] = Credit(c) /\ curr'[c] = TRUE
      /\ \A q \in DwrrQueues : q # c => deficit'[q] = deficit[q] /\ curr'[q] = curr[q]
  <2>1. TRUE \in BOOLEAN
    OBVIOUS
  <2>2. curr' \in [DwrrQueues -> BOOLEAN]
    BY <1>2, <1>6, <2>1
  <2>3. deficit' \in [DwrrQueues -> Nat]
    BY <1>1, <1>2, <1>6
  <2>4. /\ deficit'[c] = Credit(c) /\ curr'[c] = TRUE
        /\ \A q \in DwrrQueues : q # c => deficit'[q] = deficit[q] /\ curr'[q] = curr[q]
    BY <1>1, <1>2, <1>6
  <2>5. QED
    BY <2>2, <2>3, <2>4
<1>8. TypeOK'
  <2>1. looping' \in BOOLEAN
    BY <1>2, Zenon
  <2>2. QED
    BY <1>2, <1>5, <1>7, <2>1 DEF IInv, TypeOK, sentVars, estimates
<1>9. AccountingExact' /\ ActiveListExact' /\ QuantumSumExact'
  BY <1>2, <1>5 DEF IInv, AccountingExact, ActiveListExact, QuantumSumExact, fifoVars
<1>10. Turns' /\ CreditOncePerTurn'
  <2>1. ClassTurn(c)'
    BY <1>1, <1>2, <1>5, <1>7, TurnFacts DEF ClassTurn, sentVars
  <2>2. /\ now' = now /\ last_idle_time' <= now'
        /\ (looping' => sum_prio_len_bytes' = 0)
    BY <1>2, <1>5 DEF IInv, Turns, sentVars
  <2>3. \A q \in DwrrQueues : q # c =>
            /\ deficit'[q] = deficit[q] /\ curr'[q] = curr[q] /\ quantum'[q] = quantum[q]
            /\ start_time'[q] = start_time[q] /\ last_pkt_time'[q] = last_pkt_time[q]
            /\ queue_quantum'[q] = queue_quantum[q]
            /\ q \in Range(activeList') <=> q \in Range(activeList)
    BY <1>2, <1>7 DEF sentVars
  <2>4. Range(activeList') \subseteq DwrrQueues
    BY <1>2 DEF IInv, ActiveListExact
  <2>5. \E len \in PktLens :
            deficit'[c] < SkbSize(len) + (IF curr'[c] THEN quantum'[c] ELSE 0)
    BY <1>2, <1>7, TurnFacts
  <2>6. QED
    BY <1>1, <2>1, <2>2, <2>3, <2>4, <2>5, OneClass
<1>11. QED
  BY <1>2, <1>5, <1>7, <1>8, <1>9, <1>10 DEF IInv, fifoVars, sentVars

\* The sample of the round time.
LEMMA SampleType ==
    ASSUME NEW c, last_pkt_time'[c] \in Int, start_time[c] \in Int, last_pkt_len'[c] \in Nat
    PROVE  Sample(c) \in Nat
<1>1. last_pkt_time'[c] - start_time[c] \in Int
  OBVIOUS
<1>2. QED
  BY <1>1 DEF Sample, Greater

\* The DWRR class ends its turn and goes to the tail of the active list.
LEMMA RotateInv ==
    ASSUME IInv, DwrrTurn, NEW c, c = Head(activeList), Rotate(c)
    PROVE  /\ IInv' /\ wire' = wire /\ fifo' = fifo
           /\ last_pkt_time' = last_pkt_time /\ last_pkt_time[c] >= start_time[c]
           /\ \A q \in DwrrQueues : q # c => curr'[q] = curr[q]
<1>1. /\ c \in DwrrQueues /\ c \in Range(activeList) /\ HeadSize(c) \in Nat
      /\ quantum[c] \in Nat /\ Credit(c) \in Nat /\ quantum[c] >= HeadSize(c)
      /\ \E len \in PktLens : HeadSize(c) = SkbSize(len)
  BY HeadClassFacts DEF DwrrTurn
<1>2. /\ HeadSize(c) > Credit(c)
      /\ deficit' = [deficit EXCEPT ![c] = Credit(c)]
      /\ curr' = [curr EXCEPT ![c] = FALSE]
      /\ round_time' = Ewma(round_time, Sample(c), RoundAlpha)
      /\ start_time' = [start_time EXCEPT ![c] = now]
      /\ quantum' = [quantum EXCEPT ![c] = queue_quantum[c]]
      /\ quantum_sum' = quantum_sum - quantum[c] + quantum'[c]
      /\ activeList' = Append(Tail(activeList), c)
      /\ looping' = TRUE
      /\ UNCHANGED <<portVars, queue_quantum, last_idle_time, quantum_sum_estimate,
                     sum_prio_len_bytes, last_pkt_time, last_pkt_len>>
  <2>1. ~ (HeadSize(c) <= Credit(c))
    BY DEF Rotate, Scheduled
  <2>2. HeadSize(c) > Credit(c)
    BY <1>1, <2>1
  <2>3. QED
    BY <2>2 DEF Rotate
<1>3. last_pkt_time[c] >= start_time[c]
  BY <1>1, <1>2, TurnFacts
<1>4. /\ deficit \in [DwrrQueues -> Nat] /\ curr \in [DwrrQueues -> BOOLEAN]
      /\ start_time \in [DwrrQueues -> Nat] /\ quantum \in [DwrrQueues -> Nat]
      /\ queue_quantum \in [DwrrQueues -> Nat] /\ quantum_sum \in Nat
      /\ last_pkt_time \in [DwrrQueues -> Nat] /\ last_pkt_len \in [DwrrQueues -> Nat]
      /\ round_time \in Nat /\ last_idle_time \in Nat /\ quantum_sum_estimate \in Nat
      /\ activeList \in Seq(DwrrQueues) /\ sum_prio_len_bytes \in Int
  BY DEF IInv, TypeOK
<1>5. now \in Nat /\ now' = now /\ fifo' = fifo /\ len_bytes' = len_bytes /\ wire' = wire
      /\ PortTypeOK' /\ PortAccounting'
  <2>1. now \in Nat
    BY PortFacts, ClockTypes
  <2>2. UNCHANGED <<now, run, watchdog, wire, ecn_scheme, rate, change, fifo, backlog,
                    len_bytes, sum_len_bytes, qlen, tokens, time_ns>>
    BY <1>2 DEF portVars, kernelVars, configVars, fifoVars, bucketVars
  <2>3. PortTypeOK'
    BY <2>2, PortFacts DEF PortTypeOK
  <2>4. PortAccounting'
    BY <2>2, PortFacts DEF PortAccounting
  <2>5. QED
    BY <2>1, <2>2, <2>3, <2>4
<1>6. /\ deficit' \in [DwrrQueues -> Nat] /\ curr' \in [DwrrQueues -> BOOLEAN]
      /\ start_time' \in [DwrrQueues -> Nat] /\ quantum' \in [DwrrQueues -> Nat]
      /\ deficit'[c] = Credit(c) /\ curr'[c] = FALSE /\ start_time'[c] = now
      /\ quantum'[c] = queue_quantum[c]
      /\ \A q \in DwrrQueues : q # c =>
             /\ deficit'[q] = deficit[q] /\ curr'[q] = curr[q]
             /\ start_time'[q] = start_time[q] /\ quantum'[q] = quantum[q]
  <2>1. FALSE \in BOOLEAN
    OBVIOUS
  <2>2. curr' \in [DwrrQueues -> BOOLEAN]
    BY <1>2, <1>4, <2>1
  <2>3. deficit' \in [DwrrQueues -> Nat] /\ start_time' \in [DwrrQueues -> Nat]
        /\ quantum' \in [DwrrQueues -> Nat]
    BY <1>1, <1>2, <1>4, <1>5
  <2>4. /\ deficit'[c] = Credit(c) /\ curr'[c] = FALSE /\ start_time'[c] = now
        /\ quantum'[c] = queue_quantum[c]
        /\ \A q \in DwrrQueues : q # c =>
               /\ deficit'[q] = deficit[q] /\ curr'[q] = curr[q]
               /\ start_time'[q] = start_time[q] /\ quantum'[q] = quantum[q]
    BY <1>1, <1>2, <1>4
  <2>5. QED
    BY <2>2, <2>3, <2>4
<1>7. /\ activeList' \in Seq(DwrrQueues) /\ IsInjective(activeList')
      /\ Range(activeList') = Range(activeList)
  <2>1. /\ Tail(activeList) \in Seq(DwrrQueues) /\ IsInjective(Tail(activeList))
        /\ Range(Tail(activeList)) = Range(activeList) \ {c}
    BY <1>4, TailList DEF IInv, ActiveListExact, DwrrTurn
  <2> DEFINE rest == Tail(activeList)
  <2>2. /\ rest \in Seq(DwrrQueues) /\ c \in DwrrQueues /\ IsInjective(rest)
        /\ c \notin Range(rest) /\ activeList' = Append(rest, c)
        /\ Range(rest) = Range(activeList) \ {c}
    BY <1>1, <1>2, <2>1
  <2> HIDE DEF rest
  <2>3. /\ activeList' \in Seq(DwrrQueues) /\ IsInjective(activeList')
        /\ Range(activeList') = Range(rest) \cup {c}
    BY <2>2, AppendList
  <2>4. QED
    BY <1>1, <2>2, <2>3
<1>8. ActiveListExact'
  BY <1>5, <1>7 DEF IInv, ActiveListExact
<1>9. Range(activeList) \subseteq DwrrQueues
  BY DEF IInv, ActiveListExact
<1>10. QuantumSumExact'
  <2> DEFINE more == quantum'[c] - quantum[c]
  <2>1. quantum'[c] \in Nat
    BY <1>1, <1>6
  <2>2. more \in Int /\ quantum_sum' = quantum_sum + more
    <3>1. quantum_sum' = quantum_sum - quantum[c] + quantum'[c]
      BY <1>2
    <3>2. quantum_sum \in Int /\ quantum[c] \in Int /\ quantum'[c] \in Int
      BY <1>1, <1>4, <2>1
    <3>3. QED
      BY <3>1, <3>2
  <2>3. quantum_sum = TotalOver(Range(activeList), quantum)
    BY DEF IInv, QuantumSumExact
  <2>4. /\ \A q \in Queues : q \in Range(activeList) => quantum[q] \in Int
        /\ \A q \in Queues : q \in Range(activeList') => quantum'[q] \in Int
    BY <1>4, <1>6, <1>7, <1>9
  <2>5. \A q \in Queues : q # c =>
            /\ q \in Range(activeList) <=> q \in Range(activeList')
            /\ q \in Range(activeList) => quantum'[q] = quantum[q]
    BY <1>6, <1>7, <1>9
  <2>6. (IF c \in Range(activeList') THEN quantum'[c] ELSE 0)
            = (IF c \in Range(activeList) THEN quantum[c] ELSE 0) + more
    BY <1>1, <1>7, <2>1
  <2>7. c \in Queues
    BY <1>1, Kinds
  <2> HIDE DEF more
  <2>8. TotalOver(Range(activeList'), quantum') = TotalOver(Range(activeList), quantum) + more
    BY <2>2, <2>4, <2>5, <2>6, <2>7, TotalOverChange
  <2>9. QED
    BY <2>2, <2>3, <2>8 DEF QuantumSumExact
<1>11. quantum_sum' \in Nat
  <2>1. \A q \in Queues : q \in Range(activeList') => quantum'[q] \in Nat
    BY <1>6, <1>7, <1>9
  <2>2. QED
    BY <1>10, <2>1, TotalOverType DEF QuantumSumExact
<1>12. round_time' \in Nat
  <2>1. Sample(c) \in Nat
    <3>1. last_pkt_time'[c] \in Int /\ start_time[c] \in Int /\ last_pkt_len'[c] \in Nat
      BY <1>1, <1>2, <1>4
    <3>2. QED
      BY <3>1, SampleType
  <2>2. QED
    BY <1>2, <1>4, <2>1, AlphaTypes, EwmaType
<1>13. TypeOK'
  <2>1. looping' \in BOOLEAN
    BY <1>2, Zenon
  <2>2. QED
    BY <1>2, <1>4, <1>5, <1>6, <1>7, <1>11, <1>12, <2>1 DEF TypeOK
<1>14. AccountingExact'
  BY <1>2, <1>5 DEF IInv, AccountingExact
<1>15. Turns' /\ CreditOncePerTurn'
  <2>1. ClassTurn(c) /\ start_time[c] \in Nat
    BY <1>1, <1>4 DEF IInv, Turns
  <2>2. ClassTurn(c)'
    BY <1>2, <1>5, <1>6, <2>1 DEF ClassTurn
  <2>3. /\ now' = now /\ last_idle_time' <= now'
        /\ (looping' => sum_prio_len_bytes' = 0)
    BY <1>2, <1>5, TurnFacts DEF IInv, Turns
  <2>4. \A q \in DwrrQueues : q # c =>
            /\ deficit'[q] = deficit[q] /\ curr'[q] = curr[q] /\ quantum'[q] = quantum[q]
            /\ start_time'[q] = start_time[q] /\ last_pkt_time'[q] = last_pkt_time[q]
            /\ queue_quantum'[q] = queue_quantum[q]
            /\ q \in Range(activeList') <=> q \in Range(activeList)
    BY <1>2, <1>6, <1>7
  <2>5. Range(activeList') \subseteq DwrrQueues
    BY <1>7, <1>9
  <2>6. \E len \in PktLens :
            deficit'[c] < SkbSize(len) + (IF curr'[c] THEN quantum'[c] ELSE 0)
    <3>1. PICK len \in PktLens : HeadSize(c) = SkbSize(len)
      BY <1>1
    <3>2. deficit'[c] < SkbSize(len) + 0
      BY <1>1, <1>2, <1>6, <3>1
    <3>3. QED
      BY <1>6, <3>2
  <2>7. QED
    BY <1>1, <2>2, <2>3, <2>4, <2>5, <2>6, OneClass
<1>16. QED
  BY <1>2, <1>3, <1>5, <1>6, <1>8, <1>10, <1>13, <1>14, <1>15 DEF IInv

\* A packet of the DWRR class leaves, and with the last one the class.
LEMMA TransmitDwrrInv ==
    ASSUME IInv, DwrrTurn, NEW c, c = Head(activeList), TransmitDwrr(c)
    PROVE  /\ IInv'
           /\ fifo' = [fifo EXCEPT ![c] = Tail(@)]
           /\ Seen(wire') \in {[queue |-> c, size |-> WireSize(Head(fifo[c])), ce |-> ce] :
                                   ce \in {Head(fifo[c]).ce, TRUE}}
           /\ last_pkt_time'[c] >= start_time[c]
           /\ \A q \in DwrrQueues : q # c => curr'[q] = curr[q]
<1> DEFINE size   == HeadSize(c)
           empty  == Len(fifo[c]) = 1
           result == Result(size)
           cost   == L2T(size)
<1>1. /\ c \in DwrrQueues /\ c \in Queues /\ c \in Range(activeList) /\ fifo[c] # <<>>
      /\ size \in Nat \ {0} /\ quantum[c] \in Nat /\ Credit(c) \in Nat
      /\ quantum[c] \in QuantumChoices[c]
      /\ activeList # <<>>
  BY HeadClassFacts DEF DwrrTurn
<1>2. /\ size <= Credit(c) /\ result > 0 /\ Leave(c, result)
      /\ deficit' = [deficit EXCEPT ![c] = Credit(c) - size]
      /\ last_pkt_len' = [last_pkt_len EXCEPT ![c] = cost]
      /\ last_pkt_time' = [last_pkt_time EXCEPT ![c] = now]
      /\ curr' = [curr EXCEPT ![c] = ~ empty]
      /\ activeList' = IF empty THEN Tail(activeList) ELSE activeList
      /\ quantum_sum' = IF empty THEN quantum_sum - quantum[c] ELSE quantum_sum
      /\ round_time' = IF empty THEN Ewma(round_time, Sample(c), RoundAlpha) ELSE round_time
      /\ last_idle_time' \in {now, last_idle_time}
      /\ quantum_sum_estimate' = Ewma(quantum_sum_estimate, quantum_sum', QuantumAlpha)
      /\ looping' = FALSE
      /\ UNCHANGED <<queue_quantum, quantum, start_time, sum_prio_len_bytes>>
  BY DEF TransmitDwrr, Scheduled, LeaveSum
<1>3. result \in Nat /\ cost \in Nat
  <2>1. size \in Nat
    BY <1>1
  <2>2. result \in Int /\ cost \in Nat
    BY <2>1, PortFacts, ResultType
  <2>3. QED
    BY <1>2, <2>2
<1> HIDE DEF result, cost
<1>4. /\ PortTypeOK' /\ PortAccounting' /\ now' = now
      /\ fifo' = [fifo EXCEPT ![c] = Tail(@)]
      /\ (fifo'[c] # <<>> <=> ~ empty)
      /\ \A d \in Queues : d # c => fifo'[d] = fifo[d] /\ len_bytes'[d] = len_bytes[d]
      /\ len_bytes \in [Queues -> Int] /\ len_bytes' \in [Queues -> Int]
      /\ Seen(wire') \in {[queue |-> c, size |-> WireSize(Head(fifo[c])), ce |-> ce] :
                              ce \in {Head(fifo[c]).ce, TRUE}}
  BY <1>1, <1>2, <1>3, LeavePort, PortFacts
<1>5. (~ empty) \in BOOLEAN
  OBVIOUS
<1> HIDE DEF size, empty
<1>6. /\ deficit \in [DwrrQueues -> Nat] /\ curr \in [DwrrQueues -> BOOLEAN]
      /\ start_time \in [DwrrQueues -> Nat] /\ quantum \in [DwrrQueues -> Nat]
      /\ queue_quantum \in [DwrrQueues -> Nat] /\ quantum_sum \in Nat
      /\ last_pkt_time \in [DwrrQueues -> Nat] /\ last_pkt_len \in [DwrrQueues -> Nat]
      /\ round_time \in Nat /\ last_idle_time \in Nat /\ quantum_sum_estimate \in Nat
      /\ activeList \in Seq(DwrrQueues) /\ sum_prio_len_bytes \in Int
  BY DEF IInv, TypeOK
<1>7. now \in Nat /\ start_time[c] \in Nat /\ start_time[c] <= now
  <2>1. ClassTurn(c)
    BY <1>1 DEF IInv, Turns
  <2>2. now \in Nat
    BY PortFacts, ClockTypes
  <2>3. QED
    BY <1>1, <1>6, <2>1, <2>2 DEF ClassTurn
<1>8. /\ deficit' \in [DwrrQueues -> Nat] /\ curr' \in [DwrrQueues -> BOOLEAN]
      /\ last_pkt_time' \in [DwrrQueues -> Nat] /\ last_pkt_len' \in [DwrrQueues -> Nat]
      /\ deficit'[c] = Credit(c) - size /\ (curr'[c] <=> ~ empty) /\ last_pkt_time'[c] = now
      /\ \A q \in DwrrQueues : q # c =>
             /\ deficit'[q] = deficit[q] /\ curr'[q] = curr[q]
             /\ last_pkt_time'[q] = last_pkt_time[q]
  <2>1. curr' \in [DwrrQueues -> BOOLEAN]
    BY <1>2, <1>5, <1>6
  <2>2. Credit(c) - size \in Nat
    BY <1>1, <1>2
  <2>3. /\ deficit' \in [DwrrQueues -> Nat] /\ last_pkt_time' \in [DwrrQueues -> Nat]
        /\ last_pkt_len' \in [DwrrQueues -> Nat]
    BY <1>2, <1>3, <1>6, <1>7, <2>2
  <2>4. /\ deficit'[c] = Credit(c) - size /\ curr'[c] = ~ empty /\ last_pkt_time'[c] = now
        /\ \A q \in DwrrQueues : q # c =>
               /\ deficit'[q] = deficit[q] /\ curr'[q] = curr[q]
               /\ last_pkt_time'[q] = last_pkt_time[q]
    BY <1>1, <1>2, <1>6
  <2>5. QED
    BY <2>1, <2>3, <2>4
<1>9. /\ activeList' \in Seq(DwrrQueues) /\ IsInjective(activeList')
      /\ Range(activeList') = IF empty THEN Range(activeList) \ {c} ELSE Range(activeList)
  <2>1. /\ Tail(activeList) \in Seq(DwrrQueues) /\ IsInjective(Tail(activeList))
        /\ Range(Tail(activeList)) = Range(activeList) \ {c}
    BY <1>1, <1>6, TailList DEF IInv, ActiveListExact
  <2>2. IsInjective(activeList)
    BY DEF IInv, ActiveListExact
  <2>3. CASE empty
    BY <1>2, <2>1, <2>3
  <2>4. CASE ~ empty
    BY <1>2, <1>6, <2>2, <2>4
  <2>5. QED
    BY <2>3, <2>4
<1>10. Range(activeList) = {d \in DwrrQueues : fifo[d] # <<>>}
  BY DEF IInv, ActiveListExact
<1>11. ActiveListExact'
  <2>1. \A d \in DwrrQueues : d # c => fifo'[d] = fifo[d]
    BY <1>4, Kinds
  <2>2. Range(activeList') = {d \in DwrrQueues : fifo'[d] # <<>>}
    BY <1>1, <1>4, <1>9, <1>10, <2>1
  <2>3. QED
    BY <1>9, <2>2 DEF ActiveListExact
<1>12. QuantumSumExact'
  <2>1. quantum_sum = TotalOver(Range(activeList), quantum)
    BY DEF IInv, QuantumSumExact
  <2>2. CASE ~ empty
    BY <1>2, <2>1, <2>2 DEF QuantumSumExact
  <2>3. CASE empty
    <3> DEFINE less == 0 - quantum[c]
    <3>1. less \in Int /\ quantum_sum' = quantum_sum + less
      <4>1. quantum_sum' = quantum_sum - quantum[c]
        BY <1>2, <2>3
      <4>2. quantum_sum \in Nat /\ quantum[c] \in Nat
        BY <1>1, <1>6
      <4>3. QED
        BY <4>1, <4>2
    <3>2. /\ \A q \in Queues : q \in Range(activeList) => quantum[q] \in Int
          /\ \A q \in Queues : q \in Range(activeList') => quantum[q] \in Int
      <4>1. \A q \in DwrrQueues : quantum[q] \in Int
        BY <1>6
      <4>2. \A q : q \in Range(activeList) => q \in DwrrQueues
        BY <1>10, Zenon
      <4>3. \A q : q \in Range(activeList') => q \in Range(activeList)
        BY <1>9, Zenon
      <4>4. QED
        BY <4>1, <4>2, <4>3, Zenon
    <3>3. \A q \in Queues : q # c =>
              /\ q \in Range(activeList) <=> q \in Range(activeList')
              /\ q \in Range(activeList) => quantum[q] = quantum[q]
      BY <1>9
    <3>4. (IF c \in Range(activeList') THEN quantum[c] ELSE 0)
              = (IF c \in Range(activeList) THEN quantum[c] ELSE 0) + less
      BY <1>1, <1>9, <2>3
    <3> HIDE DEF less
    <3>5. TotalOver(Range(activeList'), quantum) = TotalOver(Range(activeList), quantum) + less
      BY <1>1, <3>1, <3>2, <3>3, <3>4, TotalOverChange
    <3>6. QED
      BY <1>2, <2>1, <3>1, <3>5 DEF QuantumSumExact
  <2>4. QED
    BY <2>2, <2>3
<1>13. quantum_sum' \in Nat
  <2>1. \A q \in Queues : q \in Range(activeList') => quantum'[q] \in Nat
    BY <1>2, <1>6, <1>9, <1>10
  <2>2. QED
    BY <1>12, <2>1, TotalOverType DEF QuantumSumExact
<1>14. round_time' \in Nat /\ quantum_sum_estimate' \in Nat /\ last_idle_time' \in Nat
  <2>1. Sample(c) \in Nat
    <3>1. last_pkt_time'[c] \in Nat /\ last_pkt_len'[c] \in Nat
      BY <1>1, <1>8
    <3>2. last_pkt_time'[c] \in Int /\ start_time[c] \in Int
      BY <1>7, <3>1
    <3>3. QED
      BY <3>1, <3>2, SampleType
  <2>2. Ewma(round_time, Sample(c), RoundAlpha) \in Nat
    BY <1>6, <2>1, AlphaTypes, EwmaType
  <2>3. Ewma(quantum_sum_estimate, quantum_sum', QuantumAlpha) \in Nat
    BY <1>6, <1>13, AlphaTypes, EwmaType
  <2>4. QED
    BY <1>2, <1>6, <1>7, <2>2, <2>3
<1>15. TypeOK'
  <2>1. looping' \in BOOLEAN
    BY <1>2, Zenon
  <2>2. QED
    BY <1>2, <1>4, <1>6, <1>8, <1>9, <1>13, <1>14, <2>1 DEF TypeOK
<1>16. AccountingExact'
  <2>1. TotalOver(PrioQueues, len_bytes') = TotalOver(PrioQueues, len_bytes)
    BY <1>1, <1>4, SamePrioTotal
  <2>2. QED
    BY <1>2, <1>4, <2>1 DEF IInv, AccountingExact
<1>17. Turns' /\ CreditOncePerTurn'
  <2>1. ClassTurn(c)
    BY <1>1 DEF IInv, Turns
  <2>2. c \in Range(activeList') <=> ~ empty
    BY <1>1, <1>9
  <2>3. ClassTurn(c)'
    BY <1>1, <1>2, <1>4, <1>7, <1>8, <2>1, <2>2 DEF ClassTurn
  <2>4. /\ now' = now /\ last_idle_time' <= now'
        /\ (looping' => sum_prio_len_bytes' = 0)
    BY <1>2, <1>4, <1>7 DEF IInv, Turns
  <2>5. \A q \in DwrrQueues : q # c =>
            /\ deficit'[q] = deficit[q] /\ curr'[q] = curr[q] /\ quantum'[q] = quantum[q]
            /\ start_time'[q] = start_time[q] /\ last_pkt_time'[q] = last_pkt_time[q]
            /\ queue_quantum'[q] = queue_quantum[q]
            /\ q \in Range(activeList') <=> q \in Range(activeList)
    BY <1>2, <1>8, <1>9
  <2>6. Range(activeList') \subseteq DwrrQueues
    BY <1>9, <1>10
  <2>7. c \in Range(activeList') =>
            \E len \in PktLens :
                deficit'[c] < SkbSize(len) + (IF curr'[c] THEN quantum'[c] ELSE 0)
    <3>1. PICK len \in PktLens : Credit(c) < SkbSize(len) + quantum[c]
      BY TurnFacts
    <3>2. SkbSize(len) \in Nat
      BY SkbSizeType, BufferAssumption
    <3>3. Credit(c) - size < SkbSize(len) + quantum[c]
      BY <1>1, <3>1, <3>2
    <3>4. QED
      BY <1>2, <1>8, <2>2, <3>3
  <2>8. QED
    BY <1>1, <2>3, <2>4, <2>5, <2>6, <2>7, OneClass
<1>18. IInv'
  BY <1>11, <1>12, <1>15, <1>16, <1>17 DEF IInv
<1>19. QED
  BY <1>4, <1>7, <1>8, <1>18
-----------------------------------------------------------------------------
\* What happens without the lock.
LEMMA EnvironmentInv ==
    ASSUME IInv, Environment, UNCHANGED dwrrVars
    PROVE  IInv' /\ wire' = wire /\ fifo' = fifo
<1>1. /\ PortTypeOK' /\ PortAccounting'
      /\ UNCHANGED <<wire, fifoVars, bucketVars>> /\ now <= now'
  BY PortFacts, EnvironmentFacts
<1>2. fifo' = fifo /\ len_bytes' = len_bytes
  BY <1>1 DEF fifoVars
<1>3. QED
  BY <1>1, <1>2, SameDwrr

\* A quantum is written.
LEMMA SetQuantumInv ==
    ASSUME IInv, NEW c \in DwrrQueues, NEW qtm \in QuantumChoices[c], SetQueueQuantum(c, qtm)
    PROVE  /\ IInv' /\ wire' = wire /\ fifo' = fifo
           /\ curr' = curr
<1>1. /\ queue_quantum' = [queue_quantum EXCEPT ![c] = qtm]
      /\ UNCHANGED <<portVars, turnVars, sentVars, estimates, sum_prio_len_bytes, looping>>
  BY DEF SetQueueQuantum
<1>2. UNCHANGED <<now, run, watchdog, wire, ecn_scheme, rate, change, fifo, backlog,
                  len_bytes, sum_len_bytes, qlen, tokens, time_ns>>
  BY <1>1 DEF portVars, kernelVars, configVars, fifoVars, bucketVars
<1>3. PortTypeOK'
  BY <1>2, PortFacts DEF PortTypeOK
<1>4. PortAccounting'
  BY <1>2, PortFacts DEF PortAccounting
<1>5. qtm \in Nat
  BY QuantumCovers
<1>6. queue_quantum \in [DwrrQueues -> Nat]
      /\ \A d \in DwrrQueues : queue_quantum[d] \in QuantumChoices[d]
  BY DEF IInv, TypeOK, Turns, ClassTurn
<1>7. queue_quantum' \in [DwrrQueues -> Nat]
      /\ \A d \in DwrrQueues : queue_quantum'[d] \in QuantumChoices[d]
  BY <1>1, <1>5, <1>6
<1>8. /\ round_time' \in Nat /\ quantum_sum_estimate' \in Nat
      /\ looping' \in BOOLEAN /\ (looping' => sum_prio_len_bytes' = 0)
      /\ sum_prio_len_bytes' \in Int
      /\ sum_prio_len_bytes' = TotalOver(PrioQueues, len_bytes')
  BY <1>1, <1>2 DEF estimates, IInv, TypeOK, AccountingExact, Turns
<1>9. /\ UNCHANGED <<turnVars, sentVars>> /\ now <= now'
      /\ \A d \in DwrrQueues : fifo'[d] # <<>> <=> fifo[d] # <<>>
  <2>1. now \in Nat
    BY PortFacts, ClockTypes
  <2>2. QED
    BY <1>1, <1>2, <2>1
<1>10. IInv'
  BY <1>3, <1>4, <1>7, <1>8, <1>9, SameTurns
<1>11. QED
  BY <1>1, <1>2, <1>10 DEF turnVars

LEMMA StutterInv == ASSUME IInv, UNCHANGED vars PROVE IInv' /\ wire' = wire /\ fifo' = fifo
<1>1. UNCHANGED <<now, run, watchdog, wire, ecn_scheme, rate, change, fifo, backlog,
                  len_bytes, sum_len_bytes, qlen, tokens, time_ns>>
  BY DEF vars, portVars, kernelVars, configVars, fifoVars, bucketVars
<1>2. PortTypeOK'
  BY <1>1, PortFacts DEF PortTypeOK
<1>3. PortAccounting'
  BY <1>1, PortFacts DEF PortAccounting
<1>4. now \in Nat /\ now <= now'
  BY <1>1, PortFacts, ClockTypes
<1>5. UNCHANGED dwrrVars
  BY DEF vars
<1>6. QED
  BY <1>1, <1>2, <1>3, <1>4, <1>5, SameDwrr

\* The steps of the qdisc.
LEMMA Steps ==
    ASSUME [Next]_vars
    PROVE  \/ \E dscp \in Dscps, len \in PktLens : Enqueue(dscp, len)
           \/ DequeueNothing \/ (PrioTurn /\ ThrottlePrio(PrioHead))
           \/ PrioTurn /\ TransmitPrio(PrioHead)
           \/ DwrrTurn /\ ThrottleDwrr(Head(activeList))
           \/ DwrrTurn /\ TransmitDwrr(Head(activeList))
           \/ DwrrTurn /\ Rotate(Head(activeList))
           \/ Environment /\ UNCHANGED dwrrVars
           \/ \E c \in DwrrQueues : \E qtm \in QuantumChoices[c] : SetQueueQuantum(c, qtm)
           \/ UNCHANGED vars
  BY DEF Next, Dequeue

LEMMA NextInv == IInv /\ [Next]_vars => IInv'
<1> SUFFICES ASSUME IInv, [Next]_vars PROVE IInv'
  OBVIOUS
<1>1. CASE \E dscp \in Dscps, len \in PktLens : Enqueue(dscp, len)
  BY <1>1, EnqueueFacts
<1>2. CASE DequeueNothing \/ (PrioTurn /\ ThrottlePrio(PrioHead))
  BY <1>2, NullInv
<1>3. CASE PrioTurn /\ TransmitPrio(PrioHead)
  BY <1>3, TransmitPrioInv
<1>4. CASE DwrrTurn /\ ThrottleDwrr(Head(activeList))
  BY <1>4, ThrottleDwrrInv
<1>5. CASE DwrrTurn /\ TransmitDwrr(Head(activeList))
  BY <1>5, TransmitDwrrInv
<1>6. CASE DwrrTurn /\ Rotate(Head(activeList))
  BY <1>6, RotateInv
<1>7. CASE Environment /\ UNCHANGED dwrrVars
  BY <1>7, EnvironmentInv
<1>8. CASE \E c \in DwrrQueues : \E qtm \in QuantumChoices[c] : SetQueueQuantum(c, qtm)
  BY <1>8, SetQuantumInv
<1>9. CASE UNCHANGED vars
  BY <1>9, StutterInv
<1>10. QED
  BY <1>1, <1>2, <1>3, <1>4, <1>5, <1>6, <1>7, <1>8, <1>9, Steps

LEMMA InitInv == Init => IInv
<1> SUFFICES ASSUME Init PROVE IInv
  OBVIOUS
<1>1. /\ PortTypeOK /\ PortAccounting
      /\ fifo = [c \in Queues |-> <<>>] /\ len_bytes = [c \in Queues |-> 0]
      /\ now \in Nat
  BY PortInitType DEF Init, PortInit
<1>2. /\ deficit = [c \in DwrrQueues |-> 0] /\ curr = [c \in DwrrQueues |-> FALSE]
      /\ quantum = [c \in DwrrQueues |-> 0] /\ start_time = [c \in DwrrQueues |-> now]
      /\ last_pkt_time = [c \in DwrrQueues |-> now] /\ last_pkt_len = [c \in DwrrQueues |-> 0]
      /\ activeList = <<>> /\ sum_prio_len_bytes = 0 /\ round_time = 0
      /\ last_idle_time = now /\ quantum_sum = 0 /\ quantum_sum_estimate = 0
      /\ looping = FALSE
  BY DEF Init
<1>3. /\ queue_quantum \in [DwrrQueues -> Nat]
      /\ \A c \in DwrrQueues : queue_quantum[c] \in QuantumChoices[c]
  <2> DEFINE Values == UNION {QuantumChoices[c] : c \in DwrrQueues}
  <2>1. queue_quantum \in [DwrrQueues -> Values]
        /\ \A c \in DwrrQueues : queue_quantum[c] \in QuantumChoices[c]
    BY DEF Init
  <2>2. \A c \in DwrrQueues : queue_quantum[c] \in Nat
    BY <2>1, QuantumCovers
  <2> HIDE DEF Values
  <2>3. QED
    BY <2>1, <2>2
<1>4. TypeOK
  <2>1. FALSE \in BOOLEAN
    OBVIOUS
  <2>2. /\ curr \in [DwrrQueues -> BOOLEAN] /\ looping \in BOOLEAN
    BY <1>2, <2>1
  <2>3. /\ deficit \in [DwrrQueues -> Nat] /\ quantum \in [DwrrQueues -> Nat]
        /\ start_time \in [DwrrQueues -> Nat] /\ last_pkt_time \in [DwrrQueues -> Nat]
        /\ last_pkt_len \in [DwrrQueues -> Nat] /\ activeList \in Seq(DwrrQueues)
    BY <1>1, <1>2
  <2>4. QED
    BY <1>1, <1>2, <1>3, <2>2, <2>3 DEF TypeOK
<1>5. Range(activeList) = {}
  BY <1>2 DEF Range
<1>6. AccountingExact
  <2>1. TotalOver(PrioQueues, len_bytes) = 0
    BY <1>1, TotalOverZero
  <2>2. QED
    BY <1>1, <1>2, <2>1 DEF AccountingExact
<1>7. ActiveListExact
  <2>1. {c \in DwrrQueues : fifo[c] # <<>>} = {}
    BY <1>1, Kinds
  <2>2. IsInjective(activeList)
    BY <1>2 DEF IsInjective
  <2>3. QED
    BY <1>5, <2>1, <2>2 DEF ActiveListExact
<1>8. QuantumSumExact
  <2>1. TotalOver(Range(activeList), quantum) = 0
    BY <1>5, TotalOverZero
  <2>2. QED
    BY <1>2, <2>1 DEF QuantumSumExact
<1>9. CreditOncePerTurn
  BY <1>5 DEF CreditOncePerTurn
<1>10. Turns
  <2>1. \A c \in DwrrQueues : ClassTurn(c)
    BY <1>1, <1>2, <1>3, <1>5 DEF ClassTurn
  <2>2. QED
    BY <1>1, <1>2, <2>1 DEF Turns
<1>11. QED
  BY <1>4, <1>6, <1>7, <1>8, <1>9, <1>10 DEF IInv

LEMMA Inductive == Spec => []IInv
  BY InitInv, NextInv, PTL DEF Spec
-----------------------------------------------------------------------------
\* Every variable of sch_prio_dwrr keeps its type: no deficit, sum or estimate becomes
\* negative, and the tokens stay between 0 and the bucket.
THEOREM TypeCorrect == Spec => []TypeOK
<1>1. IInv => TypeOK
  BY DEF IInv
<1>2. QED
  BY <1>1, Inductive, PTL

\* The counters of sch_prio_dwrr are what is queued, that of the priority queues included.
THEOREM AccountingCorrect == Spec => []AccountingExact
<1>1. IInv => AccountingExact
  BY DEF IInv
<1>2. QED
  BY <1>1, Inductive, PTL

\* The active list holds the DWRR queues with packets, each once.
THEOREM ActiveListCorrect == Spec => []ActiveListExact
<1>1. IInv => ActiveListExact
  BY DEF IInv
<1>2. QED
  BY <1>1, Inductive, PTL

\* quantum_sum is the sum of the quanta of the active queues, whatever is written to the
\* quanta while they are active.
THEOREM QuantumSumCorrect == Spec => []QuantumSumExact
<1>1. IInv => QuantumSumExact
  BY DEF IInv
<1>2. QED
  BY <1>1, Inductive, PTL

\* A queue gets its quantum once per turn.
THEOREM CreditCorrect == Spec => []CreditOncePerTurn
<1>1. IInv => CreditOncePerTurn
  BY DEF IInv
<1>2. QED
  BY <1>1, Inductive, PTL
-----------------------------------------------------------------------------
\* The queues of a list in the order they began to wait.
StartsOrdered(list, start) ==
    \A i, j \in 1 .. Len(list) : i <= j => start[list[i]] <= start[list[j]]

\* The active queues are listed in the order they began to wait, all after the last time
\* that no DWRR queue had a packet.
StartsInv ==
    /\ StartsOrdered(activeList, start_time)
    /\ \A c \in Range(activeList) : last_idle_time <= start_time[c]

LEMMA OrderedAppend ==
    ASSUME NEW S, NEW list \in Seq(S), NEW start \in [S -> Nat], NEW c \in S, NEW n \in Nat,
           c \notin Range(list), \A d \in S : start[d] <= n, StartsOrdered(list, start)
    PROVE  StartsOrdered(Append(list, c), [start EXCEPT ![c] = n])
<1> DEFINE t == Append(list, c)
           f == [start EXCEPT ![c] = n]
<1>1. /\ Len(t) = Len(list) + 1 /\ \A i \in 1 .. Len(list) : t[i] = list[i]
      /\ t[Len(list) + 1] = c /\ Len(list) \in Nat
  BY AppendProperties, LenProperties
<1>2. \A i \in 1 .. Len(list) : list[i] \in S /\ list[i] # c
  <2>1. TAKE i \in 1 .. Len(list)
  <2>2. i \in DOMAIN list /\ list[i] \in S
    BY LenProperties, ElementOfSeq
  <2>3. QED
    BY <2>2 DEF Range
<1> HIDE DEF t
<1>3. f[c] = n /\ \A d \in S : d # c => f[d] = start[d]
  OBVIOUS
<1> HIDE DEF f
<1>4. SUFFICES ASSUME NEW i \in 1 .. Len(t), NEW j \in 1 .. Len(t), i <= j
               PROVE  f[t[i]] <= f[t[j]]
  BY DEF StartsOrdered, t, f
<1>5. CASE j \in 1 .. Len(list)
  <2>1. i \in 1 .. Len(list)
    BY <1>1, <1>4, <1>5
  <2>2. /\ f[t[i]] = start[list[i]] /\ f[t[j]] = start[list[j]]
    BY <1>1, <1>2, <1>3, <1>5, <2>1
  <2>3. start[list[i]] <= start[list[j]]
    BY <1>4, <1>5, <2>1 DEF StartsOrdered
  <2>4. QED
    BY <2>2, <2>3
<1>6. CASE j \notin 1 .. Len(list)
  <2>1. j = Len(list) + 1
    BY <1>1, <1>4, <1>6
  <2>2. f[t[j]] = n
    BY <1>1, <1>3, <2>1
  <2>3. CASE i = j
    BY <2>2, <2>3
  <2>4. CASE i # j
    <3>1. i \in 1 .. Len(list)
      BY <1>1, <1>4, <2>1, <2>4
    <3>2. f[t[i]] = start[list[i]] /\ start[list[i]] <= n
      BY <1>1, <1>2, <1>3, <3>1
    <3>3. QED
      BY <2>2, <3>2
  <2>5. QED
    BY <2>3, <2>4
<1>7. QED
  BY <1>5, <1>6

LEMMA OrderedTail ==
    ASSUME NEW S, NEW list \in Seq(S), list # <<>>, NEW start, StartsOrdered(list, start)
    PROVE  StartsOrdered(Tail(list), start)
<1> DEFINE t == Tail(list)
<1>1. /\ Len(t) = Len(list) - 1 /\ \A i \in 1 .. Len(t) : t[i] = list[i + 1]
      /\ Len(list) \in Nat
  BY HeadTailProperties, LenProperties
<1> HIDE DEF t
<1>2. SUFFICES ASSUME NEW i \in 1 .. Len(t), NEW j \in 1 .. Len(t), i <= j
               PROVE  start[t[i]] <= start[t[j]]
  BY DEF StartsOrdered, t
<1>3. /\ i + 1 \in 1 .. Len(list) /\ j + 1 \in 1 .. Len(list) /\ i + 1 <= j + 1
      /\ t[i] = list[i + 1] /\ t[j] = list[j + 1]
  BY <1>1, <1>2
<1>4. QED
  BY <1>3 DEF StartsOrdered

LEMMA OrderedHead ==
    ASSUME NEW S, NEW list \in Seq(S), list # <<>>, NEW start, StartsOrdered(list, start),
           NEW c \in Range(list)
    PROVE  start[Head(list)] <= start[c]
<1>1. PICK j \in DOMAIN list : list[j] = c
  BY DEF Range
<1>2. Len(list) \in Nat /\ DOMAIN list = 1 .. Len(list)
  BY LenProperties
<1>3. 1 \in 1 .. Len(list) /\ j \in 1 .. Len(list) /\ 1 <= j
  BY <1>1, <1>2
<1>4. Head(list) = list[1]
  OBVIOUS
<1>5. QED
  BY <1>1, <1>3, <1>4 DEF StartsOrdered

\* A sum of naturals that are smaller than others, one by one, is not above their sum.
LEMMA SumBelow ==
    ASSUME NEW N \in Nat, NEW f \in [1 .. N -> Int], NEW g \in [1 .. N -> Int],
           \A k \in 1 .. N : f[k] <= g[k]
    PROVE  SumTo(f, N) <= SumTo(g, N)
<1> DEFINE F == PrefixSums(f, N)
           G == PrefixSums(g, N)
           S == {n \in Nat : n <= N => F[n] <= G[n]}
<1>1. /\ F[0] = 0 /\ \A k \in 1 .. N : F[k] = F[k - 1] + f[k]
      /\ G[0] = 0 /\ \A k \in 1 .. N : G[k] = G[k - 1] + g[k]
      /\ \A k \in 0 .. N : F[k] \in Int /\ G[k] \in Int
  BY PrefixSumsFacts
<1> HIDE DEF F, G
<1>2. 0 \in S
  BY <1>1
<1>3. \A n \in Nat : n \in S => n + 1 \in S
  <2>1. SUFFICES ASSUME NEW n \in Nat, n \in S, n + 1 <= N PROVE F[n + 1] <= G[n + 1]
    OBVIOUS
  <2>2. n + 1 \in 1 .. N /\ n \in 0 .. N /\ (n + 1) - 1 = n
    BY <2>1
  <2>3. F[n + 1] = F[n] + f[n + 1] /\ G[n + 1] = G[n] + g[n + 1]
    BY <1>1, <2>2
  <2>4. F[n] <= G[n] /\ F[n] \in Int /\ G[n] \in Int /\ f[n + 1] \in Int /\ g[n + 1] \in Int
    BY <1>1, <2>1, <2>2
  <2>5. f[n + 1] <= g[n + 1]
    BY <2>2
  <2>6. QED
    BY <2>3, <2>4, <2>5
<1> HIDE DEF S
<1>4. N \in S
  BY <1>2, <1>3, NatInduct
<1>5. QED
  BY <1>4 DEF S, F, G, SumTo

\* When the bytes of the priority queues are all there are, a DWRR queue has none.
LEMMA OnlyPrioBytes ==
    ASSUME NEW f \in [Queues -> Nat], Total(f) = TotalOver(PrioQueues, f), NEW q \in DwrrQueues
    PROVE  f[q] = 0
<1> DEFINE p == [c \in Queues |-> IF c \in PrioQueues THEN f[c] ELSE 0]
           h == [f EXCEPT ![q] = 0]
           P == [i \in 1 .. NumQueues |-> p[i - 1]]
           H == [i \in 1 .. NumQueues |-> h[i - 1]]
           less == 0 - f[q]
<1>1. q \in Queues /\ q \notin PrioQueues /\ NumQueues \in Nat
  BY Kinds, BufferAssumption
<1>2. \A i \in 1 .. NumQueues : i - 1 \in Queues
  BY <1>1 DEF Queues
<1>3. /\ p \in [Queues -> Nat] /\ h \in [Queues -> Nat]
      /\ \A c \in Queues : p[c] <= h[c]
  BY <1>1
<1>4. h[q] = f[q] + less /\ less \in Int /\ \A c \in Queues : c # q => h[c] = f[c]
  BY <1>1
<1>5. Total(f) = Total(p)
  BY DEF TotalOver
<1>6. Total(h) = SumTo(H, NumQueues) /\ Total(p) = SumTo(P, NumQueues)
  BY DEF Total
<1> HIDE DEF p, h
<1>7. /\ P \in [1 .. NumQueues -> Int] /\ H \in [1 .. NumQueues -> Int]
      /\ \A k \in 1 .. NumQueues : P[k] <= H[k]
  BY <1>2, <1>3
<1> HIDE DEF P, H
<1>8. Total(p) <= Total(h)
  BY <1>1, <1>6, <1>7, SumBelow
<1> HIDE DEF less
<1>9. Total(h) = Total(f) + less
  <2>1. f \in [Queues -> Int] /\ h \in [Queues -> Int]
    BY <1>3
  <2>2. QED
    BY <1>1, <1>4, <2>1, TotalChange
<1>10. Total(f) \in Nat /\ f[q] \in Nat
  BY <1>1, TotalType
<1>11. QED
  BY <1>5, <1>8, <1>9, <1>10 DEF less

\* When the last DWRR packet leaves, no queue is active.
LEMMA IdleIsEmpty ==
    ASSUME IInv', sum_len_bytes' = sum_prio_len_bytes'
    PROVE  activeList' = <<>>
<1>1. /\ PortTypeOK' /\ PortAccounting'
      /\ sum_prio_len_bytes' = TotalOver(PrioQueues, len_bytes')
      /\ activeList' \in Seq(DwrrQueues)
      /\ Range(activeList') = {c \in DwrrQueues : fifo'[c] # <<>>}
  BY DEF IInv, TypeOK, AccountingExact, ActiveListExact
<1>2. \A c \in Queues : /\ len_bytes'[c] \in Nat
                        /\ fifo'[c] # <<>> => len_bytes'[c] > 0
  <2>1. TAKE c \in Queues
  <2>2. fifo'[c] \in Seq(Packets) /\ len_bytes'[c] = WireBytes(fifo'[c])
    BY <1>1 DEF PortTypeOK, PortAccounting, Counted
  <2>3. QED
    BY <2>2, BytesType
<1>3. len_bytes' \in [Queues -> Nat] /\ sum_len_bytes' = Total(len_bytes')
  BY <1>1, <1>2 DEF PortTypeOK, PortAccounting, Counted
<1>4. \A q \in DwrrQueues : len_bytes'[q] = 0
  BY <1>1, <1>3, OnlyPrioBytes
<1>5. Range(activeList') = {}
  BY <1>1, <1>2, <1>4, Kinds
<1>6. SUFFICES ASSUME activeList' # <<>> PROVE FALSE
  OBVIOUS
<1>7. 1 \in DOMAIN activeList'
  BY <1>1, <1>6, LenProperties, EmptySeq
<1>8. QED
  BY <1>5, <1>7 DEF Range

LEMMA StartsInit == Init => StartsInv
<1>1. SUFFICES ASSUME activeList = <<>> PROVE StartsInv
  BY DEF Init
<1>2. Range(activeList) = {} /\ 1 .. Len(activeList) = {}
  BY <1>1 DEF Range
<1>3. QED
  BY <1>2 DEF StartsInv, StartsOrdered

LEMMA StartsStep == IInv /\ IInv' /\ StartsInv /\ [Next]_vars => StartsInv'
<1> SUFFICES ASSUME IInv, IInv', StartsInv, [Next]_vars PROVE StartsInv'
  OBVIOUS
<1>1. /\ activeList \in Seq(DwrrQueues) /\ IsInjective(activeList)
      /\ activeList' \in Seq(DwrrQueues)
      /\ start_time \in [DwrrQueues -> Nat] /\ now \in Nat /\ last_idle_time \in Nat
      /\ last_idle_time <= now
      /\ \A c \in DwrrQueues : start_time[c] <= now
  BY DEF IInv, TypeOK, PortTypeOK, ActiveListExact, Turns, ClassTurn
<1>2. ASSUME UNCHANGED <<activeList, start_time, last_idle_time>> PROVE StartsInv'
  BY <1>2 DEF StartsInv
<1>3. ASSUME NEW c \in DwrrQueues, NEW list \in Seq(DwrrQueues), c \notin Range(list),
             Range(list) \subseteq Range(activeList), StartsOrdered(list, start_time),
             start_time' = [start_time EXCEPT ![c] = now],
             activeList' = Append(list, c), last_idle_time' = last_idle_time
      PROVE  StartsInv'
  <2>1. StartsOrdered(activeList', start_time')
    BY <1>1, <1>3, OrderedAppend
  <2>2. Range(activeList') = Range(list) \cup {c}
    BY <1>3, AppendList
  <2>3. ASSUME NEW d \in Range(activeList') PROVE last_idle_time <= start_time'[d]
    <3>1. CASE d = c
      BY <1>1, <1>3, <3>1
    <3>2. CASE d # c
      <4>1. d \in Range(activeList)
        BY <1>3, <2>2, <3>2
      <4>2. d \in DwrrQueues
        BY <4>1 DEF IInv, ActiveListExact
      <4>3. QED
        BY <1>1, <1>3, <3>2, <4>1, <4>2 DEF StartsInv
    <3>3. QED
      BY <3>1, <3>2
  <2>4. QED
    BY <1>3, <2>1, <2>3 DEF StartsInv
<1> DEFINE h == Head(activeList)
<1>4. ASSUME activeList # <<>>
      PROVE  /\ h \in DwrrQueues /\ Tail(activeList) \in Seq(DwrrQueues)
             /\ Range(Tail(activeList)) = Range(activeList) \ {h}
             /\ StartsOrdered(Tail(activeList), start_time)
  BY <1>1, <1>4, TailList, OrderedTail DEF StartsInv
<1>5. CASE \E dscp \in Dscps, len \in PktLens : Enqueue(dscp, len)
  <2>1. PICK dscp \in Dscps, len \in PktLens : Enqueue(dscp, len)
    BY <1>5
  <2> DEFINE c == Classify(dscp)
  <2>2. /\ UNCHANGED sentVars
        /\ UNCHANGED turnVars \/ (c \in DwrrQueues /\ ~ Active(c) /\ Activate(c))
    BY <2>1 DEF Enqueue, Drop, AdmitPrio, AdmitDwrr
  <2> HIDE DEF c
  <2>3. CASE UNCHANGED turnVars
    BY <1>2, <2>2, <2>3 DEF turnVars, sentVars
  <2>4. CASE c \in DwrrQueues /\ ~ Active(c) /\ Activate(c)
    <3>1. c \notin Range(activeList)
      BY <2>4 DEF Active
    <3>2. /\ start_time' = [start_time EXCEPT ![c] = now]
          /\ activeList' = Append(activeList, c) /\ last_idle_time' = last_idle_time
      BY <2>2, <2>4 DEF Activate, sentVars
    <3>3. StartsOrdered(activeList, start_time)
      BY DEF StartsInv
    <3>4. QED
      BY <1>1, <1>3, <2>4, <3>1, <3>2, <3>3
  <2>5. QED
    BY <2>2, <2>3, <2>4
<1>6. CASE DequeueNothing \/ (PrioTurn /\ ThrottlePrio(PrioHead))
  BY <1>2, <1>6, NullInv DEF dwrrVars, turnVars, sentVars
<1>7. CASE PrioTurn /\ TransmitPrio(PrioHead)
  BY <1>2, <1>7, TransmitPrioInv DEF turnVars, sentVars
<1>8. CASE DwrrTurn /\ ThrottleDwrr(h)
  BY <1>2, <1>8 DEF ThrottleDwrr, sentVars
<1>9. CASE DwrrTurn /\ TransmitDwrr(h)
  <2>1. /\ activeList # <<>> /\ start_time' = start_time
        /\ activeList' \in {activeList, Tail(activeList)}
        /\ \/ last_idle_time' = last_idle_time
           \/ sum_len_bytes' = sum_prio_len_bytes /\ sum_prio_len_bytes' = sum_prio_len_bytes
    BY <1>9 DEF DwrrTurn, TransmitDwrr
  <2>2. /\ StartsOrdered(activeList', start_time')
        /\ Range(activeList') \subseteq Range(activeList)
    BY <1>4, <2>1 DEF StartsInv
  <2>3. CASE last_idle_time' = last_idle_time
    BY <2>1, <2>2, <2>3 DEF StartsInv
  <2>4. CASE sum_len_bytes' = sum_prio_len_bytes'
    <3>1. Range(activeList') = {}
      BY <2>4, IdleIsEmpty DEF Range
    <3>2. QED
      BY <2>2, <3>1 DEF StartsInv
  <2>5. QED
    BY <2>1, <2>3, <2>4
<1>10. CASE DwrrTurn /\ Rotate(h)
  <2>1. /\ activeList # <<>> /\ start_time' = [start_time EXCEPT ![h] = now]
        /\ activeList' = Append(Tail(activeList), h) /\ last_idle_time' = last_idle_time
    BY <1>10 DEF DwrrTurn, Rotate
  <2> HIDE DEF h
  <2>2. h \notin Range(Tail(activeList))
    BY <1>4, <2>1
  <2>3. QED
    BY <1>3, <1>4, <2>1, <2>2
<1>11. CASE Environment /\ UNCHANGED dwrrVars
  BY <1>2, <1>11 DEF dwrrVars, turnVars, sentVars
<1>12. CASE \E c \in DwrrQueues : \E qtm \in QuantumChoices[c] : SetQueueQuantum(c, qtm)
  BY <1>2, <1>12 DEF SetQueueQuantum, turnVars, sentVars
<1>13. CASE UNCHANGED vars
  BY <1>2, <1>13 DEF vars, dwrrVars, turnVars, sentVars
<1>14. QED
  BY <1>5, <1>6, <1>7, <1>8, <1>9, <1>10, <1>11, <1>12, <1>13, Steps

LEMMA StartsInductive == Spec => []StartsInv
  BY StartsInit, StartsStep, Inductive, PTL DEF Spec

\* Of a turn that ends: its queue has sent since it began, and it is the head of the list.
EndsAfterSending(c) ==
    curr[c] /\ ~ curr'[c] => /\ last_pkt_time'[c] >= start_time[c]
                            /\ activeList # <<>> /\ c = Head(activeList)

\* A queue that becomes active has no turn to end.
LEMMA EnqueueKeepsTurns ==
    ASSUME IInv, NEW dscp \in Dscps, NEW len \in PktLens, Enqueue(dscp, len),
           NEW q \in DwrrQueues, curr[q]
    PROVE  curr'[q]
<1> DEFINE c == Classify(dscp)
<1>1. q \in Range(activeList) /\ curr \in [DwrrQueues -> BOOLEAN]
  BY DEF IInv, Turns, ClassTurn, TypeOK
<1>2. UNCHANGED turnVars \/ (~ Active(c) /\ Activate(c))
  BY DEF Enqueue, Drop, AdmitPrio, AdmitDwrr
<1>3. CASE UNCHANGED turnVars
  BY <1>3 DEF turnVars
<1>4. CASE ~ Active(c) /\ Activate(c)
  <2>1. q # c /\ curr' = [curr EXCEPT ![c] = FALSE]
    BY <1>1, <1>4 DEF Active, Activate
  <2> HIDE DEF c
  <2>2. QED
    BY <1>1, <2>1
<1>5. QED
  BY <1>2, <1>3, <1>4

\* Every sample of the round time is of the turn that ends: it ends after a packet of that
\* turn, and starts neither before an idle period that is over nor after any other active
\* queue began to wait.
THEOREM SamplesCorrect == Spec => SampleOfThisTurn
<1>1. ASSUME IInv, [Next]_vars, NEW q \in DwrrQueues
      PROVE  EndsAfterSending(q)
  <2>1. SUFFICES ASSUME curr[q], ~ curr'[q]
                 PROVE  /\ last_pkt_time'[q] >= start_time[q]
                        /\ activeList # <<>> /\ q = Head(activeList)
    BY DEF EndsAfterSending
  <2> DEFINE c == Head(activeList)
  <2>2. c \in DwrrQueues \/ activeList = <<>>
    BY <1>1, HeadClassFacts
  <2>3. CASE \E dscp \in Dscps, len \in PktLens : Enqueue(dscp, len)
    BY <1>1, <2>1, <2>3, EnqueueKeepsTurns
  <2>4. CASE DequeueNothing \/ (PrioTurn /\ ThrottlePrio(PrioHead))
    BY <1>1, <2>1, <2>4, NullInv DEF dwrrVars, turnVars
  <2>5. CASE PrioTurn /\ TransmitPrio(PrioHead)
    BY <1>1, <2>1, <2>5, TransmitPrioInv DEF turnVars
  <2>6. CASE DwrrTurn /\ ThrottleDwrr(Head(activeList))
    BY <1>1, <2>1, <2>6, ThrottleDwrrInv
  <2>7. CASE DwrrTurn /\ TransmitDwrr(c)
    <3>1. /\ last_pkt_time'[c] >= start_time[c]
          /\ \A d \in DwrrQueues : d # c => curr'[d] = curr[d]
      BY <1>1, <2>7, TransmitDwrrInv
    <3>2. q = c
      BY <1>1, <2>1, <3>1
    <3>3. QED
      BY <2>7, <3>1, <3>2 DEF DwrrTurn
  <2>8. CASE DwrrTurn /\ Rotate(c)
    <3>1. /\ last_pkt_time' = last_pkt_time /\ last_pkt_time[c] >= start_time[c]
          /\ \A d \in DwrrQueues : d # c => curr'[d] = curr[d]
      BY <1>1, <2>8, RotateInv
    <3>2. q = c
      BY <1>1, <2>1, <3>1
    <3>3. QED
      BY <2>8, <3>1, <3>2 DEF DwrrTurn
  <2>9. CASE Environment /\ UNCHANGED dwrrVars
    BY <2>1, <2>9 DEF dwrrVars, turnVars
  <2>10. CASE \E d \in DwrrQueues : \E qtm \in QuantumChoices[d] : SetQueueQuantum(d, qtm)
    BY <1>1, <2>1, <2>10, SetQuantumInv
  <2>11. CASE UNCHANGED vars
    BY <2>1, <2>11 DEF vars, dwrrVars, turnVars
  <2>12. QED
    BY <1>1, <2>3, <2>4, <2>5, <2>6, <2>7, <2>8, <2>9, <2>10, <2>11, Steps
<1>2. ASSUME IInv, StartsInv, [Next]_vars, NEW c \in DwrrQueues, curr[c], ~ curr'[c]
      PROVE  /\ last_pkt_time'[c] >= start_time[c]
             /\ start_time[c] >= last_idle_time
             /\ \A d \in Range(activeList) : start_time[c] <= start_time[d]
  <2>1. last_pkt_time'[c] >= start_time[c] /\ activeList # <<>> /\ c = Head(activeList)
    BY <1>1, <1>2 DEF EndsAfterSending
  <2>2. /\ activeList \in Seq(DwrrQueues) /\ c \in Range(activeList)
        /\ start_time[c] \in Int /\ last_idle_time \in Int
    <3>1. c \in Range(activeList)
      BY <1>2, <2>1, HeadClassFacts
    <3>2. /\ activeList \in Seq(DwrrQueues) /\ start_time \in [DwrrQueues -> Nat]
          /\ last_idle_time \in Nat
      BY <1>2 DEF IInv, TypeOK
    <3>3. QED
      BY <3>1, <3>2
  <2>3. start_time[c] >= last_idle_time
    BY <1>2, <2>2 DEF StartsInv
  <2>4. \A d \in Range(activeList) : start_time[c] <= start_time[d]
    BY <1>2, <2>1, <2>2, OrderedHead DEF StartsInv
  <2>5. QED
    BY <2>1, <2>3, <2>4
<1>3. IInv /\ StartsInv /\ [Next]_vars =>
        [\A c \in DwrrQueues :
             curr[c] /\ ~ curr'[c] =>
                 /\ last_pkt_time'[c] >= start_time[c]
                 /\ start_time[c] >= last_idle_time
                 /\ \A d \in Range(activeList) : start_time[c] <= start_time[d]]_vars
  BY <1>2
<1>4. QED
  BY <1>3, Inductive, StartsInductive, PTL DEF Spec, SampleOfThisTurn
-----------------------------------------------------------------------------
\* Both thresholds of MQ-ECN are at most the port's, whatever the estimates.
LEMMA MqEcnThreshBounds ==
    ASSUME IInv, NEW qtm \in Nat, NEW est \in Nat, NEW rt \in Nat
    PROVE  /\ GenerThresh(qtm, est) \in Nat /\ GenerThresh(qtm, est) <= PortThresh
           /\ RoundThresh(qtm, rt) \in Nat /\ RoundThresh(qtm, rt) <= PortThresh
<1>1. GenerThresh(qtm, est) \in Nat /\ GenerThresh(qtm, est) <= PortThresh
  <2> DEFINE x == (qtm * PortThresh) % U32Wrap
             y == x \div est
  <2>1. qtm * PortThresh \in Nat
    BY BufferAssumption
  <2>2. x \in Nat
    BY <2>1, PrioDwrrAssumption
  <2> HIDE DEF x
  <2>3. est > 0 => y \in Nat
    BY <2>2, Quotient
  <2>4. GenerThresh(qtm, est) = IF est > 0 THEN Lesser(y, PortThresh) ELSE PortThresh
    BY DEF GenerThresh, x
  <2> HIDE DEF y
  <2>5. QED
    BY <2>3, <2>4, BufferAssumption DEF Lesser
<1>2. RoundThresh(qtm, rt) \in Nat /\ RoundThresh(qtm, rt) <= PortThresh
  <2> DEFINE x == (qtm * BitsPerSecond) \div rt
             a == Lesser(x, rate.bps)
  <2>1. rate.bps \in Nat \ {0}
    BY PortFacts DEF PortTypeOK
  <2>2. qtm * BitsPerSecond \in Nat
    BY PrioDwrrAssumption
  <2>3. rt > 0 => x \in Nat
    BY <2>2, Quotient
  <2>4. RoundThresh(qtm, rt) = IF rt > 0 THEN (a * PortThresh) \div rate.bps ELSE PortThresh
    BY DEF RoundThresh
  <2> HIDE DEF x
  <2>5. rt > 0 => a \in Nat /\ a <= rate.bps
    BY <2>1, <2>3 DEF Lesser
  <2> HIDE DEF a
  <2>6. QED
    BY <2>1, <2>4, <2>5, ShareBounds, BufferAssumption
<1>3. QED
  BY <1>1, <1>2

\* What a packet that arrives at a DWRR queue is marked for.
LEMMA AdmitMarks ==
    ASSUME IInv, IInv', NEW c \in Queues, NEW len \in PktLens, AdmitDwrr(c, len), MqEcn,
           len_bytes'[c] > PortThresh
    PROVE  fifo'[c][Len(fifo'[c])].ce
<1> DEFINE mark == StaticMark(c) \/ MqEcnMark(c)
           pkt  == [len |-> len, tstamp |-> Stamp, ce |-> mark]
           qtm  == quantum'[c]
           g    == GenerThresh(quantum'[c], quantum_sum_estimate')
           r    == RoundThresh(quantum'[c], round_time')
<1>1. c \in DwrrQueues /\ fifo' = [fifo EXCEPT ![c] = Append(@, pkt)]
  BY DEF AdmitDwrr, Insert
<1>2. qtm \in Nat /\ quantum_sum_estimate' \in Nat /\ round_time' \in Nat
  BY <1>1 DEF IInv, TypeOK
<1>3. g \in Nat /\ g <= PortThresh /\ r \in Nat /\ r <= PortThresh
  BY <1>2, MqEcnThreshBounds
<1> HIDE DEF g, r, qtm
<1>4. len_bytes'[c] \in Int
  BY PortFacts DEF IInv, TypeOK, PortTypeOK
<1>5. len_bytes'[c] > g /\ len_bytes'[c] > r
  BY <1>3, <1>4, BufferAssumption
<1>6. MqEcnMark(c)
  BY <1>5 DEF MqEcnMark, MqEcn, g, r
<1>7. mark
  BY <1>6
<1> HIDE DEF mark
<1>8. pkt.ce = mark
  OBVIOUS
<1> HIDE DEF pkt
<1>9. fifo[c] \in Seq(Packets) /\ fifo'[c] = Append(fifo[c], pkt)
  <2>1. fifo \in [Queues -> Seq(Packets)]
    BY PortFacts DEF PortTypeOK
  <2>2. QED
    BY <1>1, <2>1
<1>10. fifo'[c][Len(fifo'[c])] = pkt
  <2>1. Append(fifo[c], pkt)[Len(fifo[c]) + 1] = pkt /\ Len(Append(fifo[c], pkt)) = Len(fifo[c]) + 1
    BY <1>9
  <2>2. QED
    BY <1>9, <2>1
<1>11. QED
  BY <1>7, <1>8, <1>10

\* A queue grows only by a packet that is admitted to it.
LEMMA GrowsByAdmission ==
    ASSUME IInv, [Next]_vars, NEW q \in DwrrQueues, Len(fifo'[q]) > Len(fifo[q])
    PROVE  \E len \in PktLens : AdmitDwrr(q, len)
<1> DEFINE c == Head(activeList)
           p == PrioHead
<1>1. /\ fifo \in [Queues -> Seq(Packets)] /\ q \in Queues /\ q \notin PrioQueues
      /\ fifo[q] \in Seq(Packets) /\ Len(fifo[q]) \in Nat
  <2>1. fifo \in [Queues -> Seq(Packets)] /\ q \in Queues /\ q \notin PrioQueues
    BY PortFacts, Kinds DEF PortTypeOK
  <2>2. fifo[q] \in Seq(Packets)
    BY <2>1
  <2>3. QED
    BY <2>1, <2>2, LenProperties
<1>2. fifo' # fifo
  BY <1>1
<1>3. \A d \in Queues : fifo' = [fifo EXCEPT ![d] = Tail(@)] => fifo[d] = <<>>
  <2>1. TAKE d \in Queues
  <2>2. SUFFICES ASSUME fifo' = [fifo EXCEPT ![d] = Tail(@)], fifo[d] # <<>> PROVE FALSE
    OBVIOUS
  <2>3. d = q /\ fifo'[q] = Tail(fifo[q])
    BY <1>1, <2>2
  <2>4. Len(fifo'[q]) = Len(fifo[q]) - 1
    BY <1>1, <2>2, <2>3, HeadTailProperties
  <2>5. QED
    BY <1>1, <2>4
<1>4. PICK dscp \in Dscps, len \in PktLens : Enqueue(dscp, len)
  <2>1. CASE DequeueNothing \/ (PrioTurn /\ ThrottlePrio(PrioHead))
    BY <1>2, <2>1, NullInv
  <2>2. CASE PrioTurn /\ TransmitPrio(p)
    <3>1. p \in Queues /\ fifo[p] # <<>> /\ fifo' = [fifo EXCEPT ![p] = Tail(@)]
      BY <2>2, TransmitPrioInv
    <3> HIDE DEF p
    <3>2. QED
      BY <1>3, <3>1
  <2>3. CASE DwrrTurn /\ ThrottleDwrr(c)
    BY <1>2, <2>3, ThrottleDwrrInv
  <2>4. CASE DwrrTurn /\ TransmitDwrr(c)
    <3>1. fifo' = [fifo EXCEPT ![c] = Tail(@)]
      BY <2>4, TransmitDwrrInv
    <3>2. c \in Queues /\ fifo[c] # <<>>
      BY <2>4, HeadClassFacts DEF DwrrTurn
    <3> HIDE DEF c
    <3>3. QED
      BY <1>3, <3>1, <3>2
  <2>5. CASE DwrrTurn /\ Rotate(c)
    BY <1>2, <2>5, RotateInv
  <2>6. CASE Environment /\ UNCHANGED dwrrVars
    BY <1>2, <2>6, EnvironmentInv
  <2>7. CASE \E d \in DwrrQueues : \E qtm \in QuantumChoices[d] : SetQueueQuantum(d, qtm)
    BY <1>2, <2>7, SetQuantumInv
  <2>8. CASE UNCHANGED vars
    BY <1>2, <2>8, StutterInv
  <2>9. QED
    BY <2>1, <2>2, <2>3, <2>4, <2>5, <2>6, <2>7, <2>8, Steps
<1> DEFINE d == Classify(dscp)
<1>5. d \in Queues /\ (Drop(d, len) \/ AdmitPrio(d, len) \/ AdmitDwrr(d, len))
  BY ClassifyType, <1>4 DEF Enqueue
<1> HIDE DEF d
<1>6. ~ Drop(d, len)
  BY <1>2 DEF Drop, fifoVars
<1>7. d = q
  <2>1. PICK pkt : fifo' = [fifo EXCEPT ![d] = Append(@, pkt)]
    BY <1>5, <1>6 DEF AdmitPrio, AdmitDwrr, Insert
  <2>2. QED
    BY <1>1, <1>5, <2>1
<1>8. QED
  BY <1>1, <1>5, <1>6, <1>7 DEF AdmitPrio

\* With more than the port's threshold queued in its DWRR queue, a packet that arrives
\* under either form of MQ-ECN is marked, whatever the estimates.
THEOREM NeverLaxer == Spec => MqEcnNeverLaxer
<1>1. IInv /\ IInv' /\ [Next]_vars =>
        [\A c \in DwrrQueues :
             Len(fifo'[c]) > Len(fifo[c]) /\ MqEcn /\ len_bytes'[c] > PortThresh
                 => fifo'[c][Len(fifo'[c])].ce]_vars
  <2>1. SUFFICES ASSUME IInv, IInv', [Next]_vars, NEW c \in DwrrQueues,
                        Len(fifo'[c]) > Len(fifo[c]), MqEcn, len_bytes'[c] > PortThresh
                 PROVE  fifo'[c][Len(fifo'[c])].ce
    OBVIOUS
  <2>2. PICK len \in PktLens : AdmitDwrr(c, len)
    BY <2>1, GrowsByAdmission
  <2>3. QED
    BY <2>1, <2>2, Kinds, AdmitMarks
<1>2. QED
  BY <1>1, Inductive, PTL DEF Spec, MqEcnNeverLaxer
-----------------------------------------------------------------------------
LEMMA StepRefines == IInv /\ [Next]_vars => [Port!Next]_(Port!vars)
<1> SUFFICES ASSUME IInv, [Next]_vars PROVE [Port!Next]_(Port!vars)
  OBVIOUS
<1> DEFINE c == Head(activeList)
<1>0. fifo \in [Queues -> Seq(Packets)] /\ NumPrioQueues \in Nat
  <2>1. fifo \in [Queues -> Seq(Packets)]
    BY PortFacts DEF PortTypeOK
  <2>2. QED
    BY <2>1, PrioAssumption, BufferAssumption
<1>1. CASE \E dscp \in Dscps, len \in PktLens : Enqueue(dscp, len)
  <2>1. PICK dscp \in Dscps, len \in PktLens : Enqueue(dscp, len)
    BY <1>1
  <2> DEFINE q == Classify(dscp)
  <2>2. q \in Queues /\ wire' = wire
    BY <2>1, EnqueueFacts
  <2>3. CASE fifo' = fifo
    BY <2>2, <2>3 DEF Port!vars
  <2>4. CASE \E pkt : fifo' = [fifo EXCEPT ![q] = Append(@, pkt)]
    <3>1. PICK pkt : fifo' = [fifo EXCEPT ![q] = Append(@, pkt)]
      BY <2>4
    <3>2. fifo[q] \in Seq(Packets) /\ fifo'[q] = Append(fifo[q], pkt)
      BY <1>0, <2>2, <3>1
    <3>3. pkt \in Port!Range(fifo'[q])
      <4>1. Len(fifo[q]) + 1 \in DOMAIN fifo'[q] /\ fifo'[q][Len(fifo[q]) + 1] = pkt
        BY <3>2
      <4>2. QED
        BY <4>1 DEF Port!Range
    <3>4. Rank = [Rank EXCEPT ![q] = Rank[q]]
      BY <2>2 DEF Rank
    <3>5. Port!Accept(q)
      BY <2>2, <3>1, <3>3, <3>4 DEF Port!Accept
    <3>6. QED
      BY <2>2, <3>5 DEF Port!Next
  <2>5. QED
    BY <2>1, <2>3, <2>4, EnqueueFacts
<1>2. CASE DequeueNothing \/ (PrioTurn /\ ThrottlePrio(PrioHead))
  <2>1. wire' = NoPacket /\ fifo' = fifo
    BY <1>2, NullInv
  <2>2. QED
    BY <2>1 DEF Port!Rest, Port!Next
<1>3. CASE PrioTurn /\ TransmitPrio(PrioHead)
  <2> DEFINE p == PrioHead
  <2>1. /\ p \in Queues /\ fifo[p] # <<>> /\ p \in PrioQueues
        /\ \A d \in PrioQueues : fifo[d] # <<>> => p <= d
        /\ fifo' = [fifo EXCEPT ![p] = Tail(@)]
        /\ Seen(wire') \in {[queue |-> p, size |-> WireSize(Head(fifo[p])), ce |-> ce] :
                                ce \in {Head(fifo[p]).ce, TRUE}}
    BY <1>3, TransmitPrioInv
  <2> HIDE DEF p
  <2>2. p \in Port!Waiting
    BY <2>1 DEF Port!Waiting
  <2>3. \A d \in Port!Waiting : Rank[p] <= Rank[d]
    <3>1. TAKE d \in Port!Waiting
    <3>2. d \in Queues /\ fifo[d] # <<>>
      BY DEF Port!Waiting
    <3>3. p \in Int /\ d \in Int /\ p < NumPrioQueues
      BY <1>0, <2>1, <3>2, BufferAssumption DEF Queues, PrioQueues
    <3>4. p <= d \/ d >= NumPrioQueues
      BY <1>0, <2>1, <3>2, BufferAssumption DEF Queues, PrioQueues
    <3>5. QED
      BY <1>0, <2>1, <3>2, <3>3, <3>4 DEF Rank, Lesser
  <2>4. Port!Send(p)
    BY <2>1, <2>2, <2>3 DEF Port!Send, Seen
  <2>5. QED
    BY <2>1, <2>4 DEF Port!Next
<1>4. CASE DwrrTurn /\ ThrottleDwrr(c)
  <2>1. wire' = NoPacket /\ fifo' = fifo
    BY <1>4, ThrottleDwrrInv
  <2>2. QED
    BY <2>1 DEF Port!Rest, Port!Next
<1>5. CASE DwrrTurn /\ TransmitDwrr(c)
  <2>1. /\ fifo' = [fifo EXCEPT ![c] = Tail(@)]
        /\ Seen(wire') \in {[queue |-> c, size |-> WireSize(Head(fifo[c])), ce |-> ce] :
                                ce \in {Head(fifo[c]).ce, TRUE}}
    BY <1>5, TransmitDwrrInv
  <2>2. c \in Queues /\ c \notin PrioQueues /\ fifo[c] # <<>>
    BY <1>5, HeadClassFacts DEF DwrrTurn
  <2>3. \A d \in PrioQueues : fifo[d] = <<>>
    BY <1>5, TurnFacts
  <2> HIDE DEF c
  <2>4. c \in Port!Waiting
    BY <2>2 DEF Port!Waiting
  <2>5. \A d \in Port!Waiting : Rank[c] <= Rank[d]
    <3>1. TAKE d \in Port!Waiting
    <3>2. d \in Queues /\ d \notin PrioQueues
      BY <2>3 DEF Port!Waiting
    <3>3. c \in Int /\ d \in Int /\ c >= NumPrioQueues /\ d >= NumPrioQueues
      BY <1>0, <2>2, <3>2, BufferAssumption DEF Queues, PrioQueues
    <3>4. QED
      BY <1>0, <2>2, <3>2, <3>3 DEF Rank, Lesser
  <2>6. Port!Send(c)
    BY <2>1, <2>4, <2>5 DEF Port!Send, Seen
  <2>7. QED
    BY <2>2, <2>6 DEF Port!Next
<1>6. CASE DwrrTurn /\ Rotate(c)
  BY <1>6, RotateInv DEF Port!vars
<1>7. CASE Environment /\ UNCHANGED dwrrVars
  BY <1>7, EnvironmentInv DEF Port!vars
<1>8. CASE \E d \in DwrrQueues : \E qtm \in QuantumChoices[d] : SetQueueQuantum(d, qtm)
  BY <1>8, SetQuantumInv DEF Port!vars
<1>9. CASE UNCHANGED vars
  BY <1>9, StutterInv DEF Port!vars
<1>10. QED
  BY <1>1, <1>2, <1>3, <1>4, <1>5, <1>6, <1>7, <1>8, <1>9, Steps

\* sch_prio_dwrr is a port of FIFOs in strict priority: the DWRR queues, however they are
\* scheduled, send only while the priority queues are empty, and nothing is lost,
\* reordered or unmarked.
THEOREM PortImplemented == Spec => ImplementsPort
<1>1. Init => Port!Init
  <2>1. SUFFICES ASSUME Init PROVE Port!Init
    OBVIOUS
  <2>2. fifo = [d \in Queues |-> <<>>] /\ wire = NoPacket
    BY <2>1 DEF Init, PortInit
  <2>3. Rank \in [Queues -> Int]
    BY BufferAssumption, PrioAssumption DEF Rank, Lesser, Queues
  <2>4. QED
    BY <2>2, <2>3 DEF Port!Init
<1>2. QED
  BY <1>1, StepRefines, Inductive, PTL DEF Spec, ImplementsPort, Port!Spec
=============================================================================
