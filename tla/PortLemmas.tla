----------------------------- MODULE PortLemmas -----------------------------
(***************************************************************************)
(* Facts about the operators that the qdiscs are built from: BufferedPort  *)
(* and lists of classes; CodelMarking; VirtualTime and the lags of a set   *)
(* of classes on its circle.                                               *)
(***************************************************************************)
EXTENDS BufferedPort, CodelMarking, VirtualTime, Functions, FiniteSetsExt,
        WellFoundedInduction, SequenceTheorems, FiniteSetTheorems, TLAPS

\* A nonempty set of naturals has a least element: induction over naturals, and
\* the searches for the first queue or priority, rest on it.
LEMMA LeastNatural ==
    ASSUME NEW S \in SUBSET Nat, S # {}
    PROVE  \E m \in S : \A n \in S : m <= n
<1>1. PICK m \in S : \A n \in S : ~ (<<n, m>> \in OpToRel(<, Nat))
  BY NatLessThanWellFounded, WFMin
<1>2. \A n \in S : m <= n
  <2>1. TAKE n \in S
  <2>2. m \in Nat /\ n \in Nat
    OBVIOUS
  <2>3. ~ (n < m)
    <3>1. SUFFICES ASSUME n < m PROVE <<n, m>> \in OpToRel(<, Nat)
      BY <1>1
    <3>2. <<n, m>> \in Nat \X Nat /\ <<n, m>>[1] < <<n, m>>[2]
      BY <2>2, <3>1
    <3>3. QED
      BY <3>2 DEF OpToRel
  <2>4. QED
    BY <2>2, <2>3
<1>3. QED
  BY <1>2

\* Induction over the naturals, as a fact about sets.
LEMMA NatInduct ==
    ASSUME NEW S, 0 \in S, \A n \in Nat : n \in S => n + 1 \in S
    PROVE  \A n \in Nat : n \in S
<1> DEFINE Bad == {n \in Nat : n \notin S}
<1>1. SUFFICES ASSUME Bad # {} PROVE FALSE
  OBVIOUS
<1>2. PICK m \in Bad : \A n \in Bad : m <= n
  BY <1>1, LeastNatural
<1>3. m # 0
  BY <1>2
<1>4. m - 1 \in Nat /\ m - 1 \notin Bad
  BY <1>2, <1>3
<1>5. (m - 1) + 1 \in S
  BY <1>4
<1>6. QED
  BY <1>2, <1>5

\* The size of a packet on the wire is positive (skb_size).
LEMMA SkbSizeType == \A len \in Nat : SkbSize(len) \in Nat \ {0}
BY ArithAssumption DEF SkbSize, Greater

\* The classifier picks a queue (dwrr_classify).
LEMMA ClassifyType == ASSUME NEW dscp PROVE Classify(dscp) \in Queues
<1> DEFINE matching == {q \in Queues : QueueDscp[q] = dscp}
<1>1. Queues \subseteq Nat /\ 0 \in Queues
  BY BufferAssumption DEF Queues
<1>2. CASE matching = {}
  BY <1>1, <1>2 DEF Classify
<1>3. CASE matching # {}
  <2>1. matching \in SUBSET Nat
    BY <1>1
  <2>2. \E q \in matching : \A r \in matching : q <= r
    BY <1>3, <2>1, LeastNatural
  <2>3. (CHOOSE q \in matching : \A r \in matching : q <= r) \in matching
    BY <2>2
  <2>4. QED
    BY <1>3, <2>3 DEF Classify
<1>4. QED
  BY <1>2, <1>3

-----------------------------------------------------------------------------
\* The elements of a list after an append (list_add_tail).
LEMMA AppendList ==
    ASSUME NEW S, NEW s \in Seq(S), NEW e \in S
    PROVE  /\ Append(s, e) \in Seq(S)
           /\ Append(s, e) # <<>>
           /\ Range(Append(s, e)) = Range(s) \cup {e}
           /\ IsInjective(s) /\ e \notin Range(s) => IsInjective(Append(s, e))
<1> DEFINE t == Append(s, e)
<1>1. /\ t \in Seq(S) /\ t # <<>> /\ Len(t) = Len(s) + 1
      /\ \A i \in 1 .. Len(s) : t[i] = s[i]
      /\ t[Len(s) + 1] = e
  BY AppendProperties
<1>2. Len(s) \in Nat /\ DOMAIN s = 1 .. Len(s) /\ DOMAIN t = 1 .. Len(s) + 1
  BY <1>1, LenProperties
<1> HIDE DEF t
<1>3. DOMAIN t = DOMAIN s \cup {Len(s) + 1}
  BY <1>2
<1>4. \A i \in DOMAIN s : t[i] = s[i]
  BY <1>1, <1>2
<1>5. Range(t) = Range(s) \cup {e}
  BY <1>1, <1>3, <1>4 DEF Range
<1>6. ASSUME IsInjective(s), e \notin Range(s) PROVE IsInjective(t)
  <2>1. SUFFICES ASSUME NEW i \in DOMAIN t, NEW j \in DOMAIN t, t[i] = t[j]
                 PROVE  i = j
    BY DEF IsInjective
  <2>2. \A k \in DOMAIN s : t[k] # e
    BY <1>4, <1>6 DEF Range
  <2>3. QED
    BY <1>1, <1>3, <1>4, <1>6, <2>1, <2>2 DEF IsInjective
<1>7. QED
  BY <1>1, <1>5, <1>6 DEF t

\* The elements of a list without repetitions after its head is removed (list_del).
LEMMA TailList ==
    ASSUME NEW S, NEW s \in Seq(S), s # <<>>, IsInjective(s)
    PROVE  /\ Head(s) \in S /\ Head(s) \in Range(s)
           /\ Tail(s) \in Seq(S)
           /\ IsInjective(Tail(s))
           /\ Range(Tail(s)) = Range(s) \ {Head(s)}
<1> DEFINE t == Tail(s)
<1>1. /\ Head(s) \in S /\ t \in Seq(S) /\ Len(t) = Len(s) - 1
      /\ \A i \in 1 .. Len(t) : t[i] = s[i + 1]
  BY HeadTailProperties
<1>2. /\ Len(s) \in Nat /\ Len(s) # 0
      /\ DOMAIN s = 1 .. Len(s) /\ DOMAIN t = 1 .. Len(s) - 1
  BY <1>1, LenProperties, EmptySeq
<1>3. Head(s) = s[1]
  OBVIOUS
<1> HIDE DEF t
<1>4. 1 \in DOMAIN s
  BY <1>2
<1>5. \A i \in DOMAIN t : i + 1 \in DOMAIN s \ {1} /\ t[i] = s[i + 1]
  BY <1>1, <1>2
<1>6. \A j \in DOMAIN s \ {1} : j - 1 \in DOMAIN t /\ t[j - 1] = s[j]
  <2>1. TAKE j \in DOMAIN s \ {1}
  <2>2. j \in Int /\ j - 1 \in DOMAIN t /\ (j - 1) + 1 = j
    BY <1>2
  <2>3. QED
    BY <1>5, <2>2
<1>7. IsInjective(t)
  <2>1. SUFFICES ASSUME NEW i \in DOMAIN t, NEW j \in DOMAIN t, t[i] = t[j]
                 PROVE  i = j
    BY DEF IsInjective
  <2>2. i + 1 = j + 1
    BY <1>5, <2>1 DEF IsInjective
  <2>3. i \in Int /\ j \in Int
    BY <1>2
  <2>4. QED
    BY <2>2, <2>3
<1>8. \A i \in DOMAIN t : t[i] \in Range(s) /\ t[i] # Head(s)
  <2>1. TAKE i \in DOMAIN t
  <2>2. i + 1 \in DOMAIN s /\ i + 1 # 1 /\ t[i] = s[i + 1]
    BY <1>5
  <2>3. QED
    BY <1>3, <1>4, <2>2 DEF Range, IsInjective
<1>9. Range(t) = Range(s) \ {Head(s)}
  <2>1. Range(t) \subseteq Range(s) \ {Head(s)}
    BY <1>8 DEF Range
  <2>2. ASSUME NEW e \in Range(s), e # Head(s) PROVE e \in Range(t)
    <3>1. PICK j \in DOMAIN s : s[j] = e
      BY <2>2 DEF Range
    <3>2. j # 1
      BY <1>3, <2>2, <3>1
    <3>3. QED
      BY <1>6, <3>1, <3>2 DEF Range
  <2>3. QED
    BY <2>1, <2>2
<1>10. Head(s) \in Range(s)
  BY <1>3, <1>4 DEF Range
<1>11. QED
  BY <1>1, <1>7, <1>9, <1>10 DEF t
-----------------------------------------------------------------------------
\* Sums: the recursion of PrefixSums has a solution, of integers.
IsPrefixSums(g, f, n) == g = [k \in 0 .. n |-> IF k = 0 THEN 0 ELSE g[k - 1] + f[k]]

LEMMA PrefixSumsExist ==
    ASSUME NEW N \in Nat, NEW f \in [1 .. N -> Int]
    PROVE  \E g \in [0 .. N -> Int] : IsPrefixSums(g, f, N)
<1> DEFINE S == {n \in Nat : n <= N => \E g \in [0 .. n -> Int] : IsPrefixSums(g, f, n)}
<1>1. 0 \in S
  <2>1. [k \in 0 .. 0 |-> 0] \in [0 .. 0 -> Int]
    OBVIOUS
  <2>2. IsPrefixSums([k \in 0 .. 0 |-> 0], f, 0)
    BY DEF IsPrefixSums
  <2>3. QED
    BY <2>1, <2>2
<1>2. ASSUME NEW n \in Nat, n \in S, n + 1 <= N
      PROVE  \E g \in [0 .. n + 1 -> Int] : IsPrefixSums(g, f, n + 1)
  <2>1. PICK g \in [0 .. n -> Int] : IsPrefixSums(g, f, n)
    BY <1>2
  <2> DEFINE h == [k \in 0 .. n + 1 |-> IF k <= n THEN g[k] ELSE g[n] + f[n + 1]]
  <2>2. g[n] \in Int /\ f[n + 1] \in Int
    BY <1>2, <2>1
  <2>3. h \in [0 .. n + 1 -> Int]
    BY <1>2, <2>1, <2>2
  <2>4. \A k \in 0 .. n : g[k] = IF k = 0 THEN 0 ELSE g[k - 1] + f[k]
    BY <2>1 DEF IsPrefixSums
  <2>5. \A k \in 0 .. n + 1 : h[k] = IF k = 0 THEN 0 ELSE h[k - 1] + f[k]
    <3>1. TAKE k \in 0 .. n + 1
    <3>2. CASE k <= n
      <4>1. k \in 0 .. n /\ (k # 0 => k - 1 \in 0 .. n)
        BY <3>2
      <4>2. h[k] = g[k] /\ (k # 0 => h[k - 1] = g[k - 1])
        BY <4>1
      <4>3. QED
        BY <2>4, <4>1, <4>2
    <3>3. CASE k = n + 1
      BY <1>2, <3>3
    <3>4. QED
      BY <3>2, <3>3
  <2>6. IsPrefixSums(h, f, n + 1)
    BY <2>5 DEF IsPrefixSums
  <2>7. QED
    BY <2>3, <2>6
<1>3. \A n \in Nat : n \in S => n + 1 \in S
  BY <1>2
<1> HIDE DEF S
<1>4. N \in S
  BY <1>1, <1>3, NatInduct
<1>5. QED
  BY <1>4 DEF S

LEMMA PrefixSumsFacts ==
    ASSUME NEW N \in Nat, NEW f \in [1 .. N -> Int]
    PROVE  /\ \A k \in 0 .. N : PrefixSums(f, N)[k] \in Int
           /\ PrefixSums(f, N)[0] = 0
           /\ \A k \in 1 .. N : PrefixSums(f, N)[k] = PrefixSums(f, N)[k - 1] + f[k]
<1> DEFINE g == PrefixSums(f, N)
           S == {n \in Nat : n <= N => g[n] \in Int}
<1>1. g = CHOOSE h : IsPrefixSums(h, f, N)
  BY DEF PrefixSums, IsPrefixSums
<1>2. IsPrefixSums(g, f, N)
  BY <1>1, PrefixSumsExist
<1> HIDE DEF g
<1>3. \A k \in 0 .. N : g[k] = IF k = 0 THEN 0 ELSE g[k - 1] + f[k]
  BY <1>2 DEF IsPrefixSums
<1>4. 0 \in S
  BY <1>3
<1>5. \A n \in Nat : n \in S => n + 1 \in S
  <2>1. SUFFICES ASSUME NEW n \in Nat, n \in S, n + 1 <= N PROVE g[n + 1] \in Int
    OBVIOUS
  <2>2. g[n] \in Int /\ f[n + 1] \in Int
    BY <2>1
  <2>3. g[n + 1] = g[n] + f[n + 1]
    BY <1>3, <2>1
  <2>4. QED
    BY <2>2, <2>3
<1> HIDE DEF S
<1>6. \A n \in Nat : n \in S
  BY <1>4, <1>5, NatInduct
<1>7. \A k \in 0 .. N : g[k] \in Int
  BY <1>6 DEF S
<1>8. QED
  BY <1>3, <1>7 DEF g

\* A sum is an integer; of naturals, a natural that bounds each of them.
LEMMA SumType ==
    ASSUME NEW N \in Nat, NEW f \in [1 .. N -> Int]
    PROVE  /\ SumTo(f, N) \in Int
           /\ N = 0 => SumTo(f, N) = 0
BY PrefixSumsFacts DEF SumTo

LEMMA SumBounds ==
    ASSUME NEW N \in Nat, NEW f \in [1 .. N -> Nat]
    PROVE  /\ SumTo(f, N) \in Nat
           /\ \A k \in 1 .. N : f[k] <= SumTo(f, N)
<1> DEFINE g == PrefixSums(f, N)
           S == {n \in Nat : n <= N => g[n] \in Nat /\ \A k \in 1 .. n : f[k] <= g[n]}
<1>1. f \in [1 .. N -> Int]
  OBVIOUS
<1>2. g[0] = 0 /\ \A k \in 1 .. N : g[k] = g[k - 1] + f[k]
  BY <1>1, PrefixSumsFacts
<1> HIDE DEF g
<1>3. 0 \in S
  BY <1>2
<1>4. \A n \in Nat : n \in S => n + 1 \in S
  <2>1. SUFFICES ASSUME NEW n \in Nat, n \in S, n + 1 <= N
                 PROVE  g[n + 1] \in Nat /\ \A k \in 1 .. n + 1 : f[k] <= g[n + 1]
    OBVIOUS
  <2>2. g[n] \in Nat /\ f[n + 1] \in Nat /\ g[n + 1] = g[n] + f[n + 1]
    BY <1>2, <2>1
  <2>3. \A k \in 1 .. n : f[k] \in Nat /\ f[k] <= g[n]
    BY <2>1
  <2>4. QED
    BY <2>2, <2>3
<1> HIDE DEF S
<1>5. N \in S
  BY <1>3, <1>4, NatInduct
<1>6. QED
  BY <1>5 DEF S, g, SumTo

\* Changing one number by d changes the sum by d.
LEMMA SumChange ==
    ASSUME NEW N \in Nat, NEW f \in [1 .. N -> Int], NEW h \in [1 .. N -> Int],
           NEW j \in 1 .. N, NEW d \in Int, h[j] = f[j] + d,
           \A k \in 1 .. N : k # j => h[k] = f[k]
    PROVE  SumTo(h, N) = SumTo(f, N) + d
<1> DEFINE F == PrefixSums(f, N)
           H == PrefixSums(h, N)
           S == {n \in Nat : n <= N => H[n] = IF n < j THEN F[n] ELSE F[n] + d}
<1>1. /\ \A k \in 0 .. N : F[k] \in Int /\ H[k] \in Int
      /\ F[0] = 0 /\ \A k \in 1 .. N : F[k] = F[k - 1] + f[k]
      /\ H[0] = 0 /\ \A k \in 1 .. N : H[k] = H[k - 1] + h[k]
  BY PrefixSumsFacts
<1> HIDE DEF F, H
<1>2. 0 \in S
  BY <1>1
<1>3. \A n \in Nat : n \in S => n + 1 \in S
  <2>1. SUFFICES ASSUME NEW n \in Nat, n \in S, n + 1 <= N
                 PROVE  H[n + 1] = IF n + 1 < j THEN F[n + 1] ELSE F[n + 1] + d
    OBVIOUS
  <2>2. n \in 0 .. N /\ n + 1 \in 1 .. N /\ (n + 1) - 1 = n
    BY <2>1
  <2>3. F[n + 1] = F[n] + f[n + 1] /\ H[n + 1] = H[n] + h[n + 1]
    BY <1>1, <2>2
  <2>4. F[n] \in Int /\ H[n] \in Int /\ f[n + 1] \in Int /\ h[n + 1] \in Int
    BY <1>1, <2>2
  <2>5. H[n] = IF n < j THEN F[n] ELSE F[n] + d
    BY <2>1
  <2>6. h[n + 1] = IF n + 1 = j THEN f[n + 1] + d ELSE f[n + 1]
    BY <2>2
  <2>7. QED
    BY <2>3, <2>4, <2>5, <2>6
<1> HIDE DEF S
<1>4. N \in S
  BY <1>2, <1>3, NatInduct
<1>5. QED
  BY <1>4 DEF S, F, H, SumTo

\* One number more, at the end or at the beginning.
LEMMA SumAppend ==
    ASSUME NEW N \in Nat, NEW f \in [1 .. N -> Int], NEW h \in [1 .. N + 1 -> Int],
           \A k \in 1 .. N : h[k] = f[k]
    PROVE  SumTo(h, N + 1) = SumTo(f, N) + h[N + 1]
<1> DEFINE F == PrefixSums(f, N)
           H == PrefixSums(h, N + 1)
           S == {n \in Nat : n <= N => H[n] = F[n]}
<1>1. /\ F[0] = 0 /\ \A k \in 1 .. N : F[k] = F[k - 1] + f[k]
      /\ H[0] = 0 /\ \A k \in 1 .. N + 1 : H[k] = H[k - 1] + h[k]
  <2>1. F[0] = 0 /\ \A k \in 1 .. N : F[k] = F[k - 1] + f[k]
    BY PrefixSumsFacts
  <2>2. N + 1 \in Nat
    OBVIOUS
  <2>3. H[0] = 0 /\ \A k \in 1 .. N + 1 : H[k] = H[k - 1] + h[k]
    BY <2>2, PrefixSumsFacts
  <2>4. QED
    BY <2>1, <2>3
<1> HIDE DEF F, H
<1>2. 0 \in S
  BY <1>1
<1>3. \A n \in Nat : n \in S => n + 1 \in S
  BY <1>1
<1> HIDE DEF S
<1>4. N \in S
  BY <1>2, <1>3, NatInduct
<1>5. H[N + 1] = F[N] + h[N + 1]
  BY <1>1, <1>4 DEF S
<1>6. QED
  BY <1>5 DEF F, H, SumTo

LEMMA SumTail ==
    ASSUME NEW N \in Nat, NEW f \in [1 .. N -> Int], NEW h \in [1 .. N + 1 -> Int],
           \A k \in 1 .. N : h[k + 1] = f[k]
    PROVE  SumTo(h, N + 1) = h[1] + SumTo(f, N)
<1> DEFINE F == PrefixSums(f, N)
           H == PrefixSums(h, N + 1)
           S == {n \in Nat : n <= N => H[n + 1] = h[1] + F[n]}
<1>1. /\ \A k \in 0 .. N : F[k] \in Int
      /\ F[0] = 0 /\ \A k \in 1 .. N : F[k] = F[k - 1] + f[k]
      /\ H[0] = 0 /\ \A k \in 1 .. N + 1 : H[k] = H[k - 1] + h[k]
  <2>1. /\ \A k \in 0 .. N : F[k] \in Int
        /\ F[0] = 0 /\ \A k \in 1 .. N : F[k] = F[k - 1] + f[k]
    BY PrefixSumsFacts
  <2>2. N + 1 \in Nat
    OBVIOUS
  <2>3. H[0] = 0 /\ \A k \in 1 .. N + 1 : H[k] = H[k - 1] + h[k]
    BY <2>2, PrefixSumsFacts
  <2>4. QED
    BY <2>1, <2>3
<1> HIDE DEF F, H
<1>2. 0 \in S
  BY <1>1
<1>3. \A n \in Nat : n \in S => n + 1 \in S
  <2>1. SUFFICES ASSUME NEW n \in Nat, n \in S, n + 1 <= N
                 PROVE  H[n + 2] = h[1] + F[n + 1]
    OBVIOUS
  <2>2. H[n + 2] = H[n + 1] + h[n + 2] /\ F[n + 1] = F[n] + f[n + 1]
    BY <1>1, <2>1
  <2>3. h[n + 2] = f[n + 1] /\ H[n + 1] = h[1] + F[n]
    BY <2>1
  <2>4. F[n] \in Int /\ f[n + 1] \in Int /\ h[1] \in Int
    BY <1>1, <2>1
  <2>5. QED
    BY <2>2, <2>3, <2>4
<1> HIDE DEF S
<1>4. N \in S
  BY <1>2, <1>3, NatInduct
<1>5. QED
  BY <1>4 DEF S, F, H, SumTo
-----------------------------------------------------------------------------
\* What the counters of a FIFO say of it: nothing if it is empty, something if not.
LEMMA PktsLen == \A pkt \in Packets : pkt.len \in Nat /\ SkbSize(pkt.len) \in Nat \ {0}
BY SkbSizeType, BufferAssumption DEF Packets

LEMMA FifoSizes ==
    ASSUME NEW s \in Seq(Packets)
    PROVE  /\ Len(s) \in Nat
           /\ [i \in 1 .. Len(s) |-> SkbSize(s[i].len)] \in [1 .. Len(s) -> Nat]
           /\ [i \in 1 .. Len(s) |-> s[i].len] \in [1 .. Len(s) -> Nat]
<1>1. Len(s) \in Nat
  BY LenProperties
<1>2. \A i \in 1 .. Len(s) : s[i] \in Packets
  BY ElementOfSeq
<1>3. QED
  BY <1>1, <1>2, PktsLen

LEMMA BytesType ==
    ASSUME NEW s \in Seq(Packets)
    PROVE  /\ WireBytes(s) \in Nat /\ ChildBytes(s) \in Nat
           /\ s = <<>> => WireBytes(s) = 0 /\ ChildBytes(s) = 0
           /\ s # <<>> => WireBytes(s) > 0
<1> DEFINE f == [i \in 1 .. Len(s) |-> SkbSize(s[i].len)]
           g == [i \in 1 .. Len(s) |-> s[i].len]
<1>1. Len(s) \in Nat /\ f \in [1 .. Len(s) -> Nat] /\ g \in [1 .. Len(s) -> Nat]
  BY FifoSizes
<1>2. WireBytes(s) = SumTo(f, Len(s)) /\ ChildBytes(s) = SumTo(g, Len(s))
  BY DEF WireBytes, ChildBytes
<1>3. s # <<>> => 1 \in 1 .. Len(s) /\ f[1] > 0
  <2>1. SUFFICES ASSUME s # <<>> PROVE 1 \in 1 .. Len(s) /\ f[1] > 0
    OBVIOUS
  <2>2. 1 \in 1 .. Len(s)
    BY <1>1, <2>1, EmptySeq
  <2>3. SkbSize(s[1].len) \in Nat \ {0}
    BY <2>2, ElementOfSeq, PktsLen
  <2>4. QED
    BY <2>2, <2>3
<1>4. s = <<>> => Len(s) = 0
  OBVIOUS
<1> HIDE DEF f, g
<1>5. f \in [1 .. Len(s) -> Int] /\ g \in [1 .. Len(s) -> Int]
  BY <1>1
<1>6. SumTo(f, Len(s)) \in Nat /\ \A k \in 1 .. Len(s) : f[k] <= SumTo(f, Len(s))
  BY <1>1, SumBounds
<1>7. SumTo(g, Len(s)) \in Nat
  BY <1>1, SumBounds
<1>8. Len(s) = 0 => SumTo(f, Len(s)) = 0 /\ SumTo(g, Len(s)) = 0
  BY <1>1, <1>5, SumType
<1>9. s # <<>> => SumTo(f, Len(s)) > 0
  BY <1>1, <1>3, <1>6
<1>10. QED
  BY <1>2, <1>4, <1>6, <1>7, <1>8, <1>9

\* The counters after a packet is added at the tail, and taken from the head.
LEMMA BytesAppend ==
    ASSUME NEW s \in Seq(Packets), NEW pkt \in Packets
    PROVE  /\ WireBytes(Append(s, pkt)) = WireBytes(s) + SkbSize(pkt.len)
           /\ ChildBytes(Append(s, pkt)) = ChildBytes(s) + pkt.len
           /\ Len(Append(s, pkt)) = Len(s) + 1
<1> DEFINE t == Append(s, pkt)
           n == Len(s)
<1>1. /\ t \in Seq(Packets) /\ Len(t) = n + 1
      /\ \A i \in 1 .. n : t[i] = s[i]
      /\ t[n + 1] = pkt
  BY AppendProperties
<1> HIDE DEF t
<1> DEFINE f == [i \in 1 .. n |-> SkbSize(s[i].len)]
           g == [i \in 1 .. n |-> s[i].len]
           F == [i \in 1 .. n + 1 |-> SkbSize(t[i].len)]
           G == [i \in 1 .. n + 1 |-> t[i].len]
<1>2. /\ n \in Nat /\ f \in [1 .. n -> Int] /\ g \in [1 .. n -> Int]
  BY FifoSizes
<1>3. F \in [1 .. n + 1 -> Int] /\ G \in [1 .. n + 1 -> Int]
  BY <1>1, FifoSizes
<1>4. /\ \A k \in 1 .. n : F[k] = f[k] /\ G[k] = g[k]
      /\ F[n + 1] = SkbSize(pkt.len) /\ G[n + 1] = pkt.len
  BY <1>1, <1>2
<1>5. /\ WireBytes(t) = SumTo(F, n + 1) /\ ChildBytes(t) = SumTo(G, n + 1)
      /\ WireBytes(s) = SumTo(f, n) /\ ChildBytes(s) = SumTo(g, n)
  BY <1>1 DEF WireBytes, ChildBytes
<1> HIDE DEF f, g, F, G
<1>6. SumTo(F, n + 1) = SumTo(f, n) + F[n + 1]
  BY <1>2, <1>3, <1>4, SumAppend
<1>7. SumTo(G, n + 1) = SumTo(g, n) + G[n + 1]
  BY <1>2, <1>3, <1>4, SumAppend
<1>8. QED
  BY <1>1, <1>4, <1>5, <1>6, <1>7 DEF t

LEMMA BytesTail ==
    ASSUME NEW s \in Seq(Packets), s # <<>>
    PROVE  /\ Head(s) \in Packets /\ Tail(s) \in Seq(Packets)
           /\ WireBytes(Tail(s)) = WireBytes(s) - SkbSize(Head(s).len)
           /\ ChildBytes(Tail(s)) = ChildBytes(s) - Head(s).len
           /\ Len(Tail(s)) = Len(s) - 1
<1> DEFINE t == Tail(s)
           n == Len(t)
<1>1. /\ Head(s) \in Packets /\ t \in Seq(Packets) /\ n = Len(s) - 1
      /\ \A i \in 1 .. n : t[i] = s[i + 1]
      /\ Head(s) = s[1]
  BY HeadTailProperties
<1> HIDE DEF t
<1> DEFINE f == [i \in 1 .. n |-> SkbSize(t[i].len)]
           g == [i \in 1 .. n |-> t[i].len]
           F == [i \in 1 .. n + 1 |-> SkbSize(s[i].len)]
           G == [i \in 1 .. n + 1 |-> s[i].len]
<1>2. n \in Nat /\ f \in [1 .. n -> Int] /\ g \in [1 .. n -> Int]
  BY <1>1, FifoSizes
<1>3. Len(s) \in Nat /\ n + 1 = Len(s)
  BY <1>1, LenProperties
<1>4. F \in [1 .. n + 1 -> Int] /\ G \in [1 .. n + 1 -> Int]
  BY <1>3, FifoSizes
<1>5. /\ \A k \in 1 .. n : F[k + 1] = f[k] /\ G[k + 1] = g[k]
      /\ F[1] = SkbSize(Head(s).len) /\ G[1] = Head(s).len
  BY <1>1, <1>2
<1>6. /\ WireBytes(s) = SumTo(F, n + 1) /\ ChildBytes(s) = SumTo(G, n + 1)
      /\ WireBytes(t) = SumTo(f, n) /\ ChildBytes(t) = SumTo(g, n)
  BY <1>3 DEF WireBytes, ChildBytes
<1>7. SkbSize(Head(s).len) \in Int /\ Head(s).len \in Int
  BY <1>1, PktsLen
<1> HIDE DEF f, g, F, G
<1>8. SumTo(F, n + 1) = F[1] + SumTo(f, n)
  BY <1>2, <1>4, <1>5, SumTail
<1>9. SumTo(G, n + 1) = G[1] + SumTo(g, n)
  BY <1>2, <1>4, <1>5, SumTail
<1>10. SumTo(f, n) \in Int /\ SumTo(g, n) \in Int
  BY <1>2, SumType
<1>11. WireBytes(t) = WireBytes(s) - SkbSize(Head(s).len)
  BY <1>5, <1>6, <1>7, <1>8, <1>10
<1>12. ChildBytes(t) = ChildBytes(s) - Head(s).len
  BY <1>5, <1>6, <1>7, <1>9, <1>10
<1>13. QED
  BY <1>1, <1>11, <1>12 DEF t
-----------------------------------------------------------------------------
\* The total over the classes: when one class changes, and when all are zero.
LEMMA TotalChange ==
    ASSUME NEW f \in [Queues -> Int], NEW h \in [Queues -> Int], NEW c \in Queues,
           NEW d \in Int, h[c] = f[c] + d, \A q \in Queues : q # c => h[q] = f[q]
    PROVE  Total(h) = Total(f) + d
<1> DEFINE F == [i \in 1 .. NumQueues |-> f[i - 1]]
           H == [i \in 1 .. NumQueues |-> h[i - 1]]
<1>1. NumQueues \in Nat
  BY BufferAssumption
<1>2. \A i \in 1 .. NumQueues : i - 1 \in Queues
  BY <1>1 DEF Queues
<1>3. F \in [1 .. NumQueues -> Int] /\ H \in [1 .. NumQueues -> Int]
  BY <1>2
<1>4. c + 1 \in 1 .. NumQueues /\ (c + 1) - 1 = c /\ c \in Int
  BY <1>1 DEF Queues
<1>5. H[c + 1] = F[c + 1] + d
  BY <1>4
<1>6. \A k \in 1 .. NumQueues : k # c + 1 => H[k] = F[k]
  <2>1. SUFFICES ASSUME NEW k \in 1 .. NumQueues, k # c + 1 PROVE h[k - 1] = f[k - 1]
    OBVIOUS
  <2>2. k - 1 # c
    BY <1>4, <2>1
  <2>3. QED
    BY <1>2, <2>2
<1>7. Total(f) = SumTo(F, NumQueues) /\ Total(h) = SumTo(H, NumQueues)
  BY DEF Total
<1> HIDE DEF F, H
<1>8. SumTo(H, NumQueues) = SumTo(F, NumQueues) + d
  BY <1>1, <1>3, <1>4, <1>5, <1>6, SumChange
<1>9. QED
  BY <1>7, <1>8

LEMMA TotalType ==
    ASSUME NEW f \in [Queues -> Nat]
    PROVE  /\ Total(f) \in Nat
           /\ \A c \in Queues : f[c] <= Total(f)
<1> DEFINE F == [i \in 1 .. NumQueues |-> f[i - 1]]
<1>1. NumQueues \in Nat
  BY BufferAssumption
<1>2. \A i \in 1 .. NumQueues : i - 1 \in Queues
  BY <1>1 DEF Queues
<1>3. F \in [1 .. NumQueues -> Nat]
  BY <1>2
<1>4. \A c \in Queues : c + 1 \in 1 .. NumQueues /\ F[c + 1] = f[c]
  BY <1>1 DEF Queues
<1>5. Total(f) = SumTo(F, NumQueues)
  BY DEF Total
<1> HIDE DEF F
<1>6. SumTo(F, NumQueues) \in Nat
      /\ \A k \in 1 .. NumQueues : F[k] <= SumTo(F, NumQueues)
  BY <1>1, <1>3, SumBounds
<1>7. QED
  BY <1>4, <1>5, <1>6

LEMMA TotalInt == ASSUME NEW f \in [Queues -> Int] PROVE Total(f) \in Int
<1> DEFINE F == [i \in 1 .. NumQueues |-> f[i - 1]]
<1>1. NumQueues \in Nat
  BY BufferAssumption
<1>2. \A i \in 1 .. NumQueues : i - 1 \in Queues
  BY <1>1 DEF Queues
<1>3. F \in [1 .. NumQueues -> Int]
  BY <1>2
<1>4. Total(f) = SumTo(F, NumQueues)
  BY DEF Total
<1> HIDE DEF F
<1>5. QED
  BY <1>1, <1>3, <1>4, SumType

\* The sum of zeros is zero.
LEMMA SumZero ==
    ASSUME NEW N \in Nat, NEW f \in [1 .. N -> Int], \A k \in 1 .. N : f[k] = 0
    PROVE  SumTo(f, N) = 0
<1> DEFINE F == PrefixSums(f, N)
           S == {n \in Nat : n <= N => F[n] = 0}
<1>1. F[0] = 0 /\ \A k \in 1 .. N : F[k] = F[k - 1] + f[k]
  BY PrefixSumsFacts
<1> HIDE DEF F
<1>2. 0 \in S
  BY <1>1
<1>3. \A n \in Nat : n \in S => n + 1 \in S
  BY <1>1
<1> HIDE DEF S
<1>4. N \in S
  BY <1>2, <1>3, NatInduct
<1>5. QED
  BY <1>4 DEF S, F, SumTo

LEMMA TotalZero ==
    ASSUME NEW f \in [Queues -> Int], \A c \in Queues : f[c] = 0
    PROVE  Total(f) = 0
<1> DEFINE F == [i \in 1 .. NumQueues |-> f[i - 1]]
<1>1. NumQueues \in Nat
  BY BufferAssumption
<1>2. \A i \in 1 .. NumQueues : i - 1 \in Queues
  BY <1>1 DEF Queues
<1>3. F \in [1 .. NumQueues -> Int] /\ \A k \in 1 .. NumQueues : F[k] = 0
  BY <1>2
<1>4. Total(f) = SumTo(F, NumQueues)
  BY DEF Total
<1> HIDE DEF F
<1>5. QED
  BY <1>1, <1>3, <1>4, SumZero

\* The sum over some of the classes: when one class changes, enters or leaves, when the
\* terms are natural, and when they are zero.
LEMMA TotalOverChange ==
    ASSUME NEW S, NEW T, NEW f, NEW h, NEW c \in Queues, NEW d \in Int,
           \A q \in Queues : q \in S => f[q] \in Int,
           \A q \in Queues : q \in T => h[q] \in Int,
           \A q \in Queues : q # c => (q \in S <=> q \in T) /\ (q \in S => h[q] = f[q]),
           (IF c \in T THEN h[c] ELSE 0) = (IF c \in S THEN f[c] ELSE 0) + d
    PROVE  TotalOver(T, h) = TotalOver(S, f) + d
<1> DEFINE F == [q \in Queues |-> IF q \in S THEN f[q] ELSE 0]
           H == [q \in Queues |-> IF q \in T THEN h[q] ELSE 0]
<1>1. F \in [Queues -> Int] /\ H \in [Queues -> Int]
  OBVIOUS
<1>2. H[c] = F[c] + d /\ \A q \in Queues : q # c => H[q] = F[q]
  OBVIOUS
<1>3. TotalOver(S, f) = Total(F) /\ TotalOver(T, h) = Total(H)
  BY DEF TotalOver
<1> HIDE DEF F, H
<1>4. Total(H) = Total(F) + d
  BY <1>1, <1>2, TotalChange
<1>5. QED
  BY <1>3, <1>4

LEMMA TotalOverType ==
    ASSUME NEW S, NEW f, \A q \in Queues : q \in S => f[q] \in Nat
    PROVE  /\ TotalOver(S, f) \in Nat
           /\ \A q \in Queues : q \in S => f[q] <= TotalOver(S, f)
<1> DEFINE F == [q \in Queues |-> IF q \in S THEN f[q] ELSE 0]
<1>1. F \in [Queues -> Nat] /\ \A q \in Queues : q \in S => F[q] = f[q]
  OBVIOUS
<1>2. TotalOver(S, f) = Total(F)
  BY DEF TotalOver
<1> HIDE DEF F
<1>3. Total(F) \in Nat /\ \A q \in Queues : F[q] <= Total(F)
  BY <1>1, TotalType
<1>4. QED
  BY <1>1, <1>2, <1>3

LEMMA TotalOverZero ==
    ASSUME NEW S, NEW f, \A q \in Queues : q \in S => f[q] = 0
    PROVE  TotalOver(S, f) = 0
<1> DEFINE F == [q \in Queues |-> IF q \in S THEN f[q] ELSE 0]
<1>1. F \in [Queues -> Int] /\ \A q \in Queues : F[q] = 0
  OBVIOUS
<1>2. TotalOver(S, f) = Total(F)
  BY DEF TotalOver
<1> HIDE DEF F
<1>3. Total(F) = 0
  BY <1>1, TotalZero
<1>4. QED
  BY <1>2, <1>3
-----------------------------------------------------------------------------
\* The counters stay exact when a packet is admitted to class c, and when its head
\* packet leaves.
LEMMA CountedAdmit ==
    ASSUME NEW queued \in [Queues -> Seq(Packets)], NEW backlog \in [Queues -> Int],
           NEW len_bytes \in [Queues -> Int], NEW sum, NEW qlen,
           Counted(queued, backlog, len_bytes, sum, qlen),
           NEW c \in Queues, NEW pkt \in Packets
    PROVE  Counted([queued EXCEPT ![c] = Append(@, pkt)],
                   [backlog EXCEPT ![c] = @ + pkt.len],
                   [len_bytes EXCEPT ![c] = @ + SkbSize(pkt.len)],
                   sum + SkbSize(pkt.len), qlen + 1)
<1> DEFINE q1 == [queued EXCEPT ![c] = Append(@, pkt)]
           b1 == [backlog EXCEPT ![c] = @ + pkt.len]
           l1 == [len_bytes EXCEPT ![c] = @ + SkbSize(pkt.len)]
           n0 == [d \in Queues |-> Len(queued[d])]
           n1 == [d \in Queues |-> Len(q1[d])]
<1>1. /\ WireBytes(Append(queued[c], pkt)) = WireBytes(queued[c]) + SkbSize(pkt.len)
      /\ ChildBytes(Append(queued[c], pkt)) = ChildBytes(queued[c]) + pkt.len
      /\ Len(Append(queued[c], pkt)) = Len(queued[c]) + 1
  BY BytesAppend
<1>2. pkt.len \in Int /\ SkbSize(pkt.len) \in Int
  BY PktsLen
<1>3. q1[c] = Append(queued[c], pkt) /\ \A d \in Queues : d # c => q1[d] = queued[d]
  OBVIOUS
<1>4. b1[c] = backlog[c] + pkt.len /\ \A d \in Queues : d # c => b1[d] = backlog[d]
  OBVIOUS
<1>5. /\ l1[c] = len_bytes[c] + SkbSize(pkt.len)
      /\ \A d \in Queues : d # c => l1[d] = len_bytes[d]
  OBVIOUS
<1>6. \A d \in Queues : l1[d] = WireBytes(q1[d]) /\ b1[d] = ChildBytes(q1[d])
  <2>1. \A d \in Queues : len_bytes[d] = WireBytes(queued[d])
                          /\ backlog[d] = ChildBytes(queued[d])
    BY DEF Counted
  <2> HIDE DEF q1, b1, l1
  <2>2. QED
    BY <1>1, <1>3, <1>4, <1>5, <2>1
<1>7. Total(l1) = sum + SkbSize(pkt.len)
  <2>1. l1 \in [Queues -> Int]
    BY <1>2
  <2> HIDE DEF l1
  <2>2. Total(l1) = Total(len_bytes) + SkbSize(pkt.len)
    BY <1>2, <1>5, <2>1, TotalChange
  <2>3. QED
    BY <2>2 DEF Counted
<1>8. Total(n1) = qlen + 1
  <2>1. \A d \in Queues : Len(queued[d]) \in Int
    BY LenProperties
  <2>2. n0 \in [Queues -> Int] /\ n1 \in [Queues -> Int]
    BY <1>1, <1>3, <2>1
  <2>3. n1[c] = n0[c] + 1 /\ \A d \in Queues : d # c => n1[d] = n0[d]
    BY <1>1, <1>3
  <2> HIDE DEF n0, n1
  <2>4. 1 \in Int
    OBVIOUS
  <2>5. Total(n1) = Total(n0) + 1
    BY <2>2, <2>3, <2>4, TotalChange
  <2>6. QED
    BY <2>5 DEF Counted, n0
<1>9. QED
  BY <1>6, <1>7, <1>8 DEF Counted

LEMMA CountedSend ==
    ASSUME NEW queued \in [Queues -> Seq(Packets)], NEW backlog \in [Queues -> Int],
           NEW len_bytes \in [Queues -> Int], NEW sum \in Int, NEW qlen \in Int,
           Counted(queued, backlog, len_bytes, sum, qlen),
           NEW c \in Queues, queued[c] # <<>>,
           NEW len, len = Head(queued[c]).len
    PROVE  Counted([queued EXCEPT ![c] = Tail(@)],
                   [backlog EXCEPT ![c] = @ - len],
                   [len_bytes EXCEPT ![c] = @ - SkbSize(len)],
                   sum - SkbSize(len), qlen - 1)
<1> DEFINE q1 == [queued EXCEPT ![c] = Tail(@)]
           b1 == [backlog EXCEPT ![c] = @ - len]
           l1 == [len_bytes EXCEPT ![c] = @ - SkbSize(len)]
           n0 == [d \in Queues |-> Len(queued[d])]
           n1 == [d \in Queues |-> Len(q1[d])]
<1>1. /\ Head(queued[c]) \in Packets
      /\ WireBytes(Tail(queued[c])) = WireBytes(queued[c]) - SkbSize(len)
      /\ ChildBytes(Tail(queued[c])) = ChildBytes(queued[c]) - len
      /\ Len(Tail(queued[c])) = Len(queued[c]) - 1
  BY BytesTail
<1>2. len \in Int /\ SkbSize(len) \in Int
  BY <1>1, PktsLen
<1>3. q1[c] = Tail(queued[c]) /\ \A d \in Queues : d # c => q1[d] = queued[d]
  OBVIOUS
<1>4. b1[c] = backlog[c] - len /\ \A d \in Queues : d # c => b1[d] = backlog[d]
  OBVIOUS
<1>5. /\ l1[c] = len_bytes[c] - SkbSize(len)
      /\ \A d \in Queues : d # c => l1[d] = len_bytes[d]
  OBVIOUS
<1>6. \A d \in Queues : l1[d] = WireBytes(q1[d]) /\ b1[d] = ChildBytes(q1[d])
  <2>1. \A d \in Queues : len_bytes[d] = WireBytes(queued[d])
                          /\ backlog[d] = ChildBytes(queued[d])
    BY DEF Counted
  <2> HIDE DEF q1, b1, l1
  <2>2. QED
    BY <1>1, <1>3, <1>4, <1>5, <2>1
<1>7. Total(l1) = sum - SkbSize(len)
  <2>1. l1 \in [Queues -> Int]
    BY <1>2
  <2>2. 0 - SkbSize(len) \in Int /\ l1[c] = len_bytes[c] + (0 - SkbSize(len))
    BY <1>2, <1>5
  <2> HIDE DEF l1
  <2>3. Total(l1) = Total(len_bytes) + (0 - SkbSize(len))
    BY <1>5, <2>1, <2>2, TotalChange
  <2>4. QED
    BY <1>2, <2>3 DEF Counted
<1>8. Total(n1) = qlen - 1
  <2>1. \A d \in Queues : Len(queued[d]) \in Int
    BY LenProperties
  <2>2. n0 \in [Queues -> Int] /\ n1 \in [Queues -> Int]
    BY <1>1, <1>3, <2>1
  <2> DEFINE d1 == 0 - 1
  <2>3. d1 \in Int /\ n1[c] = n0[c] + d1 /\ \A d \in Queues : d # c => n1[d] = n0[d]
    BY <1>1, <1>3, <2>1
  <2> HIDE DEF n0, n1, d1
  <2>4. Total(n1) = Total(n0) + d1
    BY <2>2, <2>3, TotalChange
  <2>5. QED
    BY <2>4 DEF Counted, n0, d1
<1>9. QED
  BY <1>6, <1>7, <1>8 DEF Counted

\* And the counters of an empty port.
LEMMA CountedInit ==
    Counted([c \in Queues |-> <<>>], [c \in Queues |-> 0], [c \in Queues |-> 0], 0, 0)
<1>1. WireBytes(<<>>) = 0 /\ ChildBytes(<<>>) = 0
  <2>1. <<>> \in Seq(Packets)
    OBVIOUS
  <2>2. QED
    BY <2>1, BytesType
<1> DEFINE z == [c \in Queues |-> 0]
           n == [c \in Queues |-> Len([d \in Queues |-> <<>>][c])]
<1>2. z \in [Queues -> Int] /\ \A c \in Queues : z[c] = 0
  OBVIOUS
<1>3. n \in [Queues -> Int] /\ \A c \in Queues : n[c] = 0
  OBVIOUS
<1> HIDE DEF z, n
<1>4. Total(z) = 0 /\ Total(n) = 0
  BY <1>2, <1>3, TotalZero
<1>5. QED
  BY <1>1, <1>2, <1>4 DEF Counted, z, n

-----------------------------------------------------------------------------
\* A transmission time is a natural number of ns.
LEMMA LengthToTimeType ==
    ASSUME NEW bytes \in Nat, NEW mult \in Nat, NEW div \in Nat \ {0}
    PROVE  LengthToTime(bytes, mult, div) \in Nat
<1>1. \A k \in Nat : k \div div \in Nat
  OBVIOUS
<1>2. bytes * mult \in Nat
  OBVIOUS
<1>3. QED
  BY <1>1, <1>2 DEF LengthToTime
-----------------------------------------------------------------------------
\* The counters per priority stay exact when the length of one class changes together
\* with the counter of its priority, which may be new to it if it is empty.
LEMMA PerPrioChange ==
    ASSUME NEW P, NEW prio \in [Queues -> P], NEW prio1 \in [Queues -> P],
           NEW len \in [Queues -> Int], NEW bytes \in [P -> Int],
           CountedPerPrio(prio, len, bytes),
           NEW c \in Queues, NEW d \in Int,
           len[c] = 0 \/ prio1[c] = prio[c],
           \A q \in Queues : q # c => prio1[q] = prio[q]
    PROVE  CountedPerPrio(prio1, [len EXCEPT ![c] = @ + d],
                          [bytes EXCEPT ![prio1[c]] = @ + d])
<1> DEFINE l1 == [len EXCEPT ![c] = @ + d]
           b1 == [bytes EXCEPT ![prio1[c]] = @ + d]
<1>1. prio1[c] \in P
  OBVIOUS
<1>2. /\ l1 \in [Queues -> Int] /\ b1 \in [P -> Int]
      /\ b1[prio1[c]] = bytes[prio1[c]] + d /\ l1[c] = len[c] + d
      /\ \A q \in Queues : q # c => prio1[q] = prio[q] /\ l1[q] = len[q]
      /\ \A p \in P : p # prio1[c] => b1[p] = bytes[p]
  BY <1>1
<1> HIDE DEF l1, b1
<1>3. ASSUME NEW p \in P
      PROVE  b1[p] = Total([q \in Queues |-> IF prio1[q] = p THEN l1[q] ELSE 0])
  <2> DEFINE f == [q \in Queues |-> IF prio[q] = p THEN len[q] ELSE 0]
             h == [q \in Queues |-> IF prio1[q] = p THEN l1[q] ELSE 0]
  <2>1. f \in [Queues -> Int] /\ h \in [Queues -> Int]
    BY <1>2
  <2>2. bytes[p] = Total(f)
    BY DEF CountedPerPrio
  <2>3. \A q \in Queues : q # c => h[q] = f[q]
    BY <1>2
  <2>4. CASE p = prio1[c]
    <3>1. h[c] = f[c] + d
      BY <1>2, <2>4
    <3> HIDE DEF f, h
    <3>2. Total(h) = Total(f) + d
      BY <2>1, <2>3, <3>1, TotalChange
    <3>3. QED
      BY <1>2, <2>2, <2>4, <3>2 DEF h
  <2>5. CASE p # prio1[c]
    <3>1. h[c] = f[c]
      BY <2>5
    <3>2. h = f
      BY <2>3, <3>1
    <3> HIDE DEF f, h
    <3>3. QED
      BY <1>2, <2>2, <2>5, <3>2 DEF h
  <2>6. QED
    BY <2>4, <2>5
<1>4. CountedPerPrio(prio1, l1, b1)
  <2>1. DOMAIN b1 = P
    BY <1>2
  <2>2. QED
    BY <1>3, <2>1 DEF CountedPerPrio
<1>5. QED
  BY <1>4 DEF l1, b1

\* Nothing is counted when all lengths are zero.
LEMMA PerPrioInit ==
    ASSUME NEW P, NEW prio \in [Queues -> P]
    PROVE  CountedPerPrio(prio, [c \in Queues |-> 0], [p \in P |-> 0])
<1>1. SUFFICES ASSUME NEW p \in P
               PROVE  Total([q \in Queues |-> IF prio[q] = p THEN [c \in Queues |-> 0][q]
                                              ELSE 0]) = 0
  BY DEF CountedPerPrio
<1> DEFINE f == [q \in Queues |-> IF prio[q] = p THEN [c \in Queues |-> 0][q] ELSE 0]
<1>2. f \in [Queues -> Int] /\ \A q \in Queues : f[q] = 0
  OBVIOUS
<1> HIDE DEF f
<1>3. Total(f) = 0
  BY <1>2, TotalZero
<1>4. QED
  BY <1>3 DEF f
-----------------------------------------------------------------------------
\* A share of a threshold is at most the threshold, and a natural number.
LEMMA ShareBounds ==
    ASSUME NEW a \in Nat, NEW r \in Nat \ {0}, NEW t \in Nat, a <= r
    PROVE  (a * t) \div r \in Nat /\ (a * t) \div r <= t
<1> DEFINE x == a * t
           q == x \div r
<1>1. x \in Nat /\ x <= r * t
  <2>1. \A i, j, k \in Nat : i <= j => i * k \in Nat /\ i * k <= j * k
    OBVIOUS
  <2>2. QED
    BY <2>1
<1> HIDE DEF x
<1>2. q \in Int /\ q \in Nat /\ r * q <= x
  BY <1>1
<1> HIDE DEF q
<1>3. r * q <= r * t
  <2>1. r * q \in Int /\ r * t \in Int
    BY <1>2
  <2>2. QED
    BY <1>1, <1>2, <2>1
<1>4. q <= t
  <2>1. SUFFICES ASSUME q >= t + 1 PROVE FALSE
    BY <1>2
  <2>2. \A i, j, k \in Nat : i <= j => k * i <= k * j
    OBVIOUS
  <2>3. t + 1 \in Nat /\ r * (t + 1) <= r * q
    BY <1>2, <2>1, <2>2
  <2>4. r * (t + 1) = r * t + r
    OBVIOUS
  <2>5. r * q \in Int /\ r * t \in Int
    BY <1>2
  <2>6. QED
    BY <1>3, <2>3, <2>4, <2>5
<1>5. QED
  BY <1>2, <1>4 DEF q, x
-----------------------------------------------------------------------------
\* Products and remainders.
LEMMA Products ==
    \A m, n, k \in Nat : /\ m * k \in Nat /\ (m + 1) * k = m * k + k
                         /\ m <= n => m * k <= n * k
<1>1. TAKE m, n, k \in Nat
<1>2. m * k \in Nat /\ (m + 1) * k = m * k + k
  OBVIOUS
<1>3. ASSUME m <= n PROVE m * k <= n * k
  <2>1. n - m \in Nat /\ n = m + (n - m)
    BY <1>3
  <2>2. (n - m) * k \in Nat
    BY <2>1
  <2>3. n * k = m * k + (n - m) * k
    BY <2>1
  <2>4. QED
    BY <1>2, <2>2, <2>3
<1>4. QED
  BY <1>2, <1>3

\* The remainders of the numbers on either side of zero.
LEMMA Remainders ==
    ASSUME NEW w \in Nat \ {0}, NEW k \in Int
    PROVE  /\ k \in 0 .. w - 1 => k % w = k
           /\ 0 - w <= k /\ k < 0 => k % w = k + w
<1>1. ASSUME k \in 0 .. w - 1 PROVE k % w = k
  BY <1>1
<1>2. ASSUME 0 - w <= k, k < 0 PROVE k % w = k + w
  BY <1>2
<1>3. QED
  BY <1>1, <1>2

LEMMA Wrapped ==
    ASSUME NEW w \in Nat \ {0}, NEW k \in Int
    PROVE  /\ k \in 0 .. w - 1 => k % w = k
           /\ w <= k /\ k < 2 * w => k % w = k - w
<1>1. ASSUME k \in 0 .. w - 1 PROVE k % w = k
  BY <1>1
<1>2. ASSUME w <= k, k < 2 * w PROVE k % w = k - w
  BY <1>2
<1>3. QED
  BY <1>1, <1>2
-----------------------------------------------------------------------------
\* The operators of CodelMarking: types, and comparisons on the wrapping clock.
\* The ranges of the machine integers are not empty.
LEMMA WidthsPositive ==
    /\ U32 \in Nat \ {0} /\ U64 \in Nat \ {0}
    /\ SqrtUnit \in Nat \ {0} /\ SqrtUnit - 1 \in 0 .. SqrtUnit - 1
    /\ 0 \in CodelTimes /\ 1 \in CodelTimes
<1>1. \A a, b \in Nat \ {0} : a * b \in Nat \ {0}
  OBVIOUS
<1>2. SqrtUnit \in Nat \ {0} /\ SqrtUnit > 1
  BY CodelAssumption
<1>3. U32 \in Nat \ {0}
  BY <1>1, <1>2 DEF U32
<1>4. U64 \in Nat \ {0}
  BY <1>1, <1>3 DEF U64
<1>5. U32 > 1
  <2>1. \A a, b \in Nat : a > 1 /\ b > 1 => a * b > 1
    OBVIOUS
  <2>2. QED
    BY <2>1, <1>2 DEF U32
<1>6. QED
  BY <1>2, <1>3, <1>4, <1>5 DEF CodelTimes

\* A value reduced modulo a width fits the width.
LEMMA ReducedFits ==
    /\ \A k \in Int : k % U32 \in CodelTimes
    /\ \A k \in Int : k % U64 \in Nat
    /\ \A k \in Int : k % SqrtUnit \in 0 .. SqrtUnit - 1
    /\ CodelTimes \subseteq Nat
<1>1. \A w \in Nat \ {0} : \A k \in Int : k % w \in 0 .. w - 1
  OBVIOUS
<1>2. QED
  BY <1>1, WidthsPositive DEF CodelTimes

\* codel_Newton_step yields a u16.
LEMMA NewtonStepType ==
    ASSUME NEW count \in CodelTimes, NEW r \in 0 .. SqrtUnit - 1
    PROVE  NewtonStep(count, r) \in 0 .. SqrtUnit - 1
<1> DEFINE invsqrt  == r * SqrtUnit
           invsqrt2 == (invsqrt * invsqrt) \div U32
           val      == ((3 * U32 - count * invsqrt2) % U64) \div 4
           scaled   == ((val * invsqrt) % U64) \div (U32 \div 2)
<1>1. invsqrt \in Int
  BY WidthsPositive
<1>2. invsqrt2 \in Int
  <2>1. invsqrt * invsqrt \in Int
    BY <1>1
  <2>2. QED
    BY <2>1, WidthsPositive
<1>3. val \in Int
  <2>1. count * invsqrt2 \in Int
    BY <1>2, ReducedFits
  <2>2. (3 * U32 - count * invsqrt2) % U64 \in Nat
    BY <2>1, ReducedFits, WidthsPositive
  <2>3. QED
    BY <2>2
<1>4. scaled \in Int
  <2>1. val * invsqrt \in Int
    BY <1>1, <1>3
  <2>2. (val * invsqrt) % U64 \in Nat
    BY <2>1, ReducedFits
  <2>3. U32 \div 2 \in Nat \ {0}
    <3>1. U32 > 1
      BY WidthsPositive DEF CodelTimes
    <3>2. QED
      BY <3>1, WidthsPositive
  <2>4. QED
    BY <2>2, <2>3
<1>5. scaled \div SqrtUnit \in Int
  BY <1>4, WidthsPositive
<1>6. QED
  BY <1>5, ReducedFits DEF NewtonStep

\* codel_control_law yields a codel time.
LEMMA ControlLawType ==
    ASSUME NEW t \in CodelTimes, NEW r \in 0 .. SqrtUnit - 1
    PROVE  ControlLaw(t, r) \in CodelTimes
<1>1. CodelInterval * r * SqrtUnit \in Int
  BY CodelAssumption
<1>2. (CodelInterval * r * SqrtUnit) \div U32 \in Int
  BY <1>1, WidthsPositive
<1>3. QED
  BY <1>2, ReducedFits DEF ControlLaw

\* ns_to_codel_time yields a codel time.
LEMMA CodelTimeType == \A ns \in Int : CodelTime(ns) \in CodelTimes
<1>1. \A ns \in Int : ns \div CodelUnit \in Int
  BY CodelAssumption
<1>2. QED
  BY <1>1, ReducedFits DEF CodelTime

\* codel_marking keeps the types of the CoDel fields of a class, and decides to
\* mark the packet or not.
LEMMA CodelMarkType ==
    ASSUME NEW c \in CodelState, NEW tstamp \in Int, NEW len_bytes \in Int,
           NEW now_ns \in Int
    PROVE  /\ CodelMark(c, tstamp, len_bytes, now_ns).class \in CodelState
           /\ CodelMark(c, tstamp, len_bytes, now_ns).ce \in BOOLEAN
<1> DEFINE now   == CodelTime(now_ns)
           delay == CodelTime(now_ns - tstamp)
           mark  == ShouldMark(c, delay, len_bytes, now)
           seen  == Observe(c, delay, len_bytes, now)
           again == c.marking /\ mark /\ CodelAfterEq(now, c.mark_next)
           start == ~ c.marking /\ mark
<1>1. now \in CodelTimes /\ delay \in CodelTimes
  BY CodelTimeType
<1>2. mark \in BOOLEAN
  BY DEF ShouldMark
<1> HIDE DEF now, delay, mark
<1>3. seen \in CodelState
  <2>1. now + CodelInterval \in Int
    BY <1>1, ReducedFits, CodelAssumption
  <2>2. (now + CodelInterval) % U32 \in CodelTimes
    BY <2>1, ReducedFits
  <2>3. QED
    BY <1>1, <2>2, WidthsPositive DEF Observe, CodelState
<1> HIDE DEF seen
<1>4. MarkAgain(seen) \in CodelState
  <2>1. (seen.count + 1) % U32 \in CodelTimes
    <3>1. seen.count \in CodelTimes
      BY <1>3 DEF CodelState
    <3>2. seen.count \in Nat
      BY <3>1, ReducedFits, Zenon
    <3>3. seen.count + 1 \in Int
      BY <3>2
    <3>4. QED
      BY <3>3, ReducedFits
  <2>2. NewtonStep((seen.count + 1) % U32, seen.rec_inv_sqrt) \in 0 .. SqrtUnit - 1
    BY <1>3, <2>1, NewtonStepType DEF CodelState
  <2>3. ControlLaw(seen.mark_next,
                   NewtonStep((seen.count + 1) % U32, seen.rec_inv_sqrt)) \in CodelTimes
    BY <1>3, <2>2, ControlLawType DEF CodelState
  <2>4. QED
    BY <1>3, <2>1, <2>2, <2>3 DEF MarkAgain, CodelState
<1>5. StartMarking(seen, now) \in CodelState
  <2> DEFINE delta  == (seen.count - seen.lastcount) % U32
             resume == /\ delta > 1
                       /\ CodelAfter((CodelInterval * 16) % U32,
                                     (now - seen.mark_next) % U32)
             n == IF resume THEN delta ELSE 1
             r == IF resume THEN NewtonStep(delta, seen.rec_inv_sqrt) ELSE FullRoot
  <2>1. delta \in CodelTimes
    <3>1. seen.count \in CodelTimes /\ seen.lastcount \in CodelTimes
      BY <1>3 DEF CodelState
    <3>2. seen.count \in Nat /\ seen.lastcount \in Nat
      BY <3>1, ReducedFits, Zenon
    <3>3. seen.count - seen.lastcount \in Int
      BY <3>2
    <3>4. QED
      BY <3>3, ReducedFits
  <2>2. NewtonStep(delta, seen.rec_inv_sqrt) \in 0 .. SqrtUnit - 1
    BY <1>3, <2>1, NewtonStepType DEF CodelState
  <2> HIDE DEF delta, resume
  <2>3. n \in CodelTimes /\ r \in 0 .. SqrtUnit - 1
    BY <2>1, <2>2, WidthsPositive DEF FullRoot
  <2>4. ControlLaw(now, r) \in CodelTimes
    BY <1>1, <2>3, ControlLawType
  <2> HIDE DEF n, r
  <2>5. [seen EXCEPT !.marking = TRUE, !.count = n, !.lastcount = n,
                     !.rec_inv_sqrt = r, !.mark_next = ControlLaw(now, r)]
          \in CodelState
    BY <1>3, <2>3, <2>4 DEF CodelState
  <2>6. QED
    BY <2>5 DEF StartMarking, n, r, resume, delta
<1>6. [seen EXCEPT !.marking = mark] \in CodelState
  BY <1>2, <1>3 DEF CodelState
<1>7. CodelMark(c, tstamp, len_bytes, now_ns) =
        [class |-> IF again THEN MarkAgain(seen)
                   ELSE IF start THEN StartMarking(seen, now)
                   ELSE [seen EXCEPT !.marking = mark],
         ce    |-> again \/ start]
  BY DEF CodelMark, now, delay, mark, seen
<1>8. QED
  BY <1>4, <1>5, <1>6, <1>7

\* The comparisons of the wrapping clock are those of the numbers, for a delay and a
\* threshold of less than half the clock.
LEMMA DelayAbove ==
    ASSUME NEW delay \in CodelTimes, NEW thresh \in Nat, 2 * thresh < U32
    PROVE  /\ CodelAfter(delay, thresh) => delay > thresh
           /\ ~ CodelAfter(thresh, delay) => delay >= thresh
<1>1. U32 \in Nat \ {0} /\ delay \in Nat /\ delay < U32
  BY WidthsPositive DEF CodelTimes
<1> DEFINE w == U32
<1> HIDE DEF w
<1>2. w \in Nat \ {0} /\ delay \in Nat /\ delay < w /\ 2 * thresh < w
  BY <1>1 DEF w
<1>3. ASSUME CodelAfter(delay, thresh), ~ (delay > thresh) PROVE FALSE
  <2> DEFINE k == delay - thresh
  <2>1. 0 < k % w /\ 2 * (k % w) < w
    BY <1>3 DEF CodelAfter, w
  <2>2. k \in Int /\ k <= 0 /\ 0 - w <= k
    BY <1>2, <1>3
  <2>3. 0 - w < 2 * k
    BY <1>2
  <2> HIDE DEF k
  <2>4. CASE k = 0
    <3>1. k % w = 0
      BY <1>2, <2>2, <2>4, Remainders
    <3>2. QED
      BY <2>1, <3>1
  <2>5. CASE k < 0
    <3>1. k % w = k + w
      BY <1>2, <2>2, <2>5, Remainders
    <3>2. QED
      BY <1>2, <2>1, <2>2, <2>3, <3>1
  <2>6. QED
    BY <2>2, <2>4, <2>5
<1>4. ASSUME ~ CodelAfter(thresh, delay), ~ (delay >= thresh) PROVE FALSE
  <2> DEFINE k == thresh - delay
  <2>1. ~ (0 < k % w /\ 2 * (k % w) < w)
    BY <1>4 DEF CodelAfter, w
  <2>2. k \in Int /\ 0 < k /\ k <= thresh
    BY <1>2, <1>4
  <2> HIDE DEF k
  <2>3. k % w = k
    BY <1>2, <2>2, Remainders
  <2>4. QED
    BY <1>2, <2>1, <2>2, <2>3
<1>5. QED
  BY <1>3, <1>4
-----------------------------------------------------------------------------
\* What codel_marking does with the time at which the delay will have been above the
\* target for an interval, and that it marks only when codel_should_mark says so.
LEMMA CodelMarkAbove ==
    ASSUME NEW c \in CodelState, NEW tstamp, NEW len_bytes, NEW now_ns
    PROVE  LET now    == CodelTime(now_ns)
               delay  == CodelTime(now_ns - tstamp)
               result == CodelMark(c, tstamp, len_bytes, now_ns)
           IN  /\ result.class.first_above_time =
                      IF BelowTarget(delay, len_bytes) THEN 0
                      ELSE IF c.first_above_time = 0 THEN (now + CodelInterval) % U32
                      ELSE c.first_above_time
               /\ result.ce => ShouldMark(c, delay, len_bytes, now)
<1> DEFINE now   == CodelTime(now_ns)
           delay == CodelTime(now_ns - tstamp)
           mark  == ShouldMark(c, delay, len_bytes, now)
           seen  == Observe(c, delay, len_bytes, now)
           again == c.marking /\ mark /\ CodelAfterEq(now, c.mark_next)
           start == ~ c.marking /\ mark
           above == IF BelowTarget(delay, len_bytes) THEN 0
                    ELSE IF c.first_above_time = 0 THEN (now + CodelInterval) % U32
                    ELSE c.first_above_time
<1>1. seen = [c EXCEPT !.ldelay = delay, !.first_above_time = above]
  BY DEF Observe
<1>2. CodelMark(c, tstamp, len_bytes, now_ns) =
        [class |-> IF again THEN MarkAgain(seen)
                   ELSE IF start THEN StartMarking(seen, now)
                   ELSE [seen EXCEPT !.marking = mark],
         ce    |-> again \/ start]
  BY DEF CodelMark
<1> HIDE DEF now, delay, mark, seen, above
<1>3. /\ seen.first_above_time = above
      /\ DOMAIN seen = {"count", "lastcount", "marking", "rec_inv_sqrt",
                        "first_above_time", "mark_next", "ldelay"}
  BY <1>1 DEF CodelState
<1>4. MarkAgain(seen).first_above_time = above
  BY <1>3 DEF MarkAgain
<1>5. StartMarking(seen, now).first_above_time = above
  BY <1>3 DEF StartMarking
<1>6. [seen EXCEPT !.marking = mark].first_above_time = above
  BY <1>3
<1>7. CodelMark(c, tstamp, len_bytes, now_ns).class.first_above_time = above
  <2> HIDE DEF again, start
  <2>1. CodelMark(c, tstamp, len_bytes, now_ns).class =
            IF again THEN MarkAgain(seen)
            ELSE IF start THEN StartMarking(seen, now) ELSE [seen EXCEPT !.marking = mark]
    BY <1>2
  <2>2. QED
    BY <1>4, <1>5, <1>6, <2>1
<1>9. CodelMark(c, tstamp, len_bytes, now_ns).ce => mark
  <2>1. again \/ start => mark
    OBVIOUS
  <2> HIDE DEF again, start
  <2>2. CodelMark(c, tstamp, len_bytes, now_ns).ce = (again \/ start)
    BY <1>2
  <2>3. QED
    BY <2>1, <2>2, Zenon
<1>8. QED
  BY <1>7, <1>9 DEF now, delay, mark, above

\* Adding a multiple of the width does not change what remains.
LEMMA RemainderShift ==
    ASSUME NEW w \in Nat \ {0}, NEW x \in Int, NEW k \in Int
    PROVE  (x + k * w) % w = x % w
<1> DEFINE y  == x + k * w
           qx == x \div w
           qy == y \div w
           rx == x % w
           ry == y % w
<1>1. y \in Int /\ k * w \in Int
  OBVIOUS
<1> HIDE DEF y
<1>2. /\ qx \in Int /\ rx \in 0 .. w - 1 /\ x = w * qx + rx
      /\ qy \in Int /\ ry \in 0 .. w - 1 /\ y = w * qy + ry
  BY <1>1
<1> HIDE DEF qx, qy, rx, ry
<1> DEFINE m == qy - k - qx
<1>3. rx - ry = w * m
  <2>1. w * qx \in Int /\ w * qy \in Int /\ k * w = w * k /\ w * k \in Int
    BY <1>2
  <2>2. w * m = w * qy - w * k - w * qx
    BY <1>2
  <2>3. QED
    BY <1>2, <2>1, <2>2 DEF y
<1>4. m = 0
  <2>1. m \in Int
    BY <1>2
  <2> HIDE DEF m
  <2>2. CASE m >= 1
    <3>1. w * m >= w
      BY <2>1, <2>2
    <3>2. QED
      BY <1>2, <1>3, <3>1
  <2>3. CASE m <= 0 - 1
    <3>1. w * m <= 0 - w
      BY <2>1, <2>3
    <3>2. QED
      BY <1>2, <1>3, <3>1
  <2>4. QED
    BY <2>1, <2>2, <2>3
<1>5. rx = ry
  BY <1>2, <1>3, <1>4
<1>6. QED
  BY <1>5 DEF rx, ry, y

\* The wrapping clock is past what it was at time t plus the interval only if the
\* interval has passed since, however often the clock has wrapped.
LEMMA IntervalPassed ==
    ASSUME NEW t \in Nat, NEW now \in Nat, t <= now,
           CodelAfter(CodelTime(now), (CodelTime(t) + CodelInterval) % U32)
    PROVE  now - t > CodelInterval * CodelUnit
<1> DEFINE w == U32
           u == CodelUnit
           a == now \div u
           b == t \div u
           I == CodelInterval
           x == a - b - I
<1>1. w \in Nat \ {0} /\ u \in Nat \ {0} /\ I \in Nat /\ 2 * I < w
  BY WidthsPositive, CodelAssumption DEF U32
<1>2. CodelAfter(a % w, ((b % w) + I) % w)
  BY DEF CodelTime
<1> HIDE DEF w, u, I
<1>3. /\ a \in Nat /\ u * a <= now /\ now < u * a + u
      /\ b \in Nat /\ u * b <= t /\ t < u * b + u
  BY <1>1
<1> HIDE DEF a, b
<1>4. x \in Int
  BY <1>1, <1>3
<1>5. ((a % w) - (((b % w) + I) % w)) % w = x % w
  <2> DEFINE c == (b % w) + I
             qa == a \div w
             qb == b \div w
             qc == c \div w
             k  == qb - qa + qc
  <2>1. qa \in Int /\ a % w \in Int /\ a % w = a - w * qa
    BY <1>1, <1>3
  <2>2. qb \in Int /\ b % w \in Int /\ b % w = b - w * qb
    BY <1>1, <1>3
  <2>3. c \in Int
    BY <1>1, <2>2
  <2>4. qc \in Int /\ c % w \in Int /\ c % w = c - w * qc
    <3> HIDE DEF c
    <3>1. QED
      BY <1>1, <2>3
  <2>5. (a % w) - (c % w) = x + k * w
    <3>1. c = b - w * qb + I
      BY <2>2
    <3> HIDE DEF c, qa, qb, qc
    <3>2. /\ w * qa \in Int /\ w * qb \in Int /\ w * qc \in Int
          /\ k * w = w * qb - w * qa + w * qc
      BY <1>1, <2>1, <2>2, <2>4
    <3>3. QED
      BY <1>1, <1>3, <2>1, <2>4, <3>1, <3>2
  <2>6. k \in Int
    BY <2>1, <2>2, <2>4
  <2> HIDE DEF c, k, x
  <2>7. (x + k * w) % w = x % w
    BY <1>1, <1>4, <2>6, RemainderShift
  <2>8. QED
    BY <2>5, <2>7 DEF c
<1>6. 0 < x % w /\ 2 * (x % w) < w
  BY <1>2, <1>5 DEF CodelAfter, w
<1>7. x > 0
  <2>1. CASE x = 0
    <3>1. x % w = 0
      BY <1>1, <1>4, <2>1, Remainders
    <3>2. QED
      BY <1>6, <3>1
  <2>2. CASE x < 0
    <3>1. 0 - I <= x
      <4>1. a >= b
        <5>1. SUFFICES ASSUME a + 1 <= b PROVE FALSE
          BY <1>3
        <5>2. u * (a + 1) <= u * b
          BY <1>1, <1>3, <5>1
        <5>3. u * (a + 1) = u * a + u /\ u * a \in Int /\ u * b \in Int
          BY <1>1, <1>3
        <5>4. QED
          BY <1>1, <1>3, <5>2, <5>3
      <4>2. QED
        BY <1>1, <1>3, <4>1
    <3>2. 0 - w <= x /\ 0 - w < 2 * x
      BY <1>1, <1>4, <3>1
    <3> HIDE DEF x
    <3>3. x % w = x + w
      BY <1>1, <1>4, <2>2, <3>2, Remainders
    <3>4. QED
      BY <1>1, <1>4, <1>6, <3>2, <3>3
  <2>3. QED
    BY <1>4, <2>1, <2>2
<1>8. a >= b + 1 + I
  BY <1>1, <1>3, <1>7
<1>9. u * a >= u * (b + 1 + I)
  BY <1>1, <1>3, <1>8
<1>10. u * (b + 1 + I) = u * b + u + u * I
  BY <1>1, <1>3
<1>11. u * a \in Int /\ u * b \in Int /\ u * I \in Int /\ u * I = I * u
  BY <1>1, <1>3
<1>12. now - t > u * I
  BY <1>1, <1>3, <1>9, <1>10, <1>11
<1>13. QED
  BY <1>11, <1>12 DEF u, I

\* codel_control_law adds at most the interval, whatever the root.
LEMMA ControlLawAhead ==
    ASSUME NEW t \in CodelTimes, NEW r \in 0 .. SqrtUnit - 1
    PROVE  \E k \in 0 .. CodelInterval : ControlLaw(t, r) = (t + k) % U32
<1> DEFINE s == SqrtUnit
           i == CodelInterval
           w == U32
           a == i * r * s
           k == a \div w
<1>1. s \in Nat \ {0} /\ i \in Nat /\ w \in Nat \ {0} /\ w = s * s /\ r \in Nat /\ r <= s
  BY WidthsPositive, CodelAssumption DEF U32
<1>2. ControlLaw(t, r) = (t + k) % w
  BY DEF ControlLaw
<1> HIDE DEF s, i, w
<1>3. r * s \in Nat /\ r * s <= w
  BY <1>1, Products
<1>4. a = (r * s) * i /\ a \in Nat /\ a <= w * i
  BY <1>1, <1>3, Products
<1> HIDE DEF a
<1>5. k \in Nat /\ w * k <= a
  BY <1>1, <1>4
<1> HIDE DEF k
<1>6. k <= i
  <2>1. SUFFICES ASSUME i + 1 <= k PROVE FALSE
    BY <1>1, <1>5
  <2>2. (i + 1) * w <= k * w /\ (i + 1) * w = i * w + w
    BY <1>1, <1>5, <2>1, Products
  <2>3. k * w = w * k /\ i * w = w * i /\ w * i \in Nat /\ w * k \in Nat
    BY <1>1, <1>5
  <2>4. QED
    BY <1>1, <1>4, <1>5, <2>2, <2>3
<1>7. QED
  BY <1>1, <1>2, <1>5, <1>6 DEF i, w

\* A mark that is due and put off by at most half the clock is ahead by no more than that,
\* or still due.
LEMMA PutOff ==
    ASSUME NEW w \in Nat \ {0}, NEW now \in 0 .. w - 1, NEW t \in 0 .. w - 1,
           2 * ((now - t) % w) < w, NEW i \in Nat, 2 * i < w, NEW k \in 0 .. i
    PROVE  LET ahead == (((t + k) % w) - now) % w
           IN  ahead <= i \/ 2 * ahead > w
<1> DEFINE d == now - t
           m == (t + k) % w
           e == m - now
<1>1. d \in Int /\ 0 - w <= d /\ d <= w - 1
  OBVIOUS
<1>2. (d >= 0 => d % w = d) /\ (d < 0 => d % w = d + w)
  <2> HIDE DEF d
  <2>1. QED
    BY <1>1, Remainders
<1>3. (t + k < w => m = t + k) /\ (w <= t + k => m = t + k - w)
  <2> DEFINE n == t + k
  <2>1. n \in Int /\ 0 <= n /\ n < 2 * w
    OBVIOUS
  <2> HIDE DEF n
  <2>2. n < w => n % w = n
    BY <2>1, Wrapped
  <2>3. w <= n => n % w = n - w
    BY <2>1, Wrapped
  <2>4. QED
    BY <2>2, <2>3 DEF n
<1>4. m \in 0 .. w - 1
  BY <1>3
<1> HIDE DEF m
<1>5. e \in Int /\ 0 - w <= e /\ e <= w - 1
  BY <1>4
<1>6. (e >= 0 => e % w = e) /\ (e < 0 => e % w = e + w)
  <2> HIDE DEF e
  <2>1. QED
    BY <1>5, Remainders
<1>7. e % w <= i \/ 2 * (e % w) > w
  BY <1>2, <1>3, <1>4, <1>6
<1>8. QED
  BY <1>7 DEF m

\* After a mark the next one is at most an interval ahead, or overdue.
LEMMA CodelMarkNext ==
    ASSUME NEW c \in CodelState, NEW tstamp \in Int, NEW len_bytes \in Int, NEW now_ns \in Int
    PROVE  LET result == CodelMark(c, tstamp, len_bytes, now_ns)
               ahead  == (result.class.mark_next - CodelTime(now_ns)) % U32
           IN  result.ce => ahead <= CodelInterval \/ 2 * ahead > U32
<1> DEFINE now   == CodelTime(now_ns)
           delay == CodelTime(now_ns - tstamp)
           mark  == ShouldMark(c, delay, len_bytes, now)
           seen  == Observe(c, delay, len_bytes, now)
           again == c.marking /\ mark /\ CodelAfterEq(now, c.mark_next)
           start == ~ c.marking /\ mark
           next  == CodelMark(c, tstamp, len_bytes, now_ns).class.mark_next
<1>1. now \in CodelTimes
  BY CodelTimeType
<1>2. /\ seen.mark_next = c.mark_next /\ c.mark_next \in CodelTimes
      /\ seen.count \in CodelTimes /\ seen.lastcount \in CodelTimes
      /\ seen.rec_inv_sqrt \in 0 .. SqrtUnit - 1
      /\ DOMAIN seen = {"count", "lastcount", "marking", "rec_inv_sqrt",
                        "first_above_time", "mark_next", "ldelay"}
  BY DEF Observe, CodelState
<1>3. CodelMark(c, tstamp, len_bytes, now_ns) =
        [class |-> IF again THEN MarkAgain(seen)
                   ELSE IF start THEN StartMarking(seen, now)
                   ELSE [seen EXCEPT !.marking = mark],
         ce    |-> again \/ start]
  BY DEF CodelMark
<1> HIDE DEF now, delay, mark, seen
<1>4. CodelMark(c, tstamp, len_bytes, now_ns).ce => again \/ start
  <2> HIDE DEF again, start
  <2>1. CodelMark(c, tstamp, len_bytes, now_ns).ce = (again \/ start)
    BY <1>3
  <2>2. QED
    BY <2>1, Zenon
<1>5. \A a, b \in CodelTimes : (a - b) % U32 \in CodelTimes /\ (a + 1) % U32 \in CodelTimes
  <2>1. \A a \in CodelTimes : a \in Int
    BY ReducedFits
  <2>2. \A a, b \in CodelTimes : a - b \in Int /\ a + 1 \in Int
    BY <2>1
  <2>3. QED
    BY <2>2, ReducedFits
<1> SUFFICES ASSUME again \/ start
             PROVE  LET ahead == (next - now) % U32
                    IN  ahead <= CodelInterval \/ 2 * ahead > U32
  BY <1>4 DEF now, next
<1>6. ASSUME again
      PROVE  \E r \in 0 .. SqrtUnit - 1 : next = ControlLaw(c.mark_next, r)
  <2> DEFINE n == (seen.count + 1) % U32
             r == NewtonStep(n, seen.rec_inv_sqrt)
  <2>1. r \in 0 .. SqrtUnit - 1
    BY <1>2, <1>5, NewtonStepType
  <2> HIDE DEF n
  <2>2. MarkAgain(seen).mark_next = ControlLaw(c.mark_next, r)
    BY <1>2 DEF MarkAgain, n
  <2>3. next = MarkAgain(seen).mark_next
    BY <1>3, <1>6
  <2> HIDE DEF r, next
  <2>4. QED
    BY <2>1, <2>2, <2>3
<1>7. ASSUME ~ again
      PROVE  \E r \in 0 .. SqrtUnit - 1 : next = ControlLaw(now, r)
  <2> DEFINE delta  == (seen.count - seen.lastcount) % U32
             resume == /\ delta > 1
                       /\ CodelAfter((CodelInterval * 16) % U32,
                                     (now - seen.mark_next) % U32)
             r == IF resume THEN NewtonStep(delta, seen.rec_inv_sqrt) ELSE FullRoot
  <2>1. delta \in CodelTimes
    BY <1>2, <1>5
  <2> HIDE DEF delta, resume
  <2>2. r \in 0 .. SqrtUnit - 1
    BY <1>2, <2>1, NewtonStepType, WidthsPositive DEF FullRoot
  <2>3. StartMarking(seen, now).mark_next = ControlLaw(now, r)
    BY <1>2 DEF StartMarking, r, resume, delta
  <2>4. next = StartMarking(seen, now).mark_next
    BY <1>3, <1>7
  <2> HIDE DEF r, next
  <2>5. QED
    BY <2>2, <2>3, <2>4
<1>8. PICK t \in CodelTimes, r \in 0 .. SqrtUnit - 1 :
          next = ControlLaw(t, r) /\ 2 * ((now - t) % U32) < U32
  <2>1. CASE again
    <3>1. 2 * ((now - c.mark_next) % U32) < U32
      BY <2>1 DEF CodelAfterEq
    <3>2. QED
      BY <1>2, <1>6, <2>1, <3>1
  <2>2. CASE ~ again
    <3>1. (now - now) % U32 = 0
      <4>1. now \in Int /\ now - now = 0 /\ U32 \in Nat \ {0}
        BY <1>1, ReducedFits, WidthsPositive
      <4>2. 0 % U32 = 0
        BY <4>1, Remainders
      <4>3. QED
        BY <4>1, <4>2
    <3>2. 2 * ((now - now) % U32) < U32
      BY <3>1, WidthsPositive
    <3>3. QED
      BY <1>1, <1>7, <2>2, <3>2
  <2>3. QED
    BY <2>1, <2>2
<1> HIDE DEF next
<1>9. PICK k \in 0 .. CodelInterval : next = (t + k) % U32
  BY <1>8, ControlLawAhead
<1>10. LET ahead == (((t + k) % U32) - now) % U32
       IN  ahead <= CodelInterval \/ 2 * ahead > U32
  <2>1. /\ now \in 0 .. U32 - 1 /\ t \in 0 .. U32 - 1 /\ U32 \in Nat \ {0}
        /\ CodelInterval \in Nat /\ 2 * CodelInterval < U32
    BY <1>1, <1>8, WidthsPositive, CodelAssumption DEF CodelTimes, U32
  <2>2. QED
    BY <1>8, <2>1, PutOff
<1>11. QED
  BY <1>9, <1>10
-----------------------------------------------------------------------------
\* How far a finish time is behind the virtual time of its priority.
Lag(v, h) == (v - h) % TimeWrap
-----------------------------------------------------------------------------
\* Arithmetic on the circle of virtual times.
LEMMA LagValue ==
    ASSUME NEW v \in VirtualTimes, NEW h \in VirtualTimes
    PROVE  /\ Lag(v, h) = IF h <= v THEN v - h ELSE v - h + TimeWrap
           /\ Lag(v, h) \in VirtualTimes
<1>1. TimeWrap \in Nat \ {0} /\ v \in 0 .. TimeWrap - 1 /\ h \in 0 .. TimeWrap - 1
  BY WrapAssumption DEF VirtualTimes
<1> DEFINE w == TimeWrap
           k == v - h
<1>2. w \in Nat \ {0} /\ k \in Int /\ 0 - w <= k /\ k <= w - 1
  BY <1>1
<1>3. Lag(v, h) = k % w
  BY DEF Lag
<1>4. k >= 0 => k % w = k
  <2> HIDE DEF w, k
  <2>1. QED
    BY <1>2, Remainders
<1>5. k < 0 => k % w = k + w
  <2> HIDE DEF w, k
  <2>1. QED
    BY <1>2, Remainders
<1>6. QED
  BY <1>1, <1>3, <1>4, <1>5 DEF VirtualTimes

\* A sum of virtual times.
LEMMA SumValue ==
    ASSUME NEW v \in VirtualTimes, NEW s \in Nat, s < TimeWrap
    PROVE  /\ (v + s) % TimeWrap = IF v + s < TimeWrap THEN v + s ELSE v + s - TimeWrap
           /\ (v + s) % TimeWrap \in VirtualTimes
<1>1. TimeWrap \in Nat \ {0} /\ v \in 0 .. TimeWrap - 1
  BY WrapAssumption DEF VirtualTimes
<1> DEFINE w == TimeWrap
           k == v + s
<1>2. w \in Nat \ {0} /\ k \in Int /\ k >= 0 /\ k < 2 * w
  BY <1>1
<1>3. (k < w => k % w = k) /\ (k >= w => k % w = k - w)
  <2> HIDE DEF w, k
  <2>1. (k \in 0 .. w - 1 => k % w = k) /\ (w <= k /\ k < 2 * w => k % w = k - w)
    BY <1>2, Wrapped, Zenon
  <2>2. QED
    BY <1>2, <2>1
<1>4. QED
  BY <1>1, <1>2, <1>3 DEF VirtualTimes

\* The virtual time moves ahead: every finish time lags more.
LEMMA LagForward ==
    ASSUME NEW v \in VirtualTimes, NEW h \in VirtualTimes, NEW s \in Nat,
           Lag(v, h) + s < TimeWrap
    PROVE  Lag((v + s) % TimeWrap, h) = Lag(v, h) + s
<1> DEFINE v1 == (v + s) % TimeWrap
<1>1. TimeWrap \in Nat \ {0} /\ v \in 0 .. TimeWrap - 1 /\ h \in 0 .. TimeWrap - 1
  BY WrapAssumption DEF VirtualTimes
<1>2. Lag(v, h) = (IF h <= v THEN v - h ELSE v - h + TimeWrap) /\ Lag(v, h) \in Nat
  BY <1>1, LagValue DEF VirtualTimes
<1>3. s < TimeWrap
  BY <1>1, <1>2
<1>4. v1 = (IF v + s < TimeWrap THEN v + s ELSE v + s - TimeWrap) /\ v1 \in VirtualTimes
  BY <1>3, SumValue
<1> HIDE DEF v1
<1>5. Lag(v1, h) = IF h <= v1 THEN v1 - h ELSE v1 - h + TimeWrap
  BY <1>4, LagValue
<1>6. QED
  BY <1>1, <1>2, <1>4, <1>5 DEF v1

\* A finish time moves ahead, but not beyond the virtual time.
LEMMA LagBackward ==
    ASSUME NEW v \in VirtualTimes, NEW h \in VirtualTimes, NEW s \in Nat, s <= Lag(v, h)
    PROVE  Lag(v, (h + s) % TimeWrap) = Lag(v, h) - s
<1> DEFINE h1 == (h + s) % TimeWrap
<1>1. TimeWrap \in Nat \ {0} /\ v \in 0 .. TimeWrap - 1 /\ h \in 0 .. TimeWrap - 1
  BY WrapAssumption DEF VirtualTimes
<1>2. /\ Lag(v, h) = IF h <= v THEN v - h ELSE v - h + TimeWrap
      /\ Lag(v, h) \in Nat /\ Lag(v, h) < TimeWrap
  BY <1>1, LagValue DEF VirtualTimes
<1>3. s < TimeWrap
  BY <1>1, <1>2
<1>4. h1 = (IF h + s < TimeWrap THEN h + s ELSE h + s - TimeWrap) /\ h1 \in VirtualTimes
  BY <1>3, SumValue
<1> HIDE DEF h1
<1>5. Lag(v, h1) = IF h1 <= v THEN v - h1 ELSE v - h1 + TimeWrap
  BY <1>4, LagValue
<1>6. QED
  BY <1>1, <1>2, <1>4, <1>5 DEF h1

\* The finish time that lags less is ahead of the other by the difference.
LEMMA LagDifference ==
    ASSUME NEW v \in VirtualTimes, NEW a \in VirtualTimes, NEW b \in VirtualTimes,
           Lag(v, b) <= Lag(v, a)
    PROVE  Lag(b, a) = Lag(v, a) - Lag(v, b)
<1>1. TimeWrap \in Nat \ {0} /\ v \in 0 .. TimeWrap - 1
      /\ a \in 0 .. TimeWrap - 1 /\ b \in 0 .. TimeWrap - 1
  BY WrapAssumption DEF VirtualTimes
<1>2. /\ Lag(v, a) = IF a <= v THEN v - a ELSE v - a + TimeWrap
      /\ Lag(v, b) = IF b <= v THEN v - b ELSE v - b + TimeWrap
      /\ Lag(b, a) = IF a <= b THEN b - a ELSE b - a + TimeWrap
  BY LagValue
<1>3. QED
  BY <1>1, <1>2

\* The comparison of finish times orders them by their lags, as long as these are less
\* than half the range (wfq_time_before).
LEMMA BeforeIsLag ==
    ASSUME NEW v \in VirtualTimes, NEW a \in VirtualTimes, NEW b \in VirtualTimes,
           2 * Lag(v, a) < TimeWrap, 2 * Lag(v, b) < TimeWrap
    PROVE  TimeBefore(a, b) <=> Lag(v, a) > Lag(v, b)
<1>1. TimeWrap \in Nat \ {0} /\ v \in Nat /\ a \in Nat /\ b \in Nat
      /\ v < TimeWrap /\ a < TimeWrap /\ b < TimeWrap
  BY WrapAssumption DEF VirtualTimes
<1>2. /\ Lag(v, a) = IF a <= v THEN v - a ELSE v - a + TimeWrap
      /\ Lag(v, b) = IF b <= v THEN v - b ELSE v - b + TimeWrap
  BY LagValue
<1> DEFINE half == TimeWrap \div 2
<1>3. half \in Int /\ 2 * half <= TimeWrap /\ TimeWrap <= 2 * half + 1
  BY <1>1
<1>4. TimeBefore(a, b) <=> (a < b /\ b - a <= half) \/ (a > b /\ a - b > half)
  BY DEF TimeBefore
<1> HIDE DEF half
<1>5. QED
  BY <1>1, <1>2, <1>3, <1>4

\* A finish time that moves ahead, and the virtual time where it moves ahead of that.
LEMMA LaterIsAhead ==
    ASSUME NEW v \in VirtualTimes, NEW h \in VirtualTimes, NEW s \in Nat,
           2 * s < TimeWrap, 2 * Lag(v, h) < TimeWrap
    PROVE  /\ s <= Lag(v, h) => Later(v, (h + s) % TimeWrap) = v
           /\ s > Lag(v, h) =>
                 /\ Later(v, (h + s) % TimeWrap) = (h + s) % TimeWrap
                 /\ (h + s) % TimeWrap = (v + (s - Lag(v, h))) % TimeWrap
<1> DEFINE h1   == (h + s) % TimeWrap
           L    == Lag(v, h)
           half == TimeWrap \div 2
<1>1. TimeWrap \in Nat \ {0} /\ v \in Nat /\ h \in Nat /\ v < TimeWrap /\ h < TimeWrap
  BY WrapAssumption DEF VirtualTimes
<1>2. L = IF h <= v THEN v - h ELSE v - h + TimeWrap
  BY LagValue
<1>3. s < TimeWrap
  BY <1>1
<1>4. h1 = (IF h + s < TimeWrap THEN h + s ELSE h + s - TimeWrap) /\ h1 \in VirtualTimes
  BY <1>3, SumValue
<1>5. half \in Int /\ 2 * half <= TimeWrap /\ TimeWrap <= 2 * half + 1
  BY <1>1
<1>6. Later(v, h1) = IF (v < h1 /\ h1 - v <= half) \/ (v > h1 /\ v - h1 > half)
                     THEN h1 ELSE v
  BY DEF Later, TimeBefore
<1> HIDE DEF h1, L, half
<1>7. ASSUME s <= L PROVE Later(v, h1) = v
  <2>1. ~ ((v < h1 /\ h1 - v <= half) \/ (v > h1 /\ v - h1 > half))
    BY <1>1, <1>2, <1>4, <1>5, <1>7 DEF L
  <2>2. QED
    BY <1>6, <2>1
<1>8. ASSUME s > L PROVE Later(v, h1) = h1 /\ h1 = (v + (s - L)) % TimeWrap
  <2> DEFINE k == s - L
  <2>0. L \in Nat /\ 2 * L < TimeWrap /\ s > L
    BY <1>1, <1>2, <1>8 DEF L
  <2>1. k \in Nat /\ k < TimeWrap /\ 2 * k < TimeWrap /\ k > 0
    BY <1>1, <1>3, <2>0
  <2>2. h1 = IF v + k < TimeWrap THEN v + k ELSE v + k - TimeWrap
    BY <1>1, <1>2, <1>3, <1>4, <2>0, <2>1
  <2> HIDE DEF k
  <2>3. (v + k) % TimeWrap = IF v + k < TimeWrap THEN v + k ELSE v + k - TimeWrap
    BY <2>1, SumValue
  <2>4. (v < h1 /\ h1 - v <= half) \/ (v > h1 /\ v - h1 > half)
    BY <1>1, <1>5, <2>1, <2>2
  <2>5. Later(v, h1) = h1
    BY <1>6, <2>4
  <2>6. QED
    BY <2>2, <2>3, <2>5 DEF k
<1>9. QED
  BY <1>7, <1>8 DEF h1, L
-----------------------------------------------------------------------------
(***************************************************************************)
(* Lags of a set of classes.  In order of their lags, the first lags by    *)
(* nothing and each lags by at most one step more than those before it.    *)
(***************************************************************************)
\* The classes that lag by less than x.
Fresher(B, L, x) == {d \in B : L[d] < x}

Ordered(B, L, step) ==
    \A c \in B : L[c] <= Cardinality(Fresher(B, L, L[c])) * step

LEMMA FresherFinite ==
    ASSUME NEW B, IsFiniteSet(B), NEW L, NEW x
    PROVE  IsFiniteSet(Fresher(B, L, x)) /\ Cardinality(Fresher(B, L, x)) \in Nat
<1>1. Fresher(B, L, x) \in SUBSET B
  BY DEF Fresher
<1>2. IsFiniteSet(Fresher(B, L, x))
  BY <1>1, FS_Subset
<1>3. QED
  BY <1>2, FS_CardinalityType

\* The lags of other sets or other functions with more that lag less.
LEMMA MoreFresher ==
    ASSUME NEW B, IsFiniteSet(B), NEW L, NEW x, NEW B1, IsFiniteSet(B1), NEW L1, NEW x1,
           Fresher(B, L, x) \subseteq Fresher(B1, L1, x1), NEW step \in Nat
    PROVE  Cardinality(Fresher(B, L, x)) * step <= Cardinality(Fresher(B1, L1, x1)) * step
<1>1. /\ Cardinality(Fresher(B, L, x)) \in Nat
      /\ Cardinality(Fresher(B1, L1, x1)) \in Nat /\ IsFiniteSet(Fresher(B1, L1, x1))
  BY FresherFinite
<1>2. Cardinality(Fresher(B, L, x)) <= Cardinality(Fresher(B1, L1, x1))
  BY <1>1, FS_Subset
<1>3. QED
  BY <1>1, <1>2, Products

\* Any level up to the lag of a class is justified by those that lag less.
LEMMA Level ==
    ASSUME NEW B, IsFiniteSet(B), NEW L, \A d \in B : L[d] \in Nat, NEW step \in Nat,
           Ordered(B, L, step), NEW c \in B, NEW x \in Nat, x <= L[c]
    PROVE  x <= Cardinality(Fresher(B, L, x)) * step
<1> DEFINE levels == {n \in Nat : n >= x /\ \E d \in B : L[d] = n}
<1>1. levels \in SUBSET Nat /\ L[c] \in levels
  OBVIOUS
<1>2. PICK n \in levels : \A k \in levels : n <= k
  BY <1>1, LeastNatural
<1>3. PICK d \in B : L[d] = n
  BY <1>2
<1>4. n \in Nat /\ n >= x
  BY <1>2
<1>5. Fresher(B, L, L[d]) = Fresher(B, L, x)
  <2>1. ASSUME NEW e \in B PROVE L[e] < n <=> L[e] < x
    <3>1. L[e] \in Nat
      BY <2>1
    <3>2. L[e] >= x => n <= L[e]
      BY <1>2, <2>1, <3>1
    <3>3. QED
      BY <1>4, <3>1, <3>2
  <2>2. QED
    BY <1>3, <2>1 DEF Fresher
<1>6. n <= Cardinality(Fresher(B, L, x)) * step
  BY <1>3, <1>5 DEF Ordered
<1>7. Cardinality(Fresher(B, L, x)) * step \in Nat
  BY FresherFinite, Products
<1>8. QED
  BY <1>4, <1>6, <1>7

\* A class that lags most leaves.
LEMMA LastLeaves ==
    ASSUME NEW B, IsFiniteSet(B), NEW L, \A d \in B : L[d] \in Nat, NEW step \in Nat,
           Ordered(B, L, step), NEW c \in B, \A d \in B : L[d] <= L[c]
    PROVE  IsFiniteSet(B \ {c}) /\ Ordered(B \ {c}, L, step)
<1>1. IsFiniteSet(B \ {c})
  BY FS_RemoveElement
<1>2. ASSUME NEW d \in B \ {c}
      PROVE  Fresher(B, L, L[d]) = Fresher(B \ {c}, L, L[d])
  <2>1. ~ (L[c] < L[d])
    BY <1>2
  <2>2. QED
    BY <2>1 DEF Fresher
<1>3. QED
  BY <1>1, <1>2 DEF Ordered

\* A class joins with no lag, and the others lag s more.
LEMMA FirstJoins ==
    ASSUME NEW B, IsFiniteSet(B), NEW L, \A d \in B : L[d] \in Nat, NEW step \in Nat,
           Ordered(B, L, step), NEW c, c \notin B,
           NEW s \in Nat, s > 0, s <= step,
           NEW L1, L1[c] = 0, \A d \in B : L1[d] = L[d] + s
    PROVE  Ordered(B \cup {c}, L1, step)
<1> DEFINE B1 == B \cup {c}
<1>1. IsFiniteSet(B1)
  BY FS_AddElement
<1>2. SUFFICES ASSUME NEW d \in B1
               PROVE  L1[d] <= Cardinality(Fresher(B1, L1, L1[d])) * step
  BY DEF Ordered
<1> DEFINE n  == Cardinality(Fresher(B, L, L[d]))
           n1 == Cardinality(Fresher(B1, L1, L1[d]))
<1>3. n1 \in Nat
  BY <1>1, FresherFinite
<1>4. CASE d = c
  <2>1. n1 * step \in Nat
    BY <1>3, Products
  <2>2. QED
    BY <1>4, <2>1
<1>5. CASE d # c
  <2>1. d \in B /\ L[d] \in Nat /\ L1[d] = L[d] + s
    BY <1>5
  <2>2. n \in Nat /\ IsFiniteSet(Fresher(B, L, L[d]))
    BY FresherFinite
  <2>3. Fresher(B1, L1, L1[d]) = Fresher(B, L, L[d]) \cup {c}
    <3>1. L1[c] < L1[d]
      BY <2>1
    <3>2. ASSUME NEW e \in B PROVE L1[e] < L1[d] <=> L[e] < L[d]
      BY <2>1, <3>2
    <3>3. QED
      BY <3>1, <3>2 DEF Fresher
  <2>4. c \notin Fresher(B, L, L[d])
    BY DEF Fresher
  <2>5. n1 = n + 1
    BY <2>2, <2>3, <2>4, FS_AddElement
  <2>6. L[d] <= n * step
    BY <2>1 DEF Ordered
  <2> HIDE DEF n, n1
  <2>7. n1 * step = n * step + step /\ n * step \in Nat
    BY <2>2, <2>5, Products
  <2>8. L1[d] <= n1 * step
    BY <2>1, <2>6, <2>7
  <2>9. QED
    BY <2>8 DEF n1
<1>6. QED
  BY <1>4, <1>5

\* A class falls back to a smaller lag, and the others stay.
LEMMA FallBack ==
    ASSUME NEW B, IsFiniteSet(B), NEW L, \A d \in B : L[d] \in Nat, NEW step \in Nat,
           Ordered(B, L, step), NEW c \in B,
           NEW L1, L1[c] \in Nat, L1[c] <= L[c],
           \A d \in B : d # c => L1[d] = L[d]
    PROVE  Ordered(B, L1, step)
<1>1. SUFFICES ASSUME NEW d \in B
               PROVE  L1[d] <= Cardinality(Fresher(B, L1, L1[d])) * step
  BY DEF Ordered
<1> DEFINE x == L1[c]
<1>2. Cardinality(Fresher(B, L1, L1[d])) * step \in Nat
  BY FresherFinite, Products
<1>3. CASE d = c
  <2>1. x <= Cardinality(Fresher(B, L, x)) * step
    BY Level
  <2>2. Fresher(B, L, x) = Fresher(B, L1, x)
    BY DEF Fresher
  <2>3. QED
    BY <1>3, <2>1, <2>2
<1>4. CASE d # c
  <2>1. L1[d] = L[d] /\ L[d] \in Nat
    BY <1>4
  <2>2. Fresher(B, L, L[d]) \subseteq Fresher(B, L1, L1[d])
    <3>1. ASSUME NEW e \in B, L[e] < L[d] PROVE L1[e] < L1[d]
      BY <2>1, <3>1
    <3>2. QED
      BY <3>1 DEF Fresher
  <2>3. Cardinality(Fresher(B, L, L[d])) * step <= Cardinality(Fresher(B, L1, L1[d])) * step
    BY <2>2, MoreFresher
  <2>4. L[d] <= Cardinality(Fresher(B, L, L[d])) * step
    BY DEF Ordered
  <2>5. Cardinality(Fresher(B, L, L[d])) * step \in Nat
    BY FresherFinite, Products
  <2>6. QED
    BY <1>2, <2>1, <2>3, <2>4, <2>5
<1>5. QED
  BY <1>3, <1>4

\* The largest lag.
LEMMA LagBound ==
    ASSUME NEW B, IsFiniteSet(B), NEW L, \A d \in B : L[d] \in Nat, NEW step \in Nat,
           Ordered(B, L, step), NEW c \in B
    PROVE  /\ Cardinality(B) \in Nat \ {0}
           /\ L[c] <= (Cardinality(B) - 1) * step
<1> DEFINE n == Cardinality(Fresher(B, L, L[c]))
           m == Cardinality(B) - 1
<1>1. Cardinality(B) \in Nat /\ n \in Nat
  BY FS_CardinalityType, FresherFinite
<1>2. IsFiniteSet(B \ {c}) /\ Cardinality(B \ {c}) = m
  BY FS_RemoveElement
<1>3. m \in Nat
  BY <1>2, FS_CardinalityType
<1>4. Fresher(B, L, L[c]) \subseteq B \ {c}
  BY DEF Fresher
<1>5. n <= m
  BY <1>2, <1>4, FS_Subset
<1>6. L[c] <= n * step
  BY DEF Ordered
<1> HIDE DEF n, m
<1>7. n * step <= m * step /\ n * step \in Nat /\ m * step \in Nat
  BY <1>1, <1>3, <1>5, Products
<1>8. L[c] <= m * step
  BY <1>6, <1>7
<1>9. QED
  BY <1>1, <1>3, <1>8 DEF m

\* The same lags.
LEMMA SameLags ==
    ASSUME NEW B, NEW L, NEW L1, \A d \in B : L1[d] = L[d], NEW step, Ordered(B, L, step)
    PROVE  Ordered(B, L1, step)
<1>1. \A d \in B : Fresher(B, L1, L1[d]) = Fresher(B, L, L[d])
  BY DEF Fresher
<1>2. QED
  BY <1>1 DEF Ordered
-----------------------------------------------------------------------------
\* The virtual time moves ahead by s, to the finish time of a class that joins.
LEMMA JoinLags ==
    ASSUME NEW v \in VirtualTimes, NEW s \in Nat, s < TimeWrap
    PROVE  LET h == (v + s) % TimeWrap
           IN  /\ h \in VirtualTimes /\ Lag(h, h) = 0
               /\ \A x \in VirtualTimes : Lag(v, x) + s < TimeWrap => Lag(h, x) = Lag(v, x) + s
<1> DEFINE h == (v + s) % TimeWrap
<1>1. h \in VirtualTimes
  BY SumValue
<1>2. \A x \in VirtualTimes : Lag(v, x) + s < TimeWrap => Lag(h, x) = Lag(v, x) + s
  BY LagForward
<1> HIDE DEF h
<1>3. Lag(h, h) = 0
  <2>1. Lag(h, h) = h - h
    BY <1>1, LagValue DEF VirtualTimes
  <2>2. h \in Int
    BY <1>1, WrapAssumption DEF VirtualTimes
  <2>3. QED
    BY <2>1, <2>2
<1>4. QED
  BY <1>1, <1>2, <1>3 DEF h

\* A class's finish time h moves ahead by s, and the virtual time with it where it
\* would be passed: the class's lag is s less, but not less than nothing, and the lags
\* of the others grow by what the virtual time moves.
LEMMA AdvanceLags ==
    ASSUME NEW v \in VirtualTimes, NEW h \in VirtualTimes, NEW s \in Nat,
           2 * s < TimeWrap, 2 * Lag(v, h) < TimeWrap
    PROVE  LET h1 == (h + s) % TimeWrap
               v1 == Later(v, h1)
               L  == Lag(v, h)
           IN  /\ L \in Nat /\ h1 \in VirtualTimes /\ v1 \in VirtualTimes
               /\ Lag(v1, h1) = IF s <= L THEN L - s ELSE 0
               /\ \A x \in VirtualTimes :
                      Lag(v, x) + s < TimeWrap =>
                          Lag(v1, x) = Lag(v, x) + (IF s <= L THEN 0 ELSE s - L)
<1> DEFINE h1 == (h + s) % TimeWrap
           v1 == Later(v, h1)
           L  == Lag(v, h)
<1>1. TimeWrap \in Nat \ {0} /\ s < TimeWrap
  BY WrapAssumption
<1>2. h1 \in VirtualTimes
  BY <1>1, SumValue
<1>3. \A x \in VirtualTimes : Lag(v, x) \in Nat
  BY LagValue DEF VirtualTimes
<1>4. L \in Nat
  BY <1>3
<1>5. /\ s <= L => v1 = v
      /\ s > L => v1 = h1 /\ h1 = (v + (s - L)) % TimeWrap
  BY LaterIsAhead
<1>6. CASE s <= L
  <2>1. Lag(v, h1) = L - s
    BY <1>6, LagBackward
  <2> HIDE DEF h1, v1, L
  <2>2. \A x \in VirtualTimes : Lag(v1, x) = Lag(v, x) + 0
    BY <1>3, <1>5, <1>6
  <2>3. QED
    BY <1>2, <1>4, <1>5, <1>6, <2>1, <2>2 DEF h1, v1, L
<1>7. CASE ~ (s <= L)
  <2> DEFINE k == s - L
  <2>1. k \in Nat /\ k <= s /\ k < TimeWrap
    <3> HIDE DEF h1, v1, L
    <3>1. QED
      BY <1>1, <1>4, <1>7
  <2>2. v1 = h1 /\ h1 = (v + k) % TimeWrap
    <3>1. s > L
      <4> HIDE DEF L
      <4>1. QED
        BY <1>4, <1>7
    <3>2. QED
      BY <1>5, <3>1
  <2> HIDE DEF k
  <2>3. /\ Lag(h1, h1) = 0
        /\ \A x \in VirtualTimes : Lag(v, x) + k < TimeWrap => Lag(h1, x) = Lag(v, x) + k
    BY <2>1, <2>2, JoinLags
  <2> HIDE DEF h1, v1, L
  <2>4. \A x \in VirtualTimes : Lag(v, x) + s < TimeWrap => Lag(v1, x) = Lag(v, x) + k
    BY <1>1, <1>3, <2>1, <2>2, <2>3
  <2>5. QED
    BY <1>2, <1>4, <1>7, <2>2, <2>3, <2>4 DEF h1, v1, L, k
<1>8. QED
  BY <1>6, <1>7

\* The order of the lags outlasts it, if the class lagged most.
LEMMA AdvanceOrdered ==
    ASSUME NEW B, IsFiniteSet(B), NEW L, \A d \in B : L[d] \in Nat, NEW step \in Nat,
           Ordered(B, L, step), NEW c \in B, \A d \in B : L[d] <= L[c],
           NEW s \in Nat, s <= step,
           NEW L1, L1[c] = IF s <= L[c] THEN L[c] - s ELSE 0,
           \A d \in B : d # c => L1[d] = L[d] + (IF s <= L[c] THEN 0 ELSE s - L[c])
    PROVE  Ordered(B, L1, step)
<1>1. CASE s <= L[c]
  <2>1. L1[c] \in Nat /\ L1[c] <= L[c]
    BY <1>1
  <2>2. \A d \in B : d # c => L1[d] = L[d]
    BY <1>1
  <2>3. QED
    BY <2>1, <2>2, FallBack
<1>2. CASE ~ (s <= L[c])
  <2> DEFINE t == s - L[c]
             A == B \ {c}
  <2>1. t \in Nat /\ t > 0 /\ t <= step
    BY <1>2
  <2>2. L1[c] = 0 /\ \A d \in A : L[d] \in Nat /\ L1[d] = L[d] + t
    BY <1>2
  <2>3. IsFiniteSet(A) /\ Ordered(A, L, step) /\ c \notin A
    BY LastLeaves
  <2>4. B = A \cup {c}
    OBVIOUS
  <2> HIDE DEF t, A
  <2>5. Ordered(A \cup {c}, L1, step)
    BY <2>1, <2>2, <2>3, FirstJoins
  <2>6. QED
    BY <2>4, <2>5
<1>3. QED
  BY <1>1, <1>2
-----------------------------------------------------------------------------
(***************************************************************************)
(* The search for the class to serve, among those of a set S numbered from *)
(* first on: it keeps the first one it meets until one finishes before it. *)
(***************************************************************************)
Better(best, c, S, fin) ==
    /\ c \in S
    /\ best[c - 1] = -1 \/ TimeBefore(fin[c], fin[best[c - 1]])

IsSearch(f, first, n, S, fin) ==
    f = [c \in (first .. n - 1) \cup {first - 1} |->
             IF c = first - 1 THEN -1 ELSE IF Better(f, c, S, fin) THEN c ELSE f[c - 1]]

LEMMA SearchExists ==
    ASSUME NEW first \in Nat, NEW S, NEW fin
    PROVE  \A n \in Nat : n >= first => \E f : IsSearch(f, first, n, S, fin)
<1> DEFINE N == {k \in Nat : \E f : IsSearch(f, first, first + k, S, fin)}
<1>1. 0 \in N
  <2>1. (first .. (first + 0) - 1) = {}
    OBVIOUS
  <2>2. IsSearch([c \in (first .. (first + 0) - 1) \cup {first - 1} |-> -1],
                 first, first + 0, S, fin)
    BY <2>1 DEF IsSearch
  <2>3. QED
    BY <2>2
<1>2. ASSUME NEW k \in Nat, k \in N PROVE \E f : IsSearch(f, first, first + (k + 1), S, fin)
  <2>1. PICK f : IsSearch(f, first, first + k, S, fin)
    BY <1>2
  <2> DEFINE n == first + k
             D == (first .. (first + (k + 1)) - 1) \cup {first - 1}
             E == (first .. n - 1) \cup {first - 1}
             g == [c \in D |-> IF c = n THEN (IF Better(f, n, S, fin) THEN n ELSE f[n - 1])
                               ELSE f[c]]
  <2>2. \A c \in E :
            f[c] = IF c = first - 1 THEN -1
                   ELSE IF Better(f, c, S, fin) THEN c ELSE f[c - 1]
    BY <2>1 DEF IsSearch
  <2>3. ASSUME NEW c \in D
        PROVE  g[c] = IF c = first - 1 THEN -1
                      ELSE IF Better(g, c, S, fin) THEN c ELSE g[c - 1]
    <3>1. CASE c = first - 1
      <4>1. c # n /\ c \in E
        BY <3>1
      <4>2. QED
        BY <2>2, <3>1, <4>1
    <3>2. CASE c # first - 1
      <4>1. c \in Nat /\ c >= first /\ c <= n /\ c - 1 \in D /\ c - 1 # n
        BY <3>2
      <4>2. g[c - 1] = f[c - 1]
        BY <4>1
      <4>3. Better(g, c, S, fin) <=> Better(f, c, S, fin)
        BY <4>2 DEF Better
      <4>4. CASE c = n
        BY <3>2, <4>2, <4>3, <4>4
      <4>5. CASE c # n
        <5>1. c \in E
          BY <4>1, <4>5
        <5>2. g[c] = f[c]
          BY <4>5
        <5> HIDE DEF g
        <5>3. QED
          BY <2>2, <3>2, <4>2, <4>3, <5>1, <5>2
      <4>6. QED
        BY <4>4, <4>5
    <3>3. QED
      BY <3>1, <3>2
  <2>4. IsSearch(g, first, first + (k + 1), S, fin)
    BY <2>3 DEF IsSearch
  <2>5. QED
    BY <2>4
<1>3. \A k \in Nat : k \in N => k + 1 \in N
  BY <1>2
<1> HIDE DEF N
<1>4. \A k \in Nat : k \in N
  BY <1>1, <1>3, NatInduct
<1>5. SUFFICES ASSUME NEW n \in Nat, n >= first
               PROVE  \E f : IsSearch(f, first, n, S, fin)
  OBVIOUS
<1>6. n - first \in Nat /\ first + (n - first) = n
  BY <1>5
<1>7. n - first \in N
  BY <1>4, <1>6
<1>8. QED
  BY <1>6, <1>7 DEF N

\* It ends with a class of the set that lags most, if there is any, as long as the lags
\* are less than half the range of virtual times.
LEMMA SearchFinds ==
    ASSUME NEW first \in Nat, NEW n \in Nat, n >= first, NEW S \in SUBSET (first .. n - 1),
           S # {}, NEW fin, NEW v \in VirtualTimes,
           \A c \in S : fin[c] \in VirtualTimes /\ 2 * Lag(v, fin[c]) < TimeWrap,
           NEW best, IsSearch(best, first, n, S, fin)
    PROVE  /\ best[n - 1] \in S
           /\ \A d \in S : Lag(v, fin[d]) <= Lag(v, fin[best[n - 1]])
<1> DEFINE lag(c) == Lag(v, fin[c])
           Found(c) ==
               \/ best[c] = -1 /\ \A d \in S : ~ (d <= c)
               \/ /\ best[c] \in S
                  /\ \A d \in S : d <= c => lag(d) <= lag(best[c])
           N == {k \in Nat : first + k <= n => Found((first + k) - 1)}
<1>1. \A c \in (first .. n - 1) \cup {first - 1} :
          best[c] = IF c = first - 1 THEN -1
                    ELSE IF Better(best, c, S, fin) THEN c ELSE best[c - 1]
  BY DEF IsSearch
<1>2. \A c \in S : c \in Nat /\ first <= c /\ c <= n - 1 /\ lag(c) \in Nat
  <2>1. TAKE c \in S
  <2>2. c \in Nat /\ first <= c /\ c <= n - 1
    OBVIOUS
  <2>3. lag(c) \in Nat
    BY LagValue DEF VirtualTimes
  <2>4. QED
    BY <2>2, <2>3
<1>3. \A c, d \in S : TimeBefore(fin[c], fin[d]) <=> lag(c) > lag(d)
  BY BeforeIsLag
<1> HIDE DEF lag
<1>4. 0 \in N
  <2>1. best[first - 1] = -1
    BY <1>1
  <2>2. \A d \in S : ~ (d <= first - 1)
    BY <1>2
  <2>3. Found((first + 0) - 1)
    BY <2>1, <2>2
  <2>4. QED
    BY <2>3
<1>5. ASSUME NEW c \in Nat, first <= c, c <= n - 1, Found(c - 1) PROVE Found(c)
  <2>1. best[c] = IF Better(best, c, S, fin) THEN c ELSE best[c - 1]
    BY <1>1, <1>5
  <2>2. \A d \in S : d <= c <=> d = c \/ d <= c - 1
    BY <1>2
  <2>3. CASE best[c - 1] = -1
    <3>1. \A d \in S : ~ (d <= c - 1)
      BY <1>2, <1>5, <2>3
    <3>2. CASE c \in S
      <4>1. best[c] = c
        BY <2>1, <2>3, <3>2 DEF Better
      <4>2. \A d \in S : d <= c => lag(d) <= lag(c)
        BY <1>2, <2>2, <3>1, <3>2
      <4>3. QED
        BY <3>2, <4>1, <4>2
    <3>3. CASE c \notin S
      BY <2>1, <2>2, <2>3, <3>1, <3>3 DEF Better
    <3>4. QED
      BY <3>2, <3>3
  <2>4. CASE best[c - 1] # -1
    <3> DEFINE b == best[c - 1]
    <3>1. b \in S /\ \A d \in S : d <= c - 1 => lag(d) <= lag(b)
      BY <1>5, <2>4
    <3>2. CASE Better(best, c, S, fin)
      <4>1. c \in S /\ best[c] = c /\ lag(c) > lag(b)
        BY <1>3, <2>1, <2>4, <3>1, <3>2 DEF Better
      <4>2. \A d \in S : d <= c => lag(d) <= lag(c)
        <5>1. TAKE d \in S
        <5>2. lag(d) \in Nat /\ lag(c) \in Nat /\ lag(b) \in Nat
          BY <1>2, <3>1, <4>1
        <5>3. d <= c - 1 => lag(d) <= lag(b)
          BY <3>1
        <5>4. QED
          BY <2>2, <4>1, <5>2, <5>3
      <4>3. QED
        BY <4>1, <4>2
    <3>3. CASE ~ Better(best, c, S, fin)
      <4>1. best[c] = b
        BY <2>1, <3>3
      <4>2. ASSUME c \in S PROVE lag(c) <= lag(b)
        <5>1. ~ TimeBefore(fin[c], fin[b])
          BY <3>3, <4>2 DEF Better
        <5>2. ~ (lag(c) > lag(b))
          BY <1>3, <3>1, <4>2, <5>1
        <5>3. lag(c) \in Nat /\ lag(b) \in Nat
          BY <1>2, <3>1, <4>2
        <5>4. QED
          BY <5>2, <5>3
      <4>3. \A d \in S : d <= c => lag(d) <= lag(b)
        BY <2>2, <3>1, <4>2
      <4>4. QED
        BY <3>1, <4>1, <4>3
    <3>4. QED
      BY <3>2, <3>3
  <2>5. QED
    BY <2>3, <2>4
<1> HIDE DEF Found
<1>6. \A k \in Nat : k \in N => k + 1 \in N
  <2>1. SUFFICES ASSUME NEW k \in Nat, k \in N, first + (k + 1) <= n
                 PROVE  Found((first + (k + 1)) - 1)
    OBVIOUS
  <2> DEFINE c == first + k
  <2>2. c \in Nat /\ first <= c /\ c <= n - 1 /\ (first + (k + 1)) - 1 = c
    BY <2>1
  <2>3. Found(c - 1)
    BY <2>1, <2>2
  <2> HIDE DEF c
  <2>4. Found(c)
    BY <1>5, <2>2, <2>3
  <2>5. QED
    BY <2>2, <2>4
<1> HIDE DEF N
<1>7. n - first \in N
  <2>1. n - first \in Nat
    OBVIOUS
  <2>2. QED
    BY <1>4, <1>6, <2>1, NatInduct
<1>8. first + (n - first) = n
  OBVIOUS
<1>9. Found(n - 1)
  BY <1>7, <1>8 DEF N
<1>10. \A d \in S : d <= n - 1
  BY <1>2
<1>11. QED
  BY <1>9, <1>10 DEF lag, Found
-----------------------------------------------------------------------------
\* A packet takes some virtual time, and no more than its size.
LEMMA ShareBounded ==
    ASSUME NEW size \in Nat, NEW w \in 1 .. MinPktBytes, MinPktBytes <= size
    PROVE  Share(size, w) \in Nat /\ 1 <= Share(size, w) /\ Share(size, w) <= size
<1>1. w \in Nat \ {0} /\ w <= size
  BY ArithAssumption
<1> DEFINE q == size \div w
<1>2. q \in Int /\ w * q <= size /\ size < w * q + w
  BY <1>1
<1> HIDE DEF q
<1>3. ASSUME q < 1 PROVE FALSE
  <2>1. q + 1 <= 1
    BY <1>2, <1>3
  <2>2. w * (q + 1) <= w * 1
    <3>1. 1 - (q + 1) \in Nat
      BY <1>2, <2>1
    <3>2. w * (1 - (q + 1)) \in Nat
      BY <1>1, <3>1
    <3>3. w * (1 - (q + 1)) = w * 1 - w * (q + 1) /\ w * (q + 1) \in Int
      BY <1>1, <1>2
    <3>4. QED
      BY <1>1, <3>2, <3>3
  <2>3. w * (q + 1) = w * q + w /\ w * q \in Int
    BY <1>1, <1>2
  <2>4. QED
    BY <1>1, <1>2, <2>2, <2>3
<1>4. q \in Nat /\ 1 <= q
  BY <1>2, <1>3
<1>5. q <= size
  <2>1. (w - 1) * q \in Nat /\ w * q = (w - 1) * q + q
    BY <1>1, <1>4
  <2>2. QED
    BY <1>1, <1>2, <1>4, <2>1
<1>6. QED
  BY <1>4, <1>5 DEF Share, q

\* The largest of a bounded set of naturals.
LEMMA MaxNatural ==
    ASSUME NEW S \in SUBSET Nat, S # {}, NEW bound \in Nat, \A n \in S : n <= bound
    PROVE  Max(S) \in S /\ \A n \in S : n <= Max(S)
<1> DEFINE R == {k \in Nat : bound - k \in S}
<1>1. R # {}
  <2>1. PICK n \in S : TRUE
    OBVIOUS
  <2>2. bound - n \in Nat /\ bound - (bound - n) = n
    BY <2>1
  <2>3. QED
    BY <2>1, <2>2
<1>2. PICK m \in R : \A k \in R : m <= k
  BY <1>1, LeastNatural
<1>3. m \in Nat /\ bound - m \in S
  BY <1>2
<1>4. ASSUME NEW n \in S PROVE bound - m >= n
  <2>1. n \in Nat /\ bound - n \in Nat /\ bound - (bound - n) = n
    BY <1>4
  <2>2. bound - n \in R
    BY <2>1
  <2>3. m <= bound - n
    BY <1>2, <2>2
  <2>4. QED
    BY <1>3, <2>1, <2>3
<1>5. Max(S) \in S /\ \A n \in S : Max(S) >= n
  BY <1>3, <1>4 DEF Max
<1>6. QED
  BY <1>5

\* The most virtual time any packet takes at any of the weights W.
LargestShare(W) == Max({Share(SkbSize(len), w) : len \in PktLens, w \in W})

LEMMA LargestShareFacts ==
    ASSUME \E max \in PktLens : \A len \in PktLens : len <= max,
           NEW W \in SUBSET (1 .. MinPktBytes), NEW len \in PktLens, NEW w \in W
    PROVE  /\ Share(SkbSize(len), w) \in Nat /\ 1 <= Share(SkbSize(len), w)
           /\ LargestShare(W) \in Nat \ {0} /\ Share(SkbSize(len), w) <= LargestShare(W)
<1> DEFINE S == {Share(SkbSize(l), v) : l \in PktLens, v \in W}
<1>1. \A v \in W : v \in 1 .. MinPktBytes
  OBVIOUS
<1>2. \A l \in PktLens : l \in Nat /\ SkbSize(l) \in Nat /\ MinPktBytes <= SkbSize(l)
  <2>1. TAKE l \in PktLens
  <2>2. l \in Nat
    BY BufferAssumption
  <2>3. QED
    BY <2>2, ArithAssumption DEF SkbSize, Greater
<1>3. \A l \in PktLens, v \in W :
          /\ Share(SkbSize(l), v) \in Nat /\ 1 <= Share(SkbSize(l), v)
          /\ Share(SkbSize(l), v) <= SkbSize(l)
  BY <1>1, <1>2, ShareBounded
<1>4. PICK max \in PktLens : \A l \in PktLens : l <= max
  OBVIOUS
<1>5. \A l \in PktLens : SkbSize(l) <= SkbSize(max)
  <2>1. TAKE l \in PktLens
  <2>2. l <= max /\ l \in Nat /\ max \in Nat
    BY <1>2, <1>4
  <2>3. QED
    BY <2>2, ArithAssumption DEF SkbSize, Greater
<1>6. S \in SUBSET Nat
  BY <1>3
<1>7. Share(SkbSize(len), w) \in S
  OBVIOUS
<1>8. \A n \in S : n <= SkbSize(max)
  <2>1. SUFFICES ASSUME NEW l \in PktLens, NEW v \in W
                 PROVE  Share(SkbSize(l), v) <= SkbSize(max)
    OBVIOUS
  <2>2. Share(SkbSize(l), v) <= SkbSize(l) /\ Share(SkbSize(l), v) \in Nat
    BY <1>3
  <2>3. SkbSize(l) <= SkbSize(max) /\ SkbSize(l) \in Nat /\ SkbSize(max) \in Nat
    BY <1>2, <1>5
  <2>4. QED
    BY <2>2, <2>3
<1>9. LargestShare(W) = Max(S)
  BY DEF LargestShare
<1>10. SkbSize(max) \in Nat
  BY <1>2
<1>11. Share(SkbSize(len), w) \in Nat /\ 1 <= Share(SkbSize(len), w)
  BY <1>3
<1> HIDE DEF S
<1>12. Max(S) \in S /\ \A n \in S : n <= Max(S)
  BY <1>6, <1>7, <1>8, <1>10, MaxNatural
<1>13. LargestShare(W) \in Nat /\ Share(SkbSize(len), w) <= LargestShare(W)
  BY <1>6, <1>7, <1>9, <1>12
<1>14. QED
  BY <1>11, <1>13
=============================================================================
