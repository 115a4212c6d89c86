# Verification of the MQ-ECN schedulers

The repository implements ECN marking for ports with several queues: MQ-ECN and, to
compare it with, marking per queue, per port, by TCN and by CoDel, in five Linux
queueing disciplines ("qdiscs") and six ns-2 queues, with an ECMP classifier and DCTCP
end hosts for the simulations.  This directory holds TLA+ models of that code, TLC runs
that check them on small instances, and TLAPS proofs about them for all instances.

    tlc -workers 2 -config wfq.cfg MCWfqFairness     # a run
    tlapm WfqFairness_proofs.tla                     # a module of proofs

`PROJECT.json` lists the runs, the hazards of the code at their lines with the
properties about each, the source lines every definition models, and the theorems.

## The system

| component | source | state | operations |
|---|---|---|---|
| `sch_dwrr` | `kernel modules/sch_dwrr` | classes (FIFO, deficit, quantum, times of the turn, CoDel fields), priorities (active list, bytes, round time, idle time), token bucket, watchdog | enqueue, dequeue, change of the rate, sysctl writes |
| `sch_wfq` | `kernel modules/sch_wfq` | classes with head finish times, virtual time per priority, token bucket, watchdog | the same |
| `sch_prio` | `kernel modules/sch_prio` | queues in order of priority, token bucket, watchdog | the same |
| `sch_prio_dwrr`, `sch_prio_wfq` | `kernel modules/sch_prio_*` | priority queues above DWRR or WFQ queues; sum of quanta and round time, or virtual time | the same |
| CoDel marking | in `sch_dwrr` and `sch_wfq` | count, reciprocal root, next mark, per class | called by dequeue |
| ns-2 queues | `NS2/diffserv/{dwrr,wrr,wfq}`, `NS2/scheduling/{priority,prio_dwrr,prio_wfq}` | FIFOs, active list or finish times, sum of shares, round time, drain rates | enque, deque, Tcl commands, timer |
| ECMP classifier | `NS2/diffserv/classifier` | slots, next slot | install, clear, classify |
| DCTCP in FullTcp | `NS2/*/tcp` | connection, windows, scoreboard, alpha, CE state, timers | advance_bytes, recv, timeouts, close |
| experiments, pFabric patch | `NS2/*/scripts`, `*_test`, `NS2/patch` | none | set up simulations |

How they interact.  The kernel calls a qdisc's `enqueue` and `dequeue` under its root
lock: a packet is enqueued, then `__qdisc_run` calls `dequeue` until it gets NULL.  A
dequeue that lacks tokens arms an hrtimer, the watchdog, whose callback schedules another
run.  Parameters are plain integers behind `/proc/sys`, written at any time by processes
that take none of these locks; `tc change` replaces the rate, store by store and without
the lock either.  Marking reads the counters that enqueue and dequeue keep, and DCTCP
reacts to the marks.  The ns-2 queues are the same schedulers in a single-threaded
simulator: their interleavings are those of events and Tcl commands.

What is hard here, and hard to test:

* a priority, quantum, weight or scheme rewritten while the class has packets, also in
  the middle of a dequeue;
* byte counters per class, priority and port, a child FIFO with a limit of its own and
  intrusive lists, which must agree after every early return;
* a loop under a lock that ends only because deficits grow;
* a token bucket whose wake-up is computed for one packet and used by another;
* averages of times that lie in the future when tokens are banked;
* wrapping arithmetic: CoDel's u32 clock and 16-bit root, WFQ's virtual times;
* ACKs, SACKs, ECN echoes and timers of a TCP that losses and reordering disturb.

## Modules

`M` extends the modules after the arrow.  MC modules only give per-queue constants and
lists of setups their values.

| module | models |
|---|---|
| `PriorityFifos` | what every scheduler here promises (abstract) |
| `Sums` | sums and powers, as recursive functions |
| `BufferedPort` → `Sums` | what the five qdiscs have in common: classes, DSCPs, buffer, sizes, counters |
| `QdiscPort` → `BufferedPort` | ... and `sch_dwrr` and `sch_wfq` beyond that: priorities, bucket in bytes |
| `RoundTime`, `VirtualTime`, `CodelMarking` | the moving average and idle decay; wrapping virtual times; `codel_marking` |
| `DwrrQdisc` → `QdiscPort`, `RoundTime`, `CodelMarking` | `sch_dwrr` |
| `DwrrService` → `DwrrQdisc` | with histories of departures (`debt`) and arrivals (`arrived`) |
| `WfqQdisc` → `QdiscPort`, `VirtualTime`, `CodelMarking` | `sch_wfq` |
| `WfqFairness` → `WfqQdisc` | with the history `lead` of virtual service |
| `CodelSession` → `CodelMarking` | one class under CoDel, with a history of what its packets saw |
| `PrioPort` → `BufferedPort` | what the three `sch_prio*` share: priority queues, bucket in ns, marking by sojourn time, change of the rate |
| `PrioQdisc`, `PrioService` → `PrioPort` | `sch_prio`, and with the history `debt` |
| `PrioDwrrQdisc`, `PrioWfqQdisc` → `PrioPort` | `sch_prio_dwrr`, `sch_prio_wfq` |
| `Ns2Port` → `Sums` | what the six ns-2 queues have in common, and the class Priority, which has no more |
| `Ns2Shares` → `Ns2Port` | what the five with quanta or weights have in common |
| `Ns2Dwrr`, `Ns2Wrr`, `Ns2Wfq`, `Ns2PrioDwrr`, `Ns2PrioWfq` | one of these five each |
| `Ns2Queues` | a port of any of the six classes, its script and its link |
| `Ns2Ecmp` | the multipath classifier |
| `TcpAgent`, `FullTcpOutput`, `FullTcpInput`, `FullTcp` | DCTCP's congestion control; sending; receiving and timers; two agents and a network |
| `PortLemmas`, `PrioPortLemmas`, `*_proofs` | lemmas and proofs |

### How the models follow the code

Variables have the names of the C fields, actions those of what a handler does.  The
variable `wire` (`sent` in ns-2) is what the last dequeue returned.

* An enqueue is one action with its outcomes as disjuncts: `Drop` (the port's buffer or
  the child bfifo is full) or `Admit`.  What precedes the decision in the code, such as
  `DecayRound` in `sch_dwrr`, happens in both.
* A dequeue that loops is one action per iteration, because sysctls and the clock move
  between iterations while the lock keeps packets out: `DequeueStart`, `Rotate`,
  `Throttle` and `Transmit` in `DwrrQdisc` (`deq` holds the dequeue's locals), `Rotate` and
  `TransmitDwrr` in `PrioDwrrQdisc` (`looping`), the `event` "deque" in ns-2.  `sch_wfq`,
  `sch_prio` and `sch_prio_wfq` do not loop over packets; their searches are operators
  (`HeadClass`, `PrioHead`), written as the loops are.
* `PrioPort` models the change of the rate store by store (`ChangeRate`, `Recompute`): a
  packet may be sent between any two of the five stores.
* `WatchdogFire` and `NetifSchedule` are the kernel's, modelled from how the qdiscs use
  them: the timer fires at or after its time, a device may ask for a run at any time.
* `CodelMarking` derives all widths (u16, u32, u64) from `SqrtUnit`, 2^16 in the code and
  16 in a run, so that count, clock and products wrap; `VirtualTime` has `TimeWrap`.
* A mark is decided by what the code has computed by then.  `EnqueMark` of ns-2's DWRR reads
  the estimates after the decay of an idle period (`dwrr.cc:428`); `DequeMark` reads those
  before the update of the same deque, which comes later (`dwrr.cc:476` and `578-588`).
* In ns-2 a setup is a record that stands for a script: the class, its bound variables
  and the commands the script issues.  Time is counted in transmissions of a byte.
* A TCP agent is a record and each function of the code an operator from agent to agent;
  `Deliver`, `Send`, `RtxTimeout`, `DelackTimeout` and `Close` apply a whole handler.  A
  network may lose, mark and reorder up to the numbers its setup gives.

Operators that a comment calls a mutant (`TransmitX` next to `Transmit`, `RefillTwice`,
...) are wrong variants that no specification uses: putting one in place of the operator
makes a property fail, which shows that the property is about that piece of code.  Variables that the code does
not have are histories and called so where they are declared; `wrapped` of `CodelSession`
says that a class has counted through all of u32.

### The abstract port

`PriorityFifos` has three variables: `fifo`, the packets accepted and not sent; `rank`, fixed
for a class while it has packets; `out`, what left last.  `Accept` appends to a FIFO
without dropping a mark, `Send` takes the head of a class of the smallest rank that has
packets, keeps its mark, and reports the size the packet is accounted for with; `Rest`
sends nothing.  Every qdisc and the six ns-2 queues implement it (`ImplementsPort`), with
`prio`, the index of the queue, or "behind the priority queues" as the rank.  Among equal
ranks the choice is free there: what the scheduler of a class promises beyond is stated
in its own module (`DeficitBound`, `WeightedFairness`, `EarliestFinishFirst`,
`LongestWaitFirst`).

## Runs

| run | specification | shows |
|---|---|---|
| `dwrr_sched` | `DwrrQdisc!FairSpec` | active lists and counters exact, bounded deficits, `PriorityFifos`; a dequeue returns |
| `dwrr_service` | `DwrrService!TimedService` | the watchdog is armed for when the next packet can go, the rate within two buckets, MQ-ECN's threshold never above the port's, TCN and CoDel mark only what waited, no stall |
| `wfq` | `WfqFairness!FairnessSpec` | finish times together, service by weight, `PriorityFifos`, no stall |
| `codel_session` | `CodelSession!SessionSpec` | a mark only after an interval above target; what a mark sets lets the next come within an interval, at a root that is neither zero nor too large |
| `prio` | `PrioService!ServiceSpec` | the rate while it is replaced, `PriorityFifos`, no stall |
| `prio_dwrr` | `PrioDwrrQdisc!Spec` | sum of quanta, one credit per turn, samples of the round time, `PriorityFifos` |
| `prio_wfq` | `PrioWfqQdisc!Spec` | the head that finishes first, `PriorityFifos` |
| `ns2_queues` | `Ns2Queues!FairSpec` | of the six ns-2 queues: active lists, order of turns, sums of shares, finish times, drain rates, MQ-ECN's thresholds, `PriorityFifos`, every deque ends |
| `ns2_ecmp` | `Ns2Ecmp!EcmpSpec` | turns are even, a changed route moves only its own packets |
| `tcp` | `FullTcp!FairSpec` | ACKs are true, timers armed, the receiver's window, exact ECN echo; flows complete and ends close |
| `dwrr_burst` | `DwrrService!ServiceSpec` | **violated**: a burst within one bucket |
| `dwrr_round_time` | `DwrrQdisc!Spec` | **violated**: a round time that is not negative |

### Bounds, and why they are enough

`MaxTime` (in ns-2 `until` of a setup) bounds the clock; buffers bound the queues, as in the code.

* `dwrr_sched`: two classes, two priorities, sizes 1 and 2, quanta 3 and 4, six bytes of
  buffer.  Two classes make a list with an order and a rotation; one may change its
  priority and quantum at any time, so both sharing a priority and pre-empting occur.
* `dwrr_service`: two classes of distinct priorities, 2 bytes per ns, a bucket of one large
  packet, 3 ns, the schemes MQ-ECN, TCN and CoDel exchanged at any time; WRR, so that
  with `dwrr_sched` both forms of the scheduler run.
* `wfq`: two classes, weights 1 and 1 or 2, virtual times of 3 bits, which wrap many times;
  the width leaves just the room the proofs ask for.
* `codel_session`: a clock of 256 values that goes round while a marking period ends,
  another resumes it, and a count wraps.  In this run the time itself does not exceed 32
  ns; the theorems cover any time.
* `prio`: two queues; half a ns per byte becomes one ns, by way of the five stores.
* `prio_dwrr`: one priority and two DWRR queues, one quantum rewritten, both forms of
  MQ-ECN; `prio_wfq`: the same shape, virtual times of 4 bits.
* `ns2_queues`: eighteen setups, each for a class and what concerns it: packets of up to
  three quanta, each scheme, the timer, marks at deque under both forms of MQ-ECN and with
  and without the timer, shares that change, three ways to have two to four queues.
* `ns2_ecmp`: five slots, which routes leave with gaps, in all three modes.
* `tcp`: flows of two to five segments.  The seven setups differ in what may go wrong: one
  or two losses, reordering by one, an early timeout, marks, data both ways, closes.
  Deadlock is not checked there, since connections end.

### Fairness, and why the code has it

Weak fairness of the dequeue steps: `__qdisc_run` calls `dequeue` until it gets NULL, and
its loop does not give up the CPU.  Of the watchdog: hrtimers fire.  Of the clock and of
`Recompute`: time passes, and a system call runs to its end.  Arrivals, sysctl writes, the
device and a new change of the rate have none.  In ns-2 a deque goes on once it has
begun; in TCP every event the scheduler has is run.  There the guards are written out in
place of ENABLED.  A sysctl cannot starve a loop, because it disables none of its steps.

## Findings

* `dwrr_round_time`: a sample of the round time uses the time the last packet *would*
  leave the wire.  Two packets taken at one instant out of banked tokens get nearly the
  same time, so the second turn, which starts when the first would have left, ends before
  it starts.  The average goes below zero, where MQ-ECN marks as per-port marking does.
* `dwrr_burst`: `tbf_schedule` limits the time since the checkpoint and the stored tokens to a
  bucket each and not their sum; twice the "bucket size" passes at once.  Theorem
  `RateConforms` shows that it is never more.

Other places where the code differs from what one would expect, which the models follow
and which limit what the properties say:

* A scheme that reads time stamps finds none on packets enqueued under another; `sch_dwrr`
  and `sch_wfq` take the missing stamp for time 0 (`KeepsKind` excludes the switch).
* `sch_prio_dwrr` and `sch_prio_wfq` send only if tokens are left over (`> 0`) but arm the
  watchdog for when they are exactly enough: one wake-up is in vain, and with a bucket of
  exactly one packet the packet never leaves.  No stall property is claimed for them.
* A packet that `sch_prio` throttles while its rate is half-way replaced may get a wake-up
  far ahead; `NeverStalls` of `PrioQdisc` allows for it.
* `sch_prio_dwrr` notes the start of an idle period when the DWRR queues are empty and
  decays when the whole port is.  PRIO_DWRR of ns-2 decays while the link is busy.
* `set-quantum` and `set-weight` of ns-2 leave the sum of the shares as it was, and the sum
  drifts: `ShareSumExact` and the bounds of MQ-ECN's threshold are about scripts that do
  not change shares while queues wait.  Under "rr" the bounds also exclude priority
  queues, which lengthen a round without being part of it.
* Within a marking period CoDel's `mark_next` advances from its own value, not from the
  clock.  When packets leave less often than the control law asks for marks it falls
  behind, and half the clock behind (2^31 units of 1024 ns, some 36 minutes) it looks like
  the future: marks pause until the clock comes round.  `NextMarkWithinInterval` is
  therefore about what a mark sets, ahead of the clock by at most an interval or else past.
* FullTcp does not close on MSG_EOF when there is nothing left to send, and its echo is not
  exact when data flows both ways; the properties say where they apply.

## Proofs

The proofs hold for any number of classes and priorities, any packet sizes, rates and
sysctl writes, for every script that `SetupOK` of `Ns2Queues` allows, and for any routes and
flows, as far as they satisfy the `ASSUME`s of the modules, which TLC evaluates on every run.

| module | theorems |
|---|---|
| `DwrrService_proofs` | `TypeCorrect`, `ActiveListsCorrect`, `StrictPriorityHolds`, `DeficitBounded`, `AccountingCorrect`, `ThrottledArmed`, `NeverLaxer`, `PortImplemented`, `RateConforms`, `SojournMarksCorrect`; of CoDel `MarksPersistentOnly`, `MarksKeepComing` |
| `WfqFairness_proofs` | `TypeCorrect`, `AccountingCorrect`, `FinishTimesStayTogether`, `ThrottledArmed`, `WeightedlyFair`, `PortImplemented` |
| `PrioService_proofs` | `TypeCorrect`, `AccountingCorrect`, `ThrottledArmed`, `PortImplemented`, `RateConforms` |
| `PrioDwrr_proofs` | `TypeCorrect`, `AccountingCorrect`, `ActiveListCorrect`, `QuantumSumCorrect`, `CreditCorrect`, `SamplesCorrect`, `NeverLaxer`, `PortImplemented` |
| `PrioWfq_proofs` | `TypeCorrect`, `AccountingCorrect`, `FinishTimesStayTogether`, `EarliestServed`, `PortImplemented` |
| `Ns2_proofs` | `BaseInvariant`, `ListsExact`, `DrainRatesBounded`, `ShareSumsExact`, `TurnsInWaitingOrder`, `FinishTimesStayTogether`, `ThresholdsBetween`, `PortsImplemented`; of the classifier `TurnsEven`, `ChangesAreLocal` |

**`sch_dwrr`.**  `IInv` is `TypeOK`, `ActiveListsExact` and `InProgress`.  None is inductive
alone: that a deficit stays a natural number needs a head packet to compare it with,
which exists because a class on a list has packets (`ActiveListsExact`), on a list that is
not empty (`InProgress`: a dequeue works on the most urgent priority with classes, for the
lock keeps arrivals out).  Each other invariant rests on `IInv`: the accounting on lemmas
about sums, `ThrottledIsArmed` on a run being due during a dequeue (`DequeueIsRun`),
`RateConformance` on `Excess` (`debt + tokens` is at most two buckets: a departure moves
its transmission time from one summand to the other, and the time since the checkpoint
adds at most a bucket), `SojournMarksTrue` on the stamps being the arrival times while the
scheme reads them (`Stamped`).

**`sch_wfq`.**  `IInv` is `TypeOK`, `WeightsConfigured` (the weights are among the values
written), `AccountingExact` and `TagsOrdered`.  The lag of a class is how far its finish time
is behind the virtual time of its priority, on the circle of 2^64.  `FinishTimesTogether`
bounds every lag and is not inductive: when a class sends, virtual time moves on and all
others lag more.  `TagsOrdered` says that for every class with packets the number of
classes that lag less bounds its lag, in large packets: the class that dequeue takes,
which lags most, goes to the front and frees the place the others move into.  That it
takes that class needs exact counters (the loop looks for classes with bytes) and lags
below half the circle, where `TimeBefore` orders them, which is what `TagsOrdered` gives.
`SearchExists`, `SearchFinds` and `HeadClassFacts` are about the recursion of the search.

For `WeightedFairness` a class is *behind* by its lag and the share of its head packet, the
virtual time at which its service began.  While the weights stay, a step moves all classes
of a priority alike, but for the share of what leaves (`Shifted`), so that `lead[c][d] +
Behind(c) - Behind(d)` does not grow while `c` and `d` compete; it starts at most at `Span`,
one large packet of every class, and each `Behind` is within it (`BehindWithin`).  `LeadInv`
is the conjunction.  The bound is `NumQueues + 1` large packets, one more than `Span`.  In
the instances TLC can reach `NumQueues` holds as well; a proof of that is not known to us.

**CoDel.**  `WaitsSince` ties `first_above_time` to a dequeue an interval ago since when the
queue was above target.  It also holds when the clock wraps to 0 at that instant, a value
the code reads as "unset": the wait is then longer and no mark is premature.  The
comparisons on the wrapping clock err to one side only (`PortLemmas`), for targets and
intervals below half of its range.  `MarksKeepComing` is about the other end, that marks are
not put off: whatever root the Newton iteration has come to, the control law adds at most
the interval (`ControlLawAhead`), so `mark_next` after a mark is that much ahead of the
clock at most, or behind it (`CodelMarkNext`).  Its second part is the other side, that a
root neither vanishes nor is too large: `Rooted` says that the count is at least
`lastcount`, that `count * root^2` is at most U32, and that the root is positive once
something was marked.  A step of the iteration starts from such a root and a count of one
more, or from a smaller count in a period that resumes, so 3 * U32 exceeds what is
subtracted and the u64 products do not wrap (`NewtonValue`, for an even `SqrtUnit`); with y
for `count * root^2` before the step, the product after it stays within U32 because
(4 * U32 - y) * (U32 - y)^2 >= 0 (`NewtonBound`, `NewtonRoot`).  The count returning to 0 breaks `Rooted`, hence the
condition `~ wrapped`.

**`sch_prio`** needs no more than `PortTypeOK` and `PortAccounting`; its `ShapingInv` is
the `Excess` of `sch_dwrr` with every packet at the rate in use when it left.

**`sch_prio_dwrr`.**  `IInv` has in addition to types, counters and the active list the sum of
the quanta, `CreditOncePerTurn`, and `Turns`: a queue in its turn is on the list and either has
its whole quantum left or has sent since the turn began.  A quantum covers every packet
(`PrioDwrrAssumption`, the bounds of the sysctl), so a turn never ends without a departure,
which is why the sample (`SampleOfThisTurn`) does not end in an earlier turn.  That it does
not start in one is `StartsInv`: the active list is in the order of `start_time`, all of
them are past and none is before `last_idle_time`, since a queue that joins or
rejoins at the end starts its time there and idleness begins with an empty list
(`IdleIsEmpty`).  `looping` implies that no priority
packet waits: without it a rotation could hide one.

**`sch_prio_wfq`.**  The argument of `sch_wfq` for the one set of WFQ queues behind the priority
queues: `IInv` is `TypeOK`, `WeightsConfigured`, `AccountingExact` and `TagsOrdered`, which
again need each other, the search because it looks for queues with bytes.  `EarliestServed`
follows: only a dequeue shortens a WFQ FIFO, it takes the class that lags most, and of two
lags below half the circle the larger belongs to the earlier finish time (`LagDifference`).

**The ns-2 queues.**  The six classes are one module with one proof for each kind of step,
split by class where they differ.  Doubles are integers in small units there, rounded down.
All rests on `Base`: the types, that a deque is due at an idle link only, that a drain
cycle has counted no more bytes than the link had time for by the time it is free, and
`ActiveListExact`, which belongs to the types because deque takes the head packet of the
queue at the head of the list.  What follows from it:

* `ShareSumInv`: a share is added when a queue gets its first packet and taken off with its
  last, so the sum is that of the queues with packets.
* `DwrrWaits`, `WrrWaits`: the rounds of the queues that wait began in the order of the list
  (of the indices from the current queue on), and none began after the link is free.
* `WfqTogether`: the latest finish time is ahead of that of a queue by at most a packet of
  each queue that is to finish after it, the bound of `TagsOrdered` without the wrapping.
* `PortStep`: whatever a class does, its FIFOs see an arrival at a tail, the head of a queue
  leaving, or nothing, which is all that `PortsImplemented` needs.

`ThresholdsBetween` is about what became of MQ-ECN's estimates through samples, decay in idle
periods and queues that come and go.  What a mark reads is not always what the step leaves
(a mark at deque precedes the update), so `WholeFacts` bounds the estimates before and
after each step.  Under "gener" the estimate of the sum never exceeds
the sum of all shares, for the samples do not and smoothing and decay stay within
(`EwmaWithin`, `DecayAtMost`).  Under "rr" the round time never exceeds the longest round,
in which every queue sends its share and what a packet may exceed it by.  The invariant is
`RoundsWithin`: for each queue of the list, the time since its round began until the link is
free, plus what the queues up to it may still send, is at most that.  A packet moves its
length from the second summand to the first, and a queue starts its round at the end of
the list with at most what all may send before it.  That needs a link that is busy while
packets wait (`Busy`) and the order of the rounds.  With marks at deque a packet gets its
mark as it leaves (`Unmarked`).  `MarkInv` is the conjunction.  The hypotheses are in the
property, `MqEcn`: an ECT packet, MQ-ECN on, shares that the script leaves alone (else the
sum drifts, and TLC violates the bound), and no priority queues under "rr".

**The classifier.**  `EvenTurns` is not inductive: that no slot is two packets ahead needs
to know which slots are one ahead.  `TurnsInOrder` says that a slot whose turn comes earlier
(`Precedes`) has not been chosen more often, and that the counts, which begin anew when all
slots are even, are 0 and 1.  The search of the code finds the first slot in turn order
(`ProbeFinds`), so the next packet goes to a slot with the lowest count.  For the same
reason a change is local (`ChangesAreLocal`): if the slot a flow had and the slot it gets
are both in use before and after, each comes before the other in turn order, unless they
are the same.

**Refinement.**  `PortImplemented` is proved in each from one lemma per kind of step: the
initial states map to initial states, an admitted packet to `Accept`, a departure to `Send`,
everything else to `Rest` or a stutter.

**Lemmas.**  `PortLemmas`: induction by the least element of a set of naturals, lists without
repetitions, and sums.  The sums of the models (`Sums`) are recursive functions, and
`PrefixSumsExist` shows that they have values; `PowersExist` of `Ns2_proofs` does for powers.  Also there: products and remainders, the widths of CoDel's
fields and its serial arithmetic, and the circle of virtual times (`LagBound`,
`AdvanceOrdered`, `LargestShareFacts`, the search), which the proofs of `sch_wfq` and
`sch_prio_wfq` both cite.  `PrioPortLemmas`: one lemma per operation of the port that the
three `sch_prio*` share.  `Ns2_proofs` takes from `PortLemmas` what concerns sums and products;
the constants of the qdiscs and their assumptions are in scope there and not used.

Assumptions that matter.  Packets: `PktLens` are natural numbers; where a bound over all of
them is used there is a largest (`skb->len` has 32 bits).  Weights are between 1 and
`MinPktBytes`, quanta of `sch_prio_dwrr` at least a packet, as the sysctls' bounds demand.
Half the range of virtual times holds one large packet of every class (2^32 bytes at
weight 1 and 8 classes against 2^64) in `sch_wfq` and `sch_prio_wfq`, and CoDel's target
and interval are below half its clock.  Byte counters are integers here, shown to be the
sums they stand for.

Only model-checked:

* liveness, which the prover does not do: `DequeueTerminates`, `NeverStalls`, `DequeEnds`,
  `FlowsComplete`; of `NeverStalls` the safety part is proved (`ThrottledArmed`: a throttled
  port that holds packets has its watchdog armed, in `sch_dwrr` and `sch_wfq` for a time at
  which the packet that is next has its tokens);
* TCP (`AcksAreTrue`, `TimersArmed`, `WithinReceiverWindow`, `EchoIsExact`), whose reassembly and
  sending loops are RECURSIVE operators, which tlapm does not take.

## Plan

Done: the five qdiscs, CoDel, the six ns-2 queues, ECMP and DCTCP, with their runs;
proofs of the qdiscs, CoDel, the ns-2 queues and ECMP.  Next:

1. The rate of the shaper for `sch_wfq`, `sch_prio_dwrr` and `sch_prio_wfq`, by the argument of
   `sch_dwrr` and `sch_prio`, with a history of departures added to their modules.
2. `WithinReceiverWindow` and `AcksAreTrue` of TCP, once its loops are rewritten as recursive
   functions over the segments.

## Not modelled

The pFabric patch (a third party's), the Tcl and Python experiments, the registration of
sysctls (tables built once; their bounds are assumptions here), failures of allocation at
`init`, and `destroy`.  Of the qdiscs: sysctls other than the priorities, quanta, weights
and the scheme are constants, and so is the rate of `sch_dwrr` and `sch_wfq`; debug output
and a packet the device refuses and the kernel requeues are left out.  Of ns-2:
`set-thresh`, traces and printing.  Of TCP: RTT estimation and backoff (a timeout is due
when nothing is under way, plus a few early ones), priority tags, deadlines, MinTcp's
probing, variants other than Sack with DCTCP, slow start after idleness, and options the
scripts leave off (`halfclose_`, `data_on_syn_`, `infinite_send_`, a Nagle delay).
