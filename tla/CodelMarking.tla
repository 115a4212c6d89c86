---------------------------- MODULE CodelMarking ----------------------------
(***************************************************************************)
(* CoDel ECN marking of one queue as sch_dwrr performs it on every         *)
(* dequeued packet.  Time is counted in CodelUnit ns (1024) and kept in a  *)
(* u32; 1/sqrt(count) is kept in half as many bits.  Both widths follow    *)
(* from SqrtUnit, which is 2^16 in the code: a model takes a small power   *)
(* of two, so that the clock and the count wrap within the model.          *)
(***************************************************************************)
EXTENDS Integers

CONSTANTS
    SqrtUnit,       \* 2 ^ REC_INV_SQRT_BITS
    CodelUnit,      \* 1 << dwrr_codel_shift
    CodelTarget,    \* dwrr_codel_target
    CodelInterval,  \* dwrr_codel_interval
    MaxPktBytes     \* dwrr_max_pkt_bytes

ASSUME CodelAssumption ==
    /\ SqrtUnit \in Nat /\ SqrtUnit > 1 /\ SqrtUnit % 2 = 0
    /\ CodelUnit \in Nat \ {0}
    /\ CodelTarget \in Nat /\ 2 * CodelTarget < SqrtUnit * SqrtUnit
    /\ CodelInterval \in Nat /\ 2 * CodelInterval < SqrtUnit * SqrtUnit
    /\ MaxPktBytes \in Nat

U32 == SqrtUnit * SqrtUnit
U64 == U32 * U32

CodelTimes == 0 .. U32 - 1

CodelState ==
    [count : CodelTimes, lastcount : CodelTimes, marking : BOOLEAN,
     rec_inv_sqrt : 0 .. SqrtUnit - 1,
     first_above_time : CodelTimes, mark_next : CodelTimes, ldelay : CodelTimes]

CodelInit ==
    [count |-> 0, lastcount |-> 0, marking |-> FALSE, rec_inv_sqrt |-> 0,
     first_above_time |-> 0, mark_next |-> 0, ldelay |-> 0]
-----------------------------------------------------------------------------
\* Serial number arithmetic on the wrapping clock: the s32 difference.
CodelAfter(a, b)   == LET d == (a - b) % U32 IN 0 < d /\ 2 * d < U32
CodelAfterEq(a, b) == LET d == (a - b) % U32 IN 2 * d < U32

CodelTime(ns) == (ns \div CodelUnit) % U32

\* One Newton iteration of r := r * (3 - count * r * r) / 2, in fixed point.
NewtonStep(count, rec_inv_sqrt) ==
    LET invsqrt  == rec_inv_sqrt * SqrtUnit
        invsqrt2 == (invsqrt * invsqrt) \div U32
        val      == ((3 * U32 - count * invsqrt2) % U64) \div 4
        scaled   == ((val * invsqrt) % U64) \div (U32 \div 2)
    IN  (scaled \div SqrtUnit) % SqrtUnit

\* The reciprocal root at count = 1.
FullRoot     == SqrtUnit - 1

\* When to mark next: t + interval / sqrt(count).
ControlLaw(t, rec_inv_sqrt) ==
    (t + (CodelInterval * rec_inv_sqrt * SqrtUnit) \div U32) % U32
-----------------------------------------------------------------------------
\* The packet found the queue good: a short delay, or at most one packet left.
BelowTarget(delay, len_bytes) ==
    \/ CodelAfter(CodelTarget, delay)
    \/ len_bytes <= MaxPktBytes

\* A mutant of Observe: a good packet does not restart the wait.
ObserveNoReset(c, delay, len_bytes, now) ==
    [c EXCEPT !.ldelay = delay,
              !.first_above_time = IF @ = 0 THEN (now + CodelInterval) % U32 ELSE @]

\* The class after codel_should_mark: when the delay will have been above the
\* target for an interval, 0 while it is below.
Observe(c, delay, len_bytes, now) ==
    [c EXCEPT !.ldelay = delay,
              !.first_above_time =
                  IF BelowTarget(delay, len_bytes) THEN 0
                  ELSE IF @ = 0 THEN (now + CodelInterval) % U32 ELSE @]

ShouldMark(c, delay, len_bytes, now) ==
    /\ ~ BelowTarget(delay, len_bytes)
    /\ c.first_above_time # 0
    /\ CodelAfter(now, c.first_above_time)

\* The next mark of a marking period.
MarkAgain(c) ==
    LET n == (c.count + 1) % U32
        r == NewtonStep(n, c.rec_inv_sqrt)
    IN  [c EXCEPT !.count = n, !.rec_inv_sqrt = r,
                  !.mark_next = ControlLaw(c.mark_next, r)]

\* A mutant of StartMarking: a period that does not resume keeps the old root.
StartMarkingOldRoot(c, now) ==
    LET delta  == (c.count - c.lastcount) % U32
        resume == /\ delta > 1
                  /\ CodelAfter((CodelInterval * 16) % U32, (now - c.mark_next) % U32)
        n      == IF resume THEN delta ELSE 1
        r      == NewtonStep(n, c.rec_inv_sqrt)
    IN  [c EXCEPT !.marking = TRUE, !.count = n, !.lastcount = n,
                  !.rec_inv_sqrt = r, !.mark_next = ControlLaw(now, r)]

\* The first mark of a marking period, which resumes the rate of the previous
\* one if that ended recently.
StartMarking(c, now) ==
    LET delta  == (c.count - c.lastcount) % U32
        resume == /\ delta > 1
                  /\ CodelAfter((CodelInterval * 16) % U32, (now - c.mark_next) % U32)
        n      == IF resume THEN delta ELSE 1
        r      == IF resume THEN NewtonStep(delta, c.rec_inv_sqrt) ELSE FullRoot
    IN  [c EXCEPT !.marking = TRUE, !.count = n, !.lastcount = n,
                  !.rec_inv_sqrt = r, !.mark_next = ControlLaw(now, r)]

\* codel_marking: the class afterwards and whether the packet is marked.
CodelMark(c, tstamp, len_bytes, now_ns) ==
    LET now   == CodelTime(now_ns)
        delay == CodelTime(now_ns - tstamp)
        mark  == ShouldMark(c, delay, len_bytes, now)
        seen  == Observe(c, delay, len_bytes, now)
        again == c.marking /\ mark /\ CodelAfterEq(now, c.mark_next)
        start == ~ c.marking /\ mark
    IN  [class |-> IF again THEN MarkAgain(seen)
                   ELSE IF start THEN StartMarking(seen, now)
                   ELSE [seen EXCEPT !.marking = mark],
         ce    |-> again \/ start]
=============================================================================
