---------------------------- MODULE CodelSession ----------------------------
(***************************************************************************)
(* One class of sch_dwrr under CoDel, seen from its dequeues: packets      *)
(* leave in the order they arrived, each after any of the sojourn times    *)
(* Delays and with any of the lengths Lefts behind it, at any pace.        *)
(***************************************************************************)
EXTENDS CodelMarking

CONSTANTS Delays, Lefts, Steps, Horizon  \* Horizon bounds the clock

ASSUME SessionAssumption ==
    Delays \subseteq Nat /\ Lefts \subseteq Nat /\ Steps \subseteq Nat /\ Horizon \in Nat

VARIABLES
    clock,       \* ns
    cls,         \* the CoDel fields of struct dwrr_class
    lastArrival, \* when the last dequeued packet had arrived
    aboveSince,  \* history: since when every dequeue found the queue above target
    marked,      \* history: the last dequeued packet was marked
    wrapped      \* history: the count has gone round

sessionVars == <<clock, cls, lastArrival, aboveSince, marked, wrapped>>

NotAbove == -1

SessionInit ==
    /\ clock = 0 /\ cls = CodelInit /\ lastArrival = 0
    /\ aboveSince = NotAbove /\ marked = FALSE /\ wrapped = FALSE

\* The delay and the length as CoDel means them, on a clock that never wraps.
Above(delay, left) == delay >= CodelTarget * CodelUnit /\ left > MaxPktBytes

SessionDequeue(delay, left) ==
    LET result == CodelMark(cls, clock - delay, left, clock)
    IN  /\ lastArrival <= clock - delay
        /\ lastArrival' = clock - delay
        /\ cls' = result.class
        /\ marked' = result.ce
        /\ wrapped' = (wrapped \/ (cls.count # 0 /\ result.class.count = 0))
        /\ aboveSince' = IF ~ Above(delay, left) THEN NotAbove
                         ELSE IF aboveSince = NotAbove THEN clock ELSE aboveSince
        /\ UNCHANGED clock

Pass(d) ==
    /\ clock + d <= Horizon
    /\ clock' = clock + d
    /\ UNCHANGED <<cls, lastArrival, aboveSince, marked, wrapped>>

SessionNext ==
    \/ \E delay \in Delays, left \in Lefts : SessionDequeue(delay, left)
    \/ \E d \in Steps : Pass(d)

SessionSpec == SessionInit /\ [][SessionNext]_sessionVars
-----------------------------------------------------------------------------
\* CoDel marks a packet only after every packet dequeued for more than an interval
\* stayed above the target: one good packet restarts the wait (codel_should_mark).
MarksOnlyPersistentQueue ==
    marked => /\ aboveSince # NotAbove
              /\ clock - aboveSince > CodelInterval * CodelUnit

\* A mark sets the next one at most an interval ahead of the clock or leaves it overdue,
\* however often the clock and the count wrap: no root, also one resumed from an earlier
\* marking period, postpones it further.  And the distance is what CoDel asks for: until
\* the count has gone round, which takes U32 marks, the fixed-point root is never zero,
\* which would mark every packet, and never above 1 / sqrt(count), so that the iteration
\* from the next count cannot go below zero (codel_control_law, codel_Newton_step).
NextMarkWithinInterval ==
    [][clock' = clock /\ marked' =>
           LET ahead == (cls'.mark_next - CodelTime(clock)) % U32
               root  == cls'.rec_inv_sqrt
           IN  /\ ahead <= CodelInterval \/ 2 * ahead > U32
               /\ ~ wrapped' => root > 0 /\ cls'.count * root * root <= U32]_sessionVars
=============================================================================
