----------------------------- MODULE Ns2Shares ------------------------------
(***************************************************************************)
(* What DWRR, WRR and WFQ (and the PRIO_ variants of two of them) add to   *)
(* the port: queues with a share of the link (quantum in DWRR and WRR,     *)
(* weight in WFQ), and the MQ-ECN threshold, which gives a queue the part  *)
(* of the port's threshold that its share has in an estimate: of the round *)
(* time (scheme "rr") or of the sum of the shares that compete ("gener").  *)
(* The line numbers are those of DWRR.                                     *)
(***************************************************************************)
EXTENDS Ns2Port

\* set-quantum or set-weight before and during the simulation, estimate_quantum_alpha_ *
\* AlphaUnit, and the unit of the estimates (1 / Unit).
InitShare     == Script.shares
ShareChoices  == Script.changes
EstimateAlpha == Script.estimate_alpha
Unit          == Script.unit

ShareQueues == PortQueues \ PrioQueues

VARIABLES
    share,             \* quantum or weight
    last_idle_time     \* when a deque last left the ShareQueues empty

shareVars == <<share, last_idle_time>>

SharesInit == share = InitShare /\ last_idle_time = 0
-----------------------------------------------------------------------------
\* x times the n-th power of the factor alpha.
Decay(x, alpha, n) == (x * Power(alpha, n)) \div Power(AlphaUnit, n)

\* The queues are empty when a packet arrives, as they have been since last_idle_time.
FoundEmpty == LengthOf(ShareQueues) = 0

\* min(share / estimate, 1) * port_thresh_ against len bytes, for an estimate in 1 / Unit
\* (the mutant leaves out the minimum).
ShareMarkUncapped(c, len, estimate) == len * estimate > share[c] * Unit * port_thresh_
ShareMark(c, len, estimate) ==
    IF estimate > share[c] * Unit
    THEN len * estimate > share[c] * Unit * port_thresh_
    ELSE len > port_thresh_

\* The end of deque, which has left bytes in the ShareQueues.
NoteIdle(bytes) == last_idle_time' = IF bytes = 0 THEN now ELSE last_idle_time

\* The command set-quantum or set-weight.
SetShare(c, value) ==
    /\ event = "none"
    /\ share' = [share EXCEPT ![c] = value]
    /\ UNCHANGED <<portVars, last_idle_time>>
-----------------------------------------------------------------------------
(***************************************************************************)
(* The round time of DWRR and WRR.                                         *)
(***************************************************************************)
\* estimate_round_alpha_ * AlphaUnit and estimate_round_idle_interval_bytes_.
RoundAlpha   == Script.round_alpha
IdleInterval == Script.idle_interval

VARIABLES
    start_time,        \* when the round of a queue began
    round_time         \* the smoothed round time, in 1 / Unit

roundVars == <<start_time, round_time>>

RoundInit == start_time = [c \in ShareQueues |-> 0] /\ round_time = 0

\* The round of queue c ends after the transmission of size bytes.
RoundSample(c, size) == now - start_time[c] + TxTime(size)
Smoothed(c, size)    == Ewma(round_time, RoundSample(c, size) * Unit, RoundAlpha)

\* The round time decays once per interval without a packet, at the rate alpha.
IdleRound(alpha) ==
    IF IdleInterval = 0 THEN 0
    ELSE Decay(round_time, alpha, (now - last_idle_time) \div IdleInterval)
-----------------------------------------------------------------------------
(***************************************************************************)
(* The sum of the shares of the queues that are not empty, and the smoothed *)
(* sum.  It is updated by a timer, or by the first deque after an interval *)
(* and by the arrival of a packet at empty queues.                         *)
(***************************************************************************)
\* estimate_quantum_interval_bytes_, the decay in one unit of time, and
\* estimate_quantum_enable_timer_.
EstimateInterval == Script.estimate_interval
TickAlpha        == Script.tick_alpha
EnableTimer      == Script.enable_timer

VARIABLES
    share_sum,            \* quantum_sum or weight_sum
    share_sum_estimate,   \* the smoothed sum, in 1 / Unit
    last_update_time,
    timer                 \* when the timer expires, or Idle; it is set by the first enque

sumVars == <<share_sum, share_sum_estimate, last_update_time, timer>>

SumInit == share_sum = 0 /\ share_sum_estimate = 0 /\ last_update_time = 0 /\ timer = Idle

TimerRuns  == marking_scheme_ = "gener" /\ EnableTimer /\ EstimateInterval > 0
TimerOff   == marking_scheme_ = "gener" /\ ~EnableTimer
SmoothedSum(sum) == Ewma(share_sum_estimate, sum * Unit, EstimateAlpha)

\* The start of enque: the timer is started, or the sum decays for the time in which the
\* queues were empty.
StartTimer == timer' = IF TimerRuns /\ timer = Idle THEN now + EstimateInterval ELSE timer

IdleSum == IF EstimateInterval = 0 THEN 0
           ELSE Decay(share_sum_estimate, TickAlpha, now - last_idle_time)

\* The end of deque, which leaves the sum at sum.
UpdateDue == TimerOff /\ EstimateInterval > 0 /\ now - last_update_time >= EstimateInterval

UpdateEstimate(sum) ==
    /\ share_sum' = sum
    /\ share_sum_estimate' = IF UpdateDue THEN SmoothedSum(sum) ELSE share_sum_estimate
    /\ last_update_time' = IF UpdateDue THEN now ELSE last_update_time
    /\ UNCHANGED timer

\* The timer expires.
Timeout ==
    /\ event = "none" /\ timer = now
    /\ share_sum_estimate' = SmoothedSum(share_sum)
    /\ timer' = now + EstimateInterval
    /\ UNCHANGED <<portVars, shareVars, share_sum, last_update_time>>
-----------------------------------------------------------------------------
SumOfShares(queues) == SumOver(queues, share)
TotalShare == SumOfShares(ShareQueues)
=============================================================================
