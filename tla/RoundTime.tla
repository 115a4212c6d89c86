----------------------------- MODULE RoundTime ------------------------------
(***************************************************************************)
(* The smoothed round time of DWRR: an exponential moving average that     *)
(* decays over idle periods.  Shifts to the right of s64 values are \div   *)
(* by the power of two: both round towards minus infinity.                 *)
(***************************************************************************)
EXTENDS Integers

CONSTANTS
    RoundAlpha,    \* dwrr_round_alpha                              (768)
    AlphaUnit,     \* 1 << dwrr_round_shift                         (1024)
    MaxIteration,  \* dwrr_max_iteration                            (10)
    IdleInterval   \* dwrr_idle_interval_ns

ASSUME RoundAssumption ==
    /\ AlphaUnit \in Nat \ {0} /\ RoundAlpha \in 0 .. AlphaUnit
    /\ MaxIteration \in Nat /\ IdleInterval \in Nat
-----------------------------------------------------------------------------
S64Ewma(smooth, sample, weight, unit) ==
    (smooth * weight + sample * (unit - weight)) \div unit

EwmaRound(smooth, sample) == S64Ewma(smooth, sample, RoundAlpha, AlphaUnit)

\* rt after 0, 1, ... MaxIteration idle slots: each counts as a round of length 0.
Decay(rt) ==
    LET decayed[i \in 0 .. MaxIteration] ==
            IF i = 0 THEN rt ELSE EwmaRound(decayed[i - 1], 0)
    IN  decayed

\* The smoothed round time after the priority was idle for interval ns.
ResetRound(rt, interval) ==
    LET iter == IF IdleInterval > 0 THEN interval \div IdleInterval ELSE 0
    IN  IF iter \in 0 .. MaxIteration THEN Decay(rt)[iter] ELSE 0
=============================================================================
