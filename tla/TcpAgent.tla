------------------------------ MODULE TcpAgent ------------------------------
(***************************************************************************)
(* The congestion control of an ns-2 TCP agent as DCTCP uses it (ecnhat_): *)
(* the window, its growth and its cuts, and the estimate ecnhat_alpha_ of  *)
(* the share of bytes that were marked.  An agent is a record; a function  *)
(* of the code is an operator from agent to agent.                         *)
(*                                                                         *)
(* The window is counted in 1/CwndUnit of a segment, alpha in 1/AlphaUnit: *)
(* what the code computes in floating point is rounded down to them.       *)
(***************************************************************************)
EXTENDS Integers, Sequences, FiniteSets

CONSTANTS
    MaxSeg,    \* maxseg_: sequence numbers per segment
    CwndUnit,
    AlphaUnit,
    GDivisor,  \* 1 / ecnhat_g_
    InitAlpha, \* ecnhat_alpha_ of a new agent
    ecn_       \* whether the agent uses ECN (and ecnhat_)

ASSUME TcpAssumption ==
    /\ {MaxSeg, CwndUnit, AlphaUnit, GDivisor} \subseteq Nat \ {0}
    /\ InitAlpha \in 0 .. AlphaUnit
    /\ ecn_ \in BOOLEAN

Smaller(x, y) == IF x < y THEN x ELSE y
Larger(x, y) == IF x > y THEN x ELSE y

\* windowd and window: what may be outstanding, in CwndUnits and in segments (that of
\* the mutant ignores the receiver's window).
windowdUnlimited(a) == a.cwnd_
windowd(a) == Smaller(a.cwnd_, a.wnd_ * CwndUnit)
window(a) == windowd(a) \div CwndUnit

initial_window(a) == a.wnd_init_ * CwndUnit

\* TcpAgent::opencwnd with windowOption_ 0: slow start, or one segment per window of
\* ACKs.
opencwnd(a) ==
    CASE a.cwnd_ < a.ssthresh_ * CwndUnit -> [a EXCEPT !.cwnd_ = @ + CwndUnit]
      [] a.cwnd_ >= a.ssthresh_ * CwndUnit /\ (a.count_ + 1) * CwndUnit >= a.cwnd_ ->
            [a EXCEPT !.cwnd_ = @ + CwndUnit, !.count_ = 0]
      [] OTHER -> [a EXCEPT !.count_ = @ + 1]

\* The window less alpha / 2 of it.
EcnhatWindow(a) == (windowd(a) * (2 * AlphaUnit - a.ecnhat_alpha_)) \div (2 * AlphaUnit)

\* TcpAgent::slowdown: a cut of the threshold and of the window.  The window never
\* falls below one segment, the threshold never below two.
slowdown(a, how) ==
    LET half == windowd(a) \div 2
        ssthresh == CASE "CLOSE_SSTHRESH_HALF" \in how -> half \div CwndUnit
                      [] "CLOSE_SSTHRESH_ECNHAT" \in how -> EcnhatWindow(a) \div CwndUnit
                      [] OTHER -> a.ssthresh_
        cwnd == CASE "CLOSE_CWND_HALF" \in how -> half
                  [] "CLOSE_CWND_ECNHAT" \in how -> EcnhatWindow(a)
                  [] "CLOSE_CWND_RESTART" \in how -> CwndUnit
                  [] "CLOSE_CWND_ONE" \in how -> CwndUnit
    IN  [a EXCEPT !.ssthresh_ = Larger(ssthresh, 2),
                  !.cwnd_ = Larger(cwnd, CwndUnit),
                  !.count_ = 0]

\* TcpAgent::ecn: one cut for each window that came back marked, or any after a timeout.
ecn(a, seqno) ==
    IF seqno > a.recover_ \/ a.last_cwnd_action_ = "TIMEOUT"
    THEN slowdown([a EXCEPT !.recover_ = a.maxseq_, !.last_cwnd_action_ = "ECN"],
                  {"CLOSE_CWND_ECNHAT", "CLOSE_SSTHRESH_ECNHAT"})
    ELSE a

\* TcpAgent::update_ecnhat_alpha.
Acked(a, p) == IF p.ackno > a.highest_ack_ THEN p.ackno - a.highest_ack_ ELSE MaxSeg
Counted(a, p) ==
    [a EXCEPT !.ecnhat_total = @ + Acked(a, p),
              !.ecnhat_num_marked = IF p.ecnecho THEN @ + Acked(a, p) ELSE @]
NewAlpha(a) ==
    ((GDivisor - 1) * a.ecnhat_alpha_ * a.ecnhat_total + AlphaUnit * a.ecnhat_num_marked)
        \div (GDivisor * a.ecnhat_total)
update_ecnhat_alpha(a, p) ==
    LET b == Counted(a, p)
    IN  IF p.ackno > a.ecnhat_recalc_seq
        THEN [b EXCEPT !.ecnhat_alpha_ = NewAlpha(b),
                       !.ecnhat_recalc_seq = a.ecnhat_maxseq,
                       !.ecnhat_num_marked = 0,
                       !.ecnhat_total = 0]
        ELSE b

\* TcpAgent::reset, as far as FullTcpAgent::reset does not set the same again.  What
\* DCTCP has learnt stays.
TcpReset(a) ==
    [a EXCEPT !.dupacks_ = 0, !.curseq_ = 0, !.cwnd_ = initial_window(a),
              !.highest_ack_ = -1, !.ssthresh_ = a.wnd_, !.recover_ = 0,
              !.last_cwnd_action_ = "NONE", !.rtx_timer_ = FALSE]
=============================================================================
