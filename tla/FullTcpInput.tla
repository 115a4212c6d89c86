---------------------------- MODULE FullTcpInput ----------------------------
(***************************************************************************)
(* The receiving half of SackFullTcpAgent: recv, split into the parts its  *)
(* labels and cases make, and the timers.  A part is an operator from      *)
(* agent and packet to agent.  What recv decides and passes on to its end  *)
(* (needoutput, dupseg, drop) is in the fields of r below.                 *)
(***************************************************************************)
EXTENDS FullTcpOutput

CONSTANT DupThresh \* tcprexmtthresh_

ASSUME InputAssumption == DupThresh \in Nat \ {0}

\* A recv under way: the agent, the packet as trimmed so far, the state before it, and
\* whether the output at the end is due, the packet was an old one, and the rest skipped.
Receiving(a, p) ==
    [agent |-> a, pkt |-> p, last_state_ |-> a.state_, needoutput |-> FALSE,
     dupseg |-> FALSE, drop |-> FALSE]
With(r, a) == [r EXCEPT !.agent = a]
Dropped(r, a) == [r EXCEPT !.agent = a, !.drop = TRUE]
Has(p, flag) == flag \in p.flags

AckNow(a) == [a EXCEPT !.flags_ = @ \union {"ACKNOW"}]
\* The delayed ACK.
SetDelack(a) == [a EXCEPT !.flags_ = @ \union {"DELACK"}, !.delack_timer_ = TRUE]

\* The labels dropafterack and dropwithreset.
DropAfterAck(r) == Dropped(r, send_much(AckNow(r.agent), TRUE))
DropWithReset(r) ==
    LET p == r.pkt
        ack == p.seqno + p.datalen - (IF Has(p, "SYN") THEN 1 ELSE 0)
    IN  Dropped(r, IF Has(p, "ACK") THEN sendpacket(r.agent, p.ackno, 0, {}, 0)
                   ELSE sendpacket(r.agent, 0, ack, {"ACK"}, 0))
-----------------------------------------------------------------------------
\* The DCTCP receiver: the CE state follows the packets received, a transition is
\* noted.  (The mutant notes no transition.)
CeStateOnly(a, p) ==
    IF p.ect /\ (p.ce \/ p.datalen > 0) THEN [a EXCEPT !.recent_ce_ = p.ce] ELSE a
CeState(a, p) ==
    IF ecn_ /\ p.ect /\ (p.ce \/ p.datalen > 0)
    THEN [a EXCEPT !.ce_transition_ = p.ce # a.recent_ce_, !.recent_ce_ = p.ce]
    ELSE a

\* After a transition the data received before it is acknowledged at once, with the
\* CE state it came with.
AckBeforeTransition(a) ==
    IF ecn_ /\ a.ce_transition_ /\ a.rcv_nxt_ - a.last_ack_sent_ > 0
    THEN [send_much([AckNow(a) EXCEPT !.recent_ce_ = ~@], TRUE) EXCEPT !.recent_ce_ = ~@]
    ELSE a

\* FullTcpAgent::newack: timers and highest_ack_.
newack(a, p) ==
    LET highest == Larger(a.highest_ack_, p.ackno)
    IN  [a EXCEPT
            !.rtx_timer_ = p.ackno # a.maxseq_ /\ (@ \/ p.ackno > a.highest_ack_),
            !.highest_ack_ = highest,
            !.t_seqno_ = Larger(@, highest)]

\* The header prediction of recv: predict_ok, and the two cases it serves.
predict_ok(a, p) ==
    /\ a.state_ = "ESTABLISHED"
    /\ p.flags = {"ACK"}
    /\ "NEEDFIN" \notin a.flags_
    /\ p.seqno = a.rcv_nxt_
    /\ a.t_seqno_ = a.maxseq_
    /\ ~ecn_ \/ ~p.ecnecho
    /\ p.sack = {}
PureAckPredicted(a, p) ==
    /\ p.datalen = 0
    /\ p.ackno > a.highest_ack_ /\ p.ackno < a.maxseq_
    /\ a.cwnd_ >= a.wnd_ * CwndUnit
    /\ ~a.fastrecov_
RecvPureAck(a, p) == send_much(newack(a, p), FALSE)

DataPredicted(a, p) ==
    /\ p.datalen > 0
    /\ p.ackno = a.highest_ack_
    /\ a.rq_ = {} /\ a.rq_fin = -1
AckIfNeeded(a) == IF need_send(a) THEN send_much(a, TRUE) ELSE a
RecvData(a, p) ==
    AckIfNeeded(SetDelack([AckBeforeTransition(a) EXCEPT !.rcv_nxt_ = @ + p.datalen]))
-----------------------------------------------------------------------------
\* The SACK scoreboard: process_sack, and the part below highest_ack_ cleared.
process_sack(a, p) == [a EXCEPT !.sq_ = @ \union p.sack]
SackCleared(a) == {u \in a.sq_ : u >= a.highest_ack_}

\* SackFullTcpAgent::pack_action and ack_action.
pack(a, p) == a.fastrecov_ /\ p.ackno >= a.highest_ack_ /\ p.ackno < a.recover_
pack_action(a) ==
    [a EXCEPT !.sq_ = SackCleared(a), !.pipe_ = @ - MaxSeg,
              !.h_seqno_ = Larger(@, a.highest_ack_)]
ack_action(a) ==
    [a EXCEPT !.fastrecov_ = FALSE, !.pipectrl_ = FALSE, !.sq_ = SackCleared(a),
              !.dupacks_ = 0, !.h_seqno_ = Larger(@, a.highest_ack_)]

\* FullTcpAgent::fast_retransmit and SackFullTcpAgent::dupack_action: cut the window,
\* retransmit, and let the pipe govern what follows.
AfterRetransmit(seq, r) == send_much([r.agent EXCEPT !.h_seqno_ = seq + r.amt], FALSE)
fast_retransmit(a) ==
    AfterRetransmit(a.highest_ack_,
        foutput([slowdown(a, {"CLOSE_SSTHRESH_HALF", "CLOSE_CWND_HALF"}) EXCEPT
                    !.rtx_timer_ = FALSE, !.pipectrl_ = TRUE, !.recover_ = a.maxseq_,
                    !.last_cwnd_action_ = "DUPACK"],
                a.highest_ack_))
InFastRecovery(a) ==
    [a EXCEPT !.fastrecov_ = TRUE,
              !.pipe_ = a.maxseq_ - a.highest_ack_ - Cardinality(a.sq_)]
dupack_action(a) ==
    IF a.highest_ack_ > a.recover_ \/ (ecn_ /\ a.last_cwnd_action_ = "ECN")
    THEN fast_retransmit(InFastRecovery(a)) ELSE InFastRecovery(a)

\* An ACK that acknowledges nothing new: DupThresh such in a row retransmit.
OldAck(r) ==
    LET a == r.agent
        p == r.pkt
        b == [a EXCEPT !.dupacks_ = @ + 1]
    IN  CASE p.datalen > 0 \/ r.dupseg -> r
          [] ~a.rtx_timer_ \/ p.ackno < a.highest_ack_ -> With(r, [a EXCEPT !.dupacks_ = 0])
          [] b.dupacks_ = DupThresh -> Dropped(r, dupack_action(b))
          [] b.dupacks_ > DupThresh -> Dropped(r, send_much(b, FALSE))
          [] OTHER -> With(r, b)

\* The label process_ACK: new data is acknowledged, the window adapts.
Grown(a, p, last_state_, partial) ==
    IF last_state_ = "ESTABLISHED" /\ ~partial /\ (~a.ect_ \/ ~p.ecnecho \/ a.ecn_burst_)
    THEN opencwnd(a) ELSE a
Shrunk(a, p) == IF p.ecnecho /\ ~Has(p, "SYN") THEN ecn(a, a.highest_ack_) ELSE a
Adapted(r, a, partial) ==
    [r EXCEPT !.agent = [Grown(Shrunk(IF partial THEN pack_action(a) ELSE ack_action(a),
                                      r.pkt), r.pkt, r.last_state_, partial)
                         EXCEPT !.ecn_burst_ = IF a.ect_ THEN r.pkt.ecnecho ELSE @],
              !.needoutput = @ \/ r.pkt.ackno = a.maxseq_]
AfterNewAck(r) ==
    Adapted(r, newack(r.agent, r.pkt), pack(newack(r.agent, r.pkt), r.pkt))

\* Our FIN is acknowledged (the mutant takes any new ACK for it).
FinIsAckedEarly(r) ==
    LET a == r.agent
    IN  CASE a.state_ = "FIN_WAIT_1" ->
                [r EXCEPT !.agent = newstate(cancel_timers(a), "FIN_WAIT_2"),
                          !.needoutput = FALSE]
          [] a.state_ = "CLOSING" -> With(r, newstate(cancel_timers(a), "CLOSED"))
          [] a.state_ = "LAST_ACK" -> Dropped(r, reset(newstate(a, "CLOSED")))
          [] OTHER -> r
FinIsAcked(r) ==
    LET a == r.agent
    IN  CASE r.pkt.ackno # a.maxseq_ -> r
          [] r.pkt.ackno = a.maxseq_ /\ a.state_ = "FIN_WAIT_1" ->
                [r EXCEPT !.agent = newstate(cancel_timers(a), "FIN_WAIT_2"),
                          !.needoutput = FALSE]
          [] r.pkt.ackno = a.maxseq_ /\ a.state_ = "CLOSING" ->
                With(r, newstate(cancel_timers(a), "CLOSED"))
          [] r.pkt.ackno = a.maxseq_ /\ a.state_ = "LAST_ACK" ->
                Dropped(r, reset(newstate(a, "CLOSED")))
          [] OTHER -> r
ProcessAck(r) ==
    IF r.pkt.ackno > r.agent.maxseq_ THEN DropAfterAck(r)
    ELSE FinIsAcked(AfterNewAck(r))
-----------------------------------------------------------------------------
\* ReassemblyQueue::add and cleartonxt, with FullTcpAgent::reass: the data is queued,
\* what joins rcv_nxt_ is taken from the queue.  A FIN is at rq_fin.  (The mutant takes
\* all of the queue.)
ReassembledAll(a, p) ==
    LET queued == a.rq_ \union (p.seqno .. p.seqno + p.datalen - 1)
        next   == Larger(a.rcv_nxt_, Max(queued \union {0}) + 1)
    IN  IF p.seqno = a.rcv_nxt_
        THEN [agent |-> [a EXCEPT !.rcv_nxt_ = next, !.rq_ = {}], fin |-> Has(p, "FIN")]
        ELSE [agent |-> [a EXCEPT !.rq_ = queued], fin |-> FALSE]
Reassembled(a, p) ==
    LET queued == a.rq_ \union (p.seqno .. p.seqno + p.datalen - 1)
        fin    == IF Has(p, "FIN") THEN p.seqno + p.datalen ELSE a.rq_fin
        next   == Min({u \in a.rcv_nxt_ .. Larger(a.rcv_nxt_, Max(queued \union {0}) + 1) :
                          u \notin queued})
    IN  IF p.seqno = a.rcv_nxt_
        THEN [agent |-> [a EXCEPT !.rcv_nxt_ = next,
                                  !.rq_ = {u \in queued : u >= next},
                                  !.rq_fin = IF fin = next THEN -1 ELSE fin],
              fin |-> fin = next]
        ELSE [agent |-> [a EXCEPT !.rq_ = queued, !.rq_fin = fin], fin |-> FALSE]

\* The label step6: data in order, data out of order, and a FIN whose turn has come.
HaveRcvdFin(a) == a.state_ \in {"CLOSING", "CLOSED", "CLOSE_WAIT"}
RecvFin(a) ==
    LET b == [AckNow(a) EXCEPT !.rcv_nxt_ = @ + 1]
    IN  CASE a.state_ \in {"SYN_RECEIVED", "ESTABLISHED"} -> newstate(b, "CLOSE_WAIT")
          [] a.state_ = "FIN_WAIT_1" -> newstate(b, "CLOSING")
          [] a.state_ = "FIN_WAIT_2" -> newstate(cancel_timers(b), "CLOSED")
          [] OTHER -> b
InOrderData(r, a) ==
    [r EXCEPT !.agent = IF Has(r.pkt, "FIN") /\ ~HaveRcvdFin(a) THEN RecvFin(a) ELSE a,
              !.needoutput = need_send(a)]
OutOfOrderData(r, q) == With(r, IF q.fin THEN RecvFin(AckNow(q.agent)) ELSE AckNow(q.agent))
Step6(r) ==
    LET a == r.agent
        p == r.pkt
    IN  CASE HaveRcvdFin(a) \/ (p.datalen = 0 /\ ~Has(p, "FIN")) -> r
          [] p.seqno = a.rcv_nxt_ /\ a.rq_ = {} /\ a.rq_fin = -1 ->
                InOrderData(r, [SetDelack(AckBeforeTransition(a)) EXCEPT
                                    !.rcv_nxt_ = @ + p.datalen])
          [] OTHER -> OutOfOrderData(r, Reassembled(a, p))

\* The end of recv: output if it is due, and the passive side closes in turn.
CloseInTurn(a) ==
    IF a.state_ = "CLOSE_WAIT" /\ a.highest_ack_ = a.maxseq_ THEN usrclosed(a) ELSE a
OutputIfDue(a, due) ==
    IF due \/ a.curseq_ >= a.highest_ack_ THEN send_much(a, due) ELSE a
Output(r) ==
    CloseInTurn(OutputIfDue(r.agent, r.needoutput \/ "ACKNOW" \in r.agent.flags_))

Finish(r) == IF r.drop THEN r.agent ELSE Output(r)
ThenStep6(r) == IF r.drop THEN r ELSE Step6(r)
-----------------------------------------------------------------------------
\* trimthenstep6: a SYN takes a sequence number.
TrimSyn(r) ==
    LET s == [r EXCEPT !.pkt.seqno = @ + 1]
    IN  ThenStep6(IF Has(r.pkt, "ACK") THEN ProcessAck(s) ELSE s)

RecvListen(r) ==
    LET a == r.agent
        p == r.pkt
        b == [AckNow(a) EXCEPT !.t_seqno_ = iss_,
                               !.rcv_nxt_ = p.seqno + p.datalen + 1,
                               !.ect_ = @ \/ (ecn_ /\ p.ecnecho /\ p.cong_action),
                               !.state_ = "SYN_RECEIVED"]
    IN  CASE Has(p, "ACK") -> DropWithReset(r)
          [] ~Has(p, "ACK") /\ ~Has(p, "SYN") -> Dropped(r, a)
          [] OTHER -> TrimSyn(With(r, b))

RecvSynSent(r) ==
    LET a == r.agent
        p == r.pkt
        ece == ecn_ /\ p.ecnecho
        synced == [AckNow(a) EXCEPT !.rcv_nxt_ = p.seqno + p.datalen + 1]
        answered == [synced EXCEPT
            !.ect_ = @ \/ (ece /\ ~p.cong_action),
            !.recent_ce_ = @ \/ (ece /\ ~p.cong_action /\ p.ce),
            !.highest_ack_ = p.ackno,
            !.cwnd_ = initial_window(a),
            !.state_ = IF "NEEDFIN" \in a.flags_ THEN "FIN_WAIT_1" ELSE "ESTABLISHED",
            !.flags_ = @ \ {"NEEDFIN"}]
        crossed == [synced EXCEPT !.ect_ = @ \/ (ece /\ p.cong_action),
                                  !.rtx_timer_ = FALSE,
                                  !.state_ = "SYN_RECEIVED",
                                  !.t_seqno_ = @ - 1]
    IN  CASE Has(p, "ACK") /\ (p.ackno <= iss_ \/ p.ackno > a.maxseq_) -> DropWithReset(r)
          [] ~Has(p, "SYN") -> Dropped(r, a)
          [] Has(p, "ACK") /\ Has(p, "SYN") /\ p.ackno > iss_ /\ p.ackno <= a.maxseq_ ->
                TrimSyn(With(r, sendpacket(answered, a.t_seqno_, answered.rcv_nxt_,
                                           {"ACK"}, 0)))
          [] OTHER -> TrimSyn(With(r, crossed))

\* What was received before is cut off the packet; an old packet is answered.
Trimmed(r) ==
    LET p == r.pkt
        a == r.agent
        syn == Has(p, "SYN")
        seqno == IF syn THEN p.seqno + 1 ELSE p.seqno
        todrop == a.rcv_nxt_ - seqno
        old == todrop > p.datalen \/ (todrop = p.datalen /\ ~Has(p, "FIN"))
        cut == IF old THEN p.datalen ELSE todrop
    IN  IF a.rcv_nxt_ - p.seqno > 0 /\ (syn \/ p.datalen > 0)
        THEN [r EXCEPT
                !.pkt.seqno = seqno + cut,
                !.pkt.datalen = @ - cut,
                !.pkt.flags = (@ \ {"SYN"}) \ (IF old THEN {"FIN"} ELSE {}),
                !.agent = IF old THEN AckNow(a) ELSE a,
                !.dupseg = old]
        ELSE r

\* The ACK of our SYN-ACK establishes the connection.
Established(r) ==
    LET a == r.agent
        p == r.pkt
    IN  CASE a.state_ # "SYN_RECEIVED" -> r
          [] a.state_ = "SYN_RECEIVED" /\ (p.ackno < a.highest_ack_ \/ p.ackno > a.maxseq_) ->
                DropWithReset(r)
          [] OTHER -> With(r, [a EXCEPT
                        !.cwnd_ = initial_window(a),
                        !.state_ = IF "NEEDFIN" \in a.flags_ THEN "FIN_WAIT_1"
                                   ELSE "ESTABLISHED",
                        !.flags_ = @ \ {"NEEDFIN"}])

\* The CE state and the SACK of a packet, then its ACK.
Piped(a, p) ==
    IF a.fastrecov_ /\ (p.datalen = 0 \/ p.ackno > a.highest_ack_)
    THEN [a EXCEPT !.pipe_ = @ - MaxSeg] ELSE a
Sacked(a, p) == Piped(IF Synchronized(a) THEN process_sack(a, p) ELSE a, p)
OldOrNewAck(r) ==
    IF r.pkt.ackno <= r.agent.highest_ack_ THEN OldAck(r) ELSE ProcessAck(r)
RecvAck(r) ==
    IF r.drop THEN r ELSE OldOrNewAck(With(r, Sacked(CeState(r.agent, r.pkt), r.pkt)))

RecvTrimmed(r) ==
    CASE Has(r.pkt, "SYN") -> DropWithReset(r)
      [] ~Has(r.pkt, "SYN") /\ ~Has(r.pkt, "ACK") -> Dropped(r, r.agent)
      [] OTHER -> ThenStep6(RecvAck(Established(r)))
RecvConnected(r) ==
    IF r.agent.state_ = "LAST_ACK" /\ Has(r.pkt, "FIN") THEN Dropped(r, r.agent)
    ELSE RecvTrimmed(Trimmed(r))

\* The part of recv that header prediction did not serve.
RecvSlow(a, p) ==
    LET r == Receiving(a, p)
    IN  Finish(CASE a.state_ = "LISTEN" -> RecvListen(r)
                 [] a.state_ = "SYN_SENT" -> RecvSynSent(r)
                 [] OTHER -> RecvConnected(r))

\* FullTcpAgent::recv.  A packet that header prediction does not serve to the end is
\* seen by CeState twice.
RecvPredicted(a, p) ==
    CASE PureAckPredicted(a, p) -> RecvPureAck(a, p)
      [] DataPredicted(a, p) -> RecvData(a, p)
      [] OTHER -> RecvSlow(a, p)
RecvOpen(a, p) ==
    IF predict_ok(a, p) THEN RecvPredicted(CeState(a, p), p) ELSE RecvSlow(a, p)
recv(a, p) ==
    CASE a.state_ # "CLOSED" -> RecvOpen(IF ecn_ THEN update_ecnhat_alpha(a, p) ELSE a, p)
      [] a.state_ = "CLOSED" /\ Has(p, "FIN") -> send_much(AckNow(a), TRUE)
      [] OTHER -> a
-----------------------------------------------------------------------------
\* SackFullTcpAgent::timeout_action, and FullTcpAgent::timeout for the retransmission
\* and the delayed-ACK timer.
timeout_action(a) ==
    LET b == IF a.last_cwnd_action_ = "ECN" THEN slowdown(a, {"CLOSE_CWND_ONE"})
             ELSE slowdown([a EXCEPT !.last_cwnd_action_ = "TIMEOUT"],
                           {"CLOSE_SSTHRESH_HALF", "CLOSE_CWND_RESTART"})
        first == IF a.highest_ack_ < 0 THEN iss_ ELSE a.highest_ack_
    IN  [b EXCEPT !.recover_ = a.maxseq_, !.rtx_timer_ = TRUE, !.t_seqno_ = first,
                  !.ecnhat_recalc_seq = first, !.ecnhat_maxseq = first,
                  !.fastrecov_ = FALSE, !.dupacks_ = 0, !.sq_ = {}]

rtx_timeout(a) ==
    IF a.state_ = "LISTEN" THEN [a EXCEPT !.rtx_timer_ = FALSE]
    ELSE send_much(timeout_action(a), TRUE)

delack_timeout(a) ==
    LET b == [a EXCEPT !.delack_timer_ = FALSE]
    IN  IF a.state_ # "LISTEN" /\ "DELACK" \in a.flags_
        THEN send_much([AckNow(b) EXCEPT !.flags_ = @ \ {"DELACK"}], TRUE)
        ELSE b
=============================================================================
