--------------------------- MODULE FullTcpOutput ----------------------------
(***************************************************************************)
(* The sending half of SackFullTcpAgent: which segment is next, whether it *)
(* may go, what its header says, and what is noted of it.  Packets sent in *)
(* a handler are collected in the field out of the agent.                  *)
(***************************************************************************)
EXTENDS TcpAgent, FiniteSetsExt

CONSTANT iss_ \* the initial sequence number

ASSUME OutputAssumption == iss_ = 0

\* The agents of a connection.
Agents == {"sender", "receiver"}
Peer(n) == IF n = "sender" THEN "receiver" ELSE "sender"

\* The order of the states, as in the code.
States == <<"CLOSED", "LISTEN", "SYN_SENT", "SYN_RECEIVED", "ESTABLISHED",
            "CLOSE_WAIT", "FIN_WAIT_1", "CLOSING", "LAST_ACK", "FIN_WAIT_2">>
StateNo(s) == CHOOSE i \in DOMAIN States : States[i] = s
Synchronized(a) == StateNo(a.state_) >= StateNo("ESTABLISHED")
Closing(a) == StateNo(a.state_) >= StateNo("FIN_WAIT_1")

\* A new agent: FullTcpAgent, TcpAgent and SackFullTcpAgent constructors, and reset.  The
\* script binds the receiver's window wnd_ and the initial window wnd_init_, in segments,
\* and segs_per_ack_, the segments received per ACK (zero: any data received).
NewAgent(wnd, wnd_init, segs_per_ack) ==
    [wnd_ |-> wnd, wnd_init_ |-> wnd_init, segs_per_ack_ |-> segs_per_ack,
     state_ |-> "CLOSED", flags_ |-> {}, ect_ |-> FALSE,
     rcv_nxt_ |-> -1, last_ack_sent_ |-> -1, rq_ |-> {}, rq_fin |-> -1,
     recent_ce_ |-> FALSE, ce_transition_ |-> FALSE, ecn_burst_ |-> FALSE,
     t_seqno_ |-> iss_, maxseq_ |-> -1, highest_ack_ |-> -1, curseq_ |-> 0,
     cwnd_ |-> wnd_init * CwndUnit, ssthresh_ |-> wnd, count_ |-> 0, dupacks_ |-> 0,
     recover_ |-> 0, last_cwnd_action_ |-> "NONE", fastrecov_ |-> FALSE,
     pipectrl_ |-> FALSE, pipe_ |-> 0, h_seqno_ |-> -1, sq_ |-> {},
     ecnhat_alpha_ |-> InitAlpha, ecnhat_total |-> 0, ecnhat_num_marked |-> 0,
     ecnhat_recalc_seq |-> 0, ecnhat_maxseq |-> 0,
     rtx_timer_ |-> FALSE, delack_timer_ |-> FALSE,
     signal_on_empty_ |-> FALSE, close_on_empty_ |-> FALSE, done_data |-> FALSE, out |-> <<>>]

newstate(a, s) == [a EXCEPT !.state_ = s]
cancel_timers(a) == [a EXCEPT !.rtx_timer_ = FALSE, !.delack_timer_ = FALSE]

\* FullTcpAgent::reset and SackFullTcpAgent::reset: recent_ce_, ect_, pipectrl_ and
\* the counters of DCTCP survive.
reset(a) ==
    [cancel_timers(TcpReset(a)) EXCEPT
        !.sq_ = {}, !.h_seqno_ = -1, !.rq_ = {}, !.rq_fin = -1, !.last_ack_sent_ = -1,
        !.rcv_nxt_ = -1, !.pipe_ = 0, !.flags_ = {}, !.t_seqno_ = iss_,
        !.maxseq_ = -1, !.fastrecov_ = FALSE, !.close_on_empty_ = FALSE]

outflags(a) ==
    CASE a.state_ = "LISTEN" -> {}
      [] a.state_ = "SYN_SENT" -> {"SYN"}
      [] a.state_ = "SYN_RECEIVED" -> {"SYN", "ACK"}
      [] a.state_ \in {"FIN_WAIT_1", "CLOSING", "LAST_ACK"} -> {"FIN", "ACK"}
      [] OTHER -> {"ACK"}

\* need_send: the diffserv copy acknowledges every segs_per_ack_ segments, the scheduling
\* copy any new data.
need_send(a) ==
    LET unacked == a.rcv_nxt_ - a.last_ack_sent_
    IN  \/ "ACKNOW" \in a.flags_
        \/ IF a.segs_per_ack_ = 0 THEN unacked > 0
           ELSE unacked >= a.segs_per_ack_ * MaxSeg

\* FullTcpAgent::sendpacket: with ecnhat_ every packet carries ECT.
sendpacket(a, seqno, ackno, pflags, datalen) ==
    LET p == [seqno |-> seqno, ackno |-> ackno, datalen |-> datalen,
              flags |-> pflags \ {"ECE", "CWR"},
              ecnecho |-> "ECE" \in pflags \/ (ecn_ /\ a.ect_ /\ a.recent_ce_),
              cong_action |-> "CWR" \in pflags,
              ect |-> ecn_ /\ a.ect_,
              ce |-> FALSE,
              sack |-> a.rq_]
    IN  [a EXCEPT !.out = Append(@, p), !.last_ack_sent_ = ackno]

\* The length of the segment at seqno, and whether it is the last of the buffer.
Buffered(a) == a.curseq_ - (IF a.highest_ack_ < 0 THEN iss_ ELSE a.highest_ack_ - 1)
Offset(a, seqno) == seqno - (IF a.highest_ack_ < 0 THEN iss_ ELSE a.highest_ack_)
DataLen(a, seqno) ==
    IF seqno = iss_ THEN 0
    ELSE Larger(0, Smaller(Smaller(Buffered(a),
                                   IF a.pipectrl_ THEN Buffered(a) ELSE window(a) * MaxSeg)
                           - Offset(a, seqno), MaxSeg))
EmptiesBuffer(a, seqno, datalen) ==
    seqno + datalen > a.curseq_ \/ (seqno = iss_ /\ datalen = 0)

\* The buffer ran empty and MSG_EOF asked for a FIN then.
ClosesNow(a, seqno, datalen) ==
    /\ a.close_on_empty_
    /\ EmptiesBuffer(a, seqno, datalen)
    /\ seqno # iss_
    /\ a.highest_ack_ = a.maxseq_

\* The flags of the packet: a FIN only with the last data, ECN set up by SYNs.
PacketFlags(a, seqno, datalen) ==
    LET setup == CASE ~ecn_ \/ a.state_ \notin {"SYN_SENT", "SYN_RECEIVED"} -> {}
                   [] ecn_ /\ a.state_ = "SYN_SENT" -> {"ECE", "CWR"}
                   [] ecn_ /\ a.state_ = "SYN_RECEIVED" -> {"ECE"}
        fin == IF /\ ClosesNow(a, seqno, datalen)
                  /\ ~Closing(a) /\ a.state_ \notin {"CLOSED", "CLOSE_WAIT"}
               THEN {"FIN"} ELSE {}
    IN  (outflags(a) \ IF EmptiesBuffer(a, seqno, datalen) THEN {} ELSE {"FIN"})
            \union setup \union fin

\* What the call changes besides sending: done_data is called, a FIN not due by the
\* state closes.
Signalled(a, seqno) ==
    IF a.signal_on_empty_ /\ seqno # iss_ /\ Buffered(a) = 0
    THEN [a EXCEPT !.signal_on_empty_ = FALSE, !.done_data = TRUE]
    ELSE a
Closed(a, pflags) ==
    IF "FIN" \in pflags \ outflags(a) THEN newstate(a, "FIN_WAIT_1") ELSE a

WorthSending(a, seqno, datalen, pflags) ==
    \/ datalen > 0 /\ (\/ datalen = MaxSeg
                       \/ EmptiesBuffer(a, seqno, datalen)
                       \/ seqno < a.maxseq_
                       \/ 2 * datalen >= a.wnd_ * MaxSeg)
    \/ need_send(a)
    \/ ClosesNow(a, seqno, datalen)
    \/ pflags \intersect {"SYN", "FIN"} # {}

\* The bookkeeping of a packet that takes the sequence numbers up to highest.
Noted(a, highest, timed) ==
    [a EXCEPT !.flags_ = @ \ {"ACKNOW", "DELACK"},
              !.delack_timer_ = FALSE,
              !.ecnhat_maxseq = Larger(@, highest),
              !.maxseq_ = Larger(@, highest),
              !.rtx_timer_ = @ \/ timed]

\* FullTcpAgent::foutput: send one segment or ACK if there is a reason to.  Gives the
\* agent and how many sequence numbers were sent.  (The retransmission timer of the
\* mutant is set for data only.)
TakesUp(datalen, pflags) == datalen + Cardinality(pflags \intersect {"SYN", "FIN"})
EmitTimeData(a, b, seqno, datalen, pflags) ==
    IF WorthSending(a, seqno, datalen, pflags)
    THEN [agent |-> Noted(sendpacket(b, seqno, a.rcv_nxt_, pflags, datalen),
                          seqno + TakesUp(datalen, pflags), datalen > 0),
          amt |-> TakesUp(datalen, pflags)]
    ELSE [agent |-> b, amt |-> 0]
Emit(a, b, seqno, datalen, pflags) ==
    IF WorthSending(a, seqno, datalen, pflags)
    THEN [agent |-> Noted(sendpacket(b, seqno, a.rcv_nxt_, pflags, datalen),
                          seqno + TakesUp(datalen, pflags), TakesUp(datalen, pflags) > 0),
          amt |-> TakesUp(datalen, pflags)]
    ELSE [agent |-> b, amt |-> 0]
EmitFlagged(a, seqno, datalen, pflags) ==
    Emit(a, Closed(Signalled(a, seqno), pflags), seqno, datalen, pflags)
EmitSegment(a, seqno, datalen) ==
    EmitFlagged(a, seqno, datalen, PacketFlags(a, seqno, datalen))
foutput(a, seqno) == EmitSegment(a, seqno, DataLen(a, seqno))

\* ReassemblyQueue::nexthole: the first number from seq on that no SACK covered, if a
\* SACK covered anything from there on; else -1.
nexthole(a, seq) ==
    IF \E u \in a.sq_ : u >= seq - 1
    THEN Min({u \in seq .. Larger(seq, Max(a.sq_) + 1) : u \notin a.sq_})
    ELSE -1

\* SackFullTcpAgent::nxt_tseq: in recovery the next hole, else the next new segment.
NextAt(a, hole) ==
    IF hole > 0 THEN [agent |-> [a EXCEPT !.h_seqno_ = Larger(@, hole)], seq |-> hole]
    ELSE [agent |-> a, seq |-> a.t_seqno_]
nxt_tseq(a) ==
    NextAt(a, IF a.highest_ack_ < a.recover_ THEN nexthole(a, a.h_seqno_) ELSE -1)

\* SackFullTcpAgent::send_allowed: the window, or in recovery what is in the pipe.
send_allowed(a, seq) ==
    IF a.pipectrl_
    THEN /\ seq < a.highest_ack_ + a.wnd_ * MaxSeg
         /\ a.state_ = "ESTABLISHED" \/ seq <= a.curseq_
         /\ a.pipe_ < (a.cwnd_ \div CwndUnit) * MaxSeg
    ELSE seq < Smaller(a.curseq_, a.highest_ack_ + window(a) * MaxSeg)

\* SackFullTcpAgent::sent and FullTcpAgent::sent.
sent(a, seq, amt) ==
    [a EXCEPT !.h_seqno_ = IF seq = @ THEN @ + amt ELSE @,
              !.t_seqno_ = IF seq = @ THEN @ + amt ELSE @,
              !.pipe_ = @ + amt]

\* FullTcpAgent::send_much: segments while the window lets them go, the first of them
\* in any case if force is set.  A FIN is sent but not counted.
RECURSIVE send_much(_, _)
SendOn(a) == IF outflags(a) \intersect {"SYN", "FIN"} # {} THEN a ELSE send_much(a, FALSE)
AfterSegment(seq, r) ==
    IF r.amt = 0 THEN r.agent
    ELSE SendOn(sent(r.agent, seq,
                     IF "FIN" \in outflags(r.agent) THEN r.amt - 1 ELSE r.amt))
SendNext(next, force) ==
    IF force \/ send_allowed(next.agent, next.seq)
    THEN AfterSegment(next.seq, foutput(next.agent, next.seq))
    ELSE next.agent
send_much(a, force) == SendNext(nxt_tseq(a), force)

\* FullTcpAgent::connect, usrclosed and advance_bytes.
SentAll(seq, r) == sent(r.agent, seq, r.amt)
connect(a) == SentAll(iss_, foutput(newstate(a, "SYN_SENT"), iss_))

\* The state usrclosed goes to with a FIN.
ClosingState(a) ==
    CASE a.state_ = "SYN_SENT" -> "CLOSED"
      [] a.state_ \in {"SYN_RECEIVED", "ESTABLISHED"} -> "FIN_WAIT_1"
      [] a.state_ \in {"CLOSE_WAIT", "LAST_ACK"} -> "LAST_ACK"
usrclosed(a) ==
    CASE a.state_ \in {"CLOSED", "LISTEN"} ->
            [newstate(cancel_timers(a), "CLOSED") EXCEPT !.curseq_ = a.maxseq_ - 1]
      [] a.state_ \in {"SYN_SENT", "SYN_RECEIVED", "ESTABLISHED", "CLOSE_WAIT",
                       "LAST_ACK"} ->
            send_much([newstate(a, ClosingState(a)) EXCEPT
                            !.curseq_ = a.maxseq_ - 1, !.flags_ = @ \union {"NEEDFIN"}],
                      TRUE)
      [] OTHER -> [a EXCEPT !.curseq_ = a.maxseq_ - 1]

advance_bytes(a, nb) ==
    CASE a.state_ \in {"CLOSED", "LISTEN"} ->
            connect([reset(a) EXCEPT !.cwnd_ = initial_window(a), !.curseq_ = iss_ + nb])
      [] a.state_ = "ESTABLISHED" ->
            send_much([a EXCEPT !.cwnd_ = initial_window(a), !.curseq_ = @ + nb], FALSE)
      [] a.state_ \in {"SYN_SENT", "SYN_RECEIVED"} ->
            [a EXCEPT !.cwnd_ = initial_window(a), !.curseq_ = @ + nb]
      [] OTHER -> [a EXCEPT !.cwnd_ = initial_window(a)]
=============================================================================
