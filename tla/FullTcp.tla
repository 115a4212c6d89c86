------------------------------ MODULE FullTcp -------------------------------
(***************************************************************************)
(* A connection between two SackFullTcpAgents with DCTCP over a network    *)
(* that delays, marks, loses and reorders packets.  ns-2 runs one handler  *)
(* at a time, so a handler with all it sends is one step.                  *)
(***************************************************************************)
EXTENDS FullTcpInput

\* What a simulation script sets: wnd_, wnd_init_ and segs_per_ack_ of both ends; the
\* lengths of the flows each end sends, in sequence numbers; how the sender closes, by the
\* user at any time ("user") or when the flows are through ("done"), by MSG_EOF ("empty"),
\* or not at all ("never"); how many packets the network may mark and lose and how many
\* a packet may overtake; and how many retransmission timeouts may come early, while
\* packets or a delayed ACK are under way, or once more at an end before the other end's
\* timer expires.
CONSTANT Setups

ASSUME SetupsAssumption ==
    Setups \subseteq [wnd : Nat \ {0}, wnd_init : Nat \ {0}, segs_per_ack : Nat,
                      flows : [Agents -> Seq(Nat \ {0})],
                      close_by : {"user", "done", "empty", "never"},
                      marks : Nat, losses : Nat, overtaken : Nat, early : Nat]

VARIABLES
    setup,   \* what the script chose
    agent,   \* agent[n]: the FullTcpAgent of end n
    net,     \* net[n]: packets on their way to n
    flows,   \* flows[n]: flows n has still to send
    closing, \* the sender has not yet been closed
    marked, lost, early, \* how often the network marked, lost, a timer fired early
    timedOut, \* the end whose timer expired last
    arrived, \* history: arrived[n]: the data that has reached n
    ceAt     \* history: the data that reached the receiver with a CE mark

vars == <<setup, agent, net, flows, closing, marked, lost, early, timedOut, arrived, ceAt>>
-----------------------------------------------------------------------------
Init ==
    /\ setup \in Setups
    /\ LET new == NewAgent(setup.wnd, setup.wnd_init, setup.segs_per_ack)
       IN  agent = [sender |-> new, receiver |-> newstate(new, "LISTEN")]
    /\ net = [n \in Agents |-> <<>>]
    /\ flows = setup.flows
    /\ closing = TRUE
    /\ marked = 0
    /\ lost = 0
    /\ early = 0
    /\ timedOut = "receiver"
    /\ arrived = [n \in Agents |-> {}]
    /\ ceAt = {}

\* End n becomes a, its packets are under way; the network to n becomes rest.  What is
\* in the pipe is read in recovery only.
Becomes(n, a, rest) ==
    /\ agent' = [agent EXCEPT ![n] =
                    [a EXCEPT !.out = <<>>,
                              !.pipe_ = IF a.fastrecov_ \/ a.pipectrl_ THEN @ ELSE 0]]
    /\ net' = [net EXCEPT ![n] = rest, ![Peer(n)] = @ \o a.out]

\* FullTcpAgent::sendmsg: the application of n has a flow to send; done_data is called
\* when it is through (DAT_EOF).
Idle(n) == agent[n].highest_ack_ = agent[n].maxseq_
Send(n) ==
    /\ flows[n] # <<>>
    /\ Idle(n)
    /\ flows' = [flows EXCEPT ![n] = Tail(@)]
    /\ LET eof == n = "sender" /\ setup.close_by = "empty" /\ Len(flows[n]) = 1
       IN  Becomes(n, advance_bytes([agent[n] EXCEPT
                                        !.signal_on_empty_ = TRUE,
                                        !.close_on_empty_ = @ \/ eof,
                                        !.done_data = FALSE],
                                    Head(flows[n])), net[n])
    /\ UNCHANGED <<setup, closing, marked, lost, early, timedOut, arrived, ceAt>>

\* FullTcpAgent::usrclosed by the application.
MayClose ==
    /\ closing
    /\ flows["sender"] = <<>>
    /\ setup.close_by = "user" \/ (setup.close_by = "done" /\ agent["sender"].done_data)
Close ==
    /\ MayClose
    /\ closing' = FALSE
    /\ Becomes("sender", usrclosed(agent["sender"]), net["sender"])
    /\ UNCHANGED <<setup, flows, marked, lost, early, timedOut, arrived, ceAt>>

\* FullTcpAgent::recv of one of the next packets, marked by a switch on its way or not.
Deliver(n, i, ce) ==
    /\ i \in 1 .. Smaller(Len(net[n]), setup.overtaken + 1)
    /\ ce => net[n][i].ect /\ marked < setup.marks
    /\ LET p == net[n][i]
           a == recv(agent[n], [p EXCEPT !.ce = ce])
           data == p.seqno .. p.seqno + p.datalen - 1
       IN  /\ Becomes(n, a, [j \in 1 .. Len(net[n]) - 1 |->
                                IF j < i THEN net[n][j] ELSE net[n][j + 1]])
           /\ arrived' = [arrived EXCEPT ![n] = @ \union data]
           /\ ceAt' = IF n = "receiver" /\ ce THEN ceAt \union data ELSE ceAt
    /\ marked' = IF ce THEN marked + 1 ELSE marked
    /\ UNCHANGED <<setup, flows, closing, lost, early, timedOut>>

\* The network loses a packet.
Lose(n) ==
    /\ lost < setup.losses
    /\ net[n] # <<>>
    /\ net' = [net EXCEPT ![n] = Tail(@)]
    /\ lost' = lost + 1
    /\ UNCHANGED <<setup, agent, flows, closing, marked, early, timedOut, arrived, ceAt>>

\* RtxTimer: when nothing is under way, no delayed ACK either, and the other end's timer
\* had its turn, or early.
Due(n) ==
    /\ \A m \in Agents : net[m] = <<>>
    /\ ~agent[Peer(n)].delack_timer_
    /\ timedOut # n \/ ~agent[Peer(n)].rtx_timer_
RtxTimeout(n) ==
    /\ agent[n].rtx_timer_
    /\ Due(n) \/ early < setup.early
    /\ early' = IF Due(n) THEN early ELSE early + 1
    /\ timedOut' = n
    /\ Becomes(n, rtx_timeout(agent[n]), net[n])
    /\ UNCHANGED <<setup, flows, closing, marked, lost, arrived, ceAt>>

\* DelAckTimer.
DelackTimeout(n) ==
    /\ agent[n].delack_timer_
    /\ Becomes(n, delack_timeout(agent[n]), net[n])
    /\ UNCHANGED <<setup, flows, closing, marked, lost, early, timedOut, arrived, ceAt>>

Next ==
    \/ \E n \in Agents : Send(n)
    \/ Close
    \/ \E n \in Agents, i \in 1 .. setup.overtaken + 1, ce \in BOOLEAN : Deliver(n, i, ce)
    \/ \E n \in Agents : Lose(n)
    \/ \E n \in Agents : RtxTimeout(n)
    \/ \E n \in Agents : DelackTimeout(n)

Spec == Init /\ [][Next]_vars

\* The scheduler of ns-2 runs every event that is due: packets arrive, timers expire,
\* the applications do what they have to.  This is weak fairness; the guards are
\* written out in place of ENABLED, which TLC is slow to find for handlers this long.
Fairness ==
    /\ \A n \in Agents :
        /\ []<>~(flows[n] # <<>> /\ Idle(n)) \/ []<><<Send(n)>>_vars
        /\ []<>(net[n] = <<>>) \/ []<><<\E ce \in BOOLEAN : Deliver(n, 1, ce)>>_vars
        /\ []<>~(agent[n].rtx_timer_ /\ Due(n)) \/ []<><<RtxTimeout(n)>>_vars
        /\ []<>~agent[n].delack_timer_ \/ []<><<DelackTimeout(n)>>_vars
    /\ []<>~MayClose \/ []<><<Close>>_vars

FairSpec == Spec /\ Fairness
-----------------------------------------------------------------------------
\* An end counts as received (highest_ack_ and the scoreboard sq_, from ACKs and SACKs)
\* only data that has reached the other end, and when it is told that its flow is through
\* (bufferempty calls done_data), all of it has.
AcksAreTrue ==
    \A n \in Agents :
        LET a == agent[n]
            data == 1 .. a.curseq_
        IN  /\ (1 .. a.highest_ack_ - 1) \intersect data \subseteq arrived[Peer(n)]
            /\ a.sq_ \subseteq arrived[Peer(n)]
            /\ a.done_data => data \subseteq arrived[Peer(n)]

\* An end with something unacknowledged has its retransmission timer set, and one that has
\* received data and not acknowledged it has a delayed ACK coming: no sequence of ACKs,
\* recoveries, timeouts and closes leaves it waiting for nothing.
RtxIsArmed ==
    \A n \in Agents :
        /\ agent[n].state_ \notin {"CLOSED", "LISTEN"}
        /\ agent[n].highest_ack_ < agent[n].maxseq_
        => agent[n].rtx_timer_

DelackIsArmed ==
    \A n \in Agents :
        /\ agent[n].state_ = "ESTABLISHED"
        /\ agent[n].rcv_nxt_ > agent[n].last_ack_sent_
        => agent[n].delack_timer_
TimersArmed == RtxIsArmed /\ DelackIsArmed

\* What is outstanding never exceeds the receiver's window and a FIN, in recovery
\* neither.
WithinReceiverWindow ==
    \A n \in Agents :
        agent[n].highest_ack_ >= 0 =>
            agent[n].maxseq_ <= agent[n].highest_ack_ + agent[n].wnd_ * MaxSeg + 1

\* Every ACK on its way to the sender carries an ECN echo exactly if the data it newly
\* acknowledges came with CE marks (the state machine of recent_ce_ and ce_transition_).
EchoesMatchMarks ==
    \A i \in DOMAIN net["sender"] :
        LET p == net["sender"][i]
            prev == IF i = 1 THEN agent["sender"].highest_ack_ ELSE net["sender"][i - 1].ackno
        IN  "SYN" \notin p.flags =>
                \A u \in Larger(prev, iss_ + 1) .. p.ackno - 1 : (u \in ceAt) = p.ecnecho

\* So it is on a path that neither loses nor reorders, with data in one direction and no
\* timeout before its time.
InOrder == setup.losses = 0 /\ setup.overtaken = 0 /\ setup.early = 0
EchoIsExact == InOrder /\ setup.flows["receiver"] = <<>> => EchoesMatchMarks

\* Every flow gets through although packets are lost: its sender is told so, unless the
\* user closes before.  A sender that closes when its flows are through, or by MSG_EOF on
\* an open connection, gets both ends closed.
Through(n) == flows[n] = <<>> /\ (setup.flows[n] # <<>> => agent[n].done_data)
FlowsComplete ==
    <>[](\A n \in Agents :
             /\ setup.close_by # "user" => Through(n)
             /\ setup.close_by \in {"done", "empty"} => agent[n].state_ = "CLOSED")
=============================================================================
