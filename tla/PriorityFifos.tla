--------------------------- MODULE PriorityFifos ----------------------------
(***************************************************************************)
(* What every qdisc and every ns-2 queue of the project promises, however  *)
(* it schedules within a priority, polices its rate or marks: a port of    *)
(* FIFOs that loses no packet it has accepted, keeps the packets of a      *)
(* class in order, never takes a mark away, sends the packet it accounts   *)
(* for, and serves a class only when those of a smaller rank are empty.    *)
(* The rank of a class is settled when it gets packets and stays while it  *)
(* has any.                                                                *)
(***************************************************************************)
EXTENDS Integers, Sequences, Functions

CONSTANTS
    Classes,
    SizeOf(_),    \* the bytes a packet is accounted for with
    Nothing       \* out when no packet was sent

VARIABLES
    fifo,         \* per class, the packets accepted and not sent
    rank,         \* per class, its rank: the smallest is served first
    out           \* the class, the size and the mark of the packet sent last

vars == <<fifo, rank, out>>

Init ==
    /\ fifo = [c \in Classes |-> <<>>]
    /\ rank \in [Classes -> Int]
    /\ out = Nothing

Waiting == {c \in Classes : fifo[c] # <<>>}

Accept(c) ==
    /\ \E pkt \in Range(fifo'[c]) : fifo' = [fifo EXCEPT ![c] = Append(@, pkt)]
    /\ rank' = IF c \in Waiting THEN rank ELSE [rank EXCEPT ![c] = rank'[c]]
    /\ UNCHANGED out

Send(c) ==
    /\ c \in Waiting
    /\ \A d \in Waiting : rank[c] <= rank[d]
    /\ fifo' = [fifo EXCEPT ![c] = Tail(@)]
    /\ \E ce \in {Head(fifo[c]).ce, TRUE} :
           out' = [queue |-> c, size |-> SizeOf(Head(fifo[c])), ce |-> ce]
    /\ UNCHANGED rank

\* The port has nothing to send, or may not send it yet.
Rest == out' = Nothing /\ UNCHANGED <<fifo, rank>>

Next == \/ \E c \in Classes : Accept(c) \/ Send(c)
        \/ Rest

Spec == Init /\ [][Next]_vars
=============================================================================
