---------------------------- MODULE MCNs2Queues -----------------------------
(***************************************************************************)
(* The setups TLC tries: packets of at most three bytes, buffers of a few  *)
(* packets, shares of which one is half of the others.                     *)
(***************************************************************************)
EXTENDS Ns2Queues

\* The first of n shares is small, the others twice as large.
Shares(first, n, small) == [c \in first .. n - 1 |-> IF c = first THEN small ELSE 2 * small]

Base(name, n, np, scheme) ==
    [class |-> name, queue_num_ |-> n, prio_queue_num_ |-> np, qlim_ |-> 4, port_thresh_ |-> 2,
     thresh |-> [c \in 0 .. n - 1 |-> 1], marking_scheme_ |-> scheme, dq_thresh_ |-> 5,
     deque_marking_ |-> FALSE, sizes |-> {1, 2}, prios |-> 0 .. n - 1, ects |-> {TRUE},
     shares |-> Shares(np, n, 1), changes |-> {}, estimate_alpha |-> 1, tick_alpha |-> 2,
     estimate_interval |-> 2, enable_timer |-> FALSE, round_alpha |-> 4, idle_interval |-> 1,
     unit |-> 4, until |-> 4]

\* MQ-ECN by the round time.
ByRounds(s) == [s EXCEPT !.round_alpha = 0, !.idle_interval = 2, !.unit = 1, !.qlim_ = 3,
                         !.until = 5]

\* Marks at deque.
AtDeque(s) == [s EXCEPT !.deque_marking_ = TRUE, !.qlim_ = 3]

\* The script changes the shares at any time, and the buffer is small.
Changing(s, shares) == [s EXCEPT !.changes = shares, !.ects = {FALSE}, !.until = 2]

ByStaticThresh(scheme) ==
    [Base("Priority", 2, 2, scheme)
        EXCEPT !.port_thresh_ = 1, !.dq_thresh_ = 2, !.prios = {-1, 0}, !.qlim_ = 3,
               !.ects = IF scheme = "latency" THEN BOOLEAN ELSE {TRUE}]

MCSetups ==
    << \* the active list with packets of three quanta
      [Changing(Base("DWRR", 2, 0, "queue"), {1}) EXCEPT !.sizes = {1, 3}],
      ByRounds(Base("DWRR", 2, 0, "rr")),
      \* the sum of the quanta, updated by deque, or by the timer, with marks at deque too
      [Base("DWRR", 2, 0, "gener") EXCEPT !.until = 3],
      AtDeque([Base("DWRR", 2, 0, "gener") EXCEPT !.until = 3]),
      AtDeque([Base("DWRR", 2, 0, "gener") EXCEPT !.enable_timer = TRUE, !.until = 3]),
      AtDeque(ByRounds(Base("DWRR", 2, 0, "rr"))),
      [Base("PRIO_DWRR", 3, 1, "gener") EXCEPT !.until = 3, !.qlim_ = 3],
      [Changing(Base("PRIO_DWRR", 3, 1, "gener"), {1})
          EXCEPT !.enable_timer = TRUE, !.qlim_ = 2],
      [Changing(Base("WRR", 2, 0, "queue"), {2}) EXCEPT !.shares = Shares(0, 2, 2)],
      [ByRounds(Base("WRR", 2, 0, "rr")) EXCEPT !.shares = Shares(0, 2, 2)],
      [Base("WFQ", 2, 0, "gener") EXCEPT !.until = 3],
      [Changing(Base("WFQ", 3, 0, "gener"), {1})
          EXCEPT !.enable_timer = TRUE, !.qlim_ = 3, !.until = 1],
      [Base("PRIO_WFQ", 4, 2, "gener") EXCEPT !.until = 2, !.qlim_ = 3],
      [Changing(Base("PRIO_WFQ", 3, 1, "gener"), {1})
          EXCEPT !.enable_timer = TRUE, !.qlim_ = 3],
       ByStaticThresh("queue"), ByStaticThresh("port"), ByStaticThresh("latency"),
       ByStaticThresh("pie") >>
=============================================================================
