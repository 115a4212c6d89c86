---------------------------- MODULE MCDwrrQdisc ----------------------------
(* Values of the per-queue parameters of DwrrQdisc for the model checker. *)
EXTENDS DwrrQdisc

\* dwrr_params_init: queue i is selected by DSCP i; an unknown DSCP takes queue 0.
OneDscpPerQueue == [q \in Queues |-> q]

\* Each queue may hold what two small packets or one large one need.
StaticBuffers == [q \in Queues |-> 4]

\* Queue 0 may hold one byte less than the others.
QueueThresholds == [q \in Queues |-> IF q = 0 THEN 3 ELSE 4]

\* dwrr_queue_prio: fixed, queue 0 the most urgent, or any value for the last queue.
DistinctPrios == [q \in Queues |-> {Lesser(q, NumPrios - 1)}]
LastAnyPrio   == [q \in Queues |-> IF q = NumQueues - 1 THEN Prios ELSE {0}]

\* dwrr_queue_quantum: at least the largest packet, as dwrr_quantum_min demands.
Quantum3      == [q \in Queues |-> {3}]
Last3Or4      == [q \in Queues |-> IF q = NumQueues - 1 THEN {3, 4} ELSE {3}]
Quantum4      == [q \in Queues |-> {4}]
=============================================================================
