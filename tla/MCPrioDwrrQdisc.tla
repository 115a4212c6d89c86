-------------------------- MODULE MCPrioDwrrQdisc ---------------------------
(* Values of the per-queue parameters of PrioDwrrQdisc for the model checker. *)
EXTENDS PrioDwrrQdisc

\* prio_dwrr_qdisc_params_init: queue i is selected by DSCP i; others take queue 0.
OneDscpPerQueue == [q \in Queues |-> q]

\* Each queue may hold what two small packets or one large one need.
StaticBuffers   == [q \in Queues |-> 4]
QueueThresholds == [q \in Queues |-> 3]

\* Quanta: at least the largest packet; one queue's may change.
Quantum3Or4 == [q \in DwrrQueues |-> IF q = 1 THEN {3, 4} ELSE {3}]
=============================================================================
