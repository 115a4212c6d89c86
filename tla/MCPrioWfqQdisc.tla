--------------------------- MODULE MCPrioWfqQdisc ---------------------------
(* Values of the per-queue parameters of PrioWfqQdisc for the model checker. *)
EXTENDS PrioWfqQdisc

\* prio_wfq_qdisc_params_init: queue i is selected by DSCP i; others take queue 0.
OneDscpPerQueue == [q \in Queues |-> q]

\* Each queue may hold what two small packets or one large one need.
StaticBuffers   == [q \in Queues |-> 4]
QueueThresholds == [q \in Queues |-> 3]

\* Weights: one queue's may be rewritten.
Weight1Or2 == [q \in WfqQueues |-> IF q = NumPrioQueues THEN {1, 2} ELSE {1}]
=============================================================================
