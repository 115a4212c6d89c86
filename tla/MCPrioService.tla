--------------------------- MODULE MCPrioService ----------------------------
(* Values of the per-queue parameters of PrioService for the model checker. *)
EXTENDS PrioService

\* prio_qdisc_params_init: queue i is selected by DSCP i; others take queue 0.
OneDscpPerQueue == [q \in Queues |-> q]

\* Each queue may hold what two small packets or one large one need.
StaticBuffers == [q \in Queues |-> 4]

\* Queue 0 may hold one byte less than the others.
QueueThresholds == [q \in Queues |-> IF q = 0 THEN 3 ELSE 4]
=============================================================================
