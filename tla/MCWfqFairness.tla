---------------------------- MODULE MCWfqFairness ----------------------------
(* Values of the per-queue parameters of WfqFairness for the model checker. *)
EXTENDS WfqFairness

\* wfq_params_init: queue i is selected by DSCP i; an unknown DSCP takes queue 0.
OneDscpPerQueue == [q \in Queues |-> q]

\* Each queue may hold what two small packets or one large one need.
StaticBuffers == [q \in Queues |-> 4]

QueueThresholds == [q \in Queues |-> IF q = 0 THEN 3 ELSE 4]

\* wfq_queue_prio: any value for the second queue.
SecondDemoted == [q \in Queues |-> IF q = 1 THEN Prios ELSE {0}]

\* wfq_queue_weight: the second queue's may change.
SecondOneOrTwo == [q \in Queues |-> IF q = 1 THEN {1, 2} ELSE {1}]
=============================================================================
