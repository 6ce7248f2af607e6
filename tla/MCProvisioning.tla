--------------------------- MODULE MCProvisioning ---------------------------
(* The provisioning composition, on small instances. *)
EXTENDS LeaseLifecycle, TLC

\* Every cycle is a worker of its own, as when a pod is being replaced.
OwnWorkers == [c \in Cycles |-> c]

RetryCreate == [j \in {"create", "teardown"} |-> IF j = "create" THEN 1 ELSE 0]
NoRetry == [j \in {"create", "teardown"} |-> 0]

Overlaps == Permutations(Cycles) \cup Permutations(Releasers)

=============================================================================
