------------------------ MODULE MCExecutionLifecycle ------------------------
(* Small instances of ExecutionLifecycle for TLC.                          *)
EXTENDS ExecutionLifecycle, TLC

CONSTANTS e1, e2, alice

MCOwner == [e \in Execs |-> alice]

\* Both executions are alice's, and every property quantifies over all of them.
Symmetry == Permutations(Execs)
=============================================================================
