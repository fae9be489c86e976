-------------------------- MODULE MCTaskScheduler --------------------------
(* A small instance of TaskScheduler: three tasks, one of them periodic,   *)
(* one with a retry.                                                       *)
EXTENDS TaskScheduler

CONSTANTS t1, t2, t3

MCTasks == {t1, t2, t3}
MCInterval == [t \in Tasks |-> IF t = t2 THEN 2 ELSE NoInterval]
MCMaxRetries == [t \in Tasks |-> IF t = t1 THEN 1 ELSE 0]
=============================================================================
