------------------------------ MODULE MCSched ------------------------------
(* Three tasks and the idle task, for TLC. *)
EXTENDS Sched, TLC

CONSTANTS t1, t2, t3

MCTasks == {t1, t2, t3}
MCBlockedStates == {"INACTIVE", "WAIT_SEM", "WAIT_SIG"}
TaskSymmetry == Permutations(MCTasks)
=============================================================================
