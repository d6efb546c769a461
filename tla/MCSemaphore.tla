---------------------------- MODULE MCSemaphore ----------------------------
(* Instances of Semaphore for TLC. *)
EXTENDS Semaphore
CONSTANTS t1, t2, t3, lock, event
MCTasks == {t1, t2, t3}
MCTasks2 == {t1, t2}
MCBlockedStates == {"INACTIVE", "WAIT_SEM"}
MCInitCount == [s \in Sems |-> IF s \in Locks THEN 1 ELSE 0]
MCInitCount2 == [s \in Sems |-> IF s \in Locks THEN 2 ELSE 0]

\* One representative of the initial states that differ only in the names of
\* the tasks.
MCInit ==
    /\ SemInit
    /\ \A a, b \in Tasks :
          (a = t1 /\ b = t2) \/ (a = t2 /\ b = t3) =>
              sched_priority[a] < sched_priority[b]
    /\ g_blocked["INACTIVE"] = SelectSeq(<<t1, t2, t3>>,
                                         LAMBDA t : t \in Tasks)

MCSpec == MCInit /\ [][SemNext]_vars

MCFairSpec == MCSpec /\ SemFairness
=============================================================================
