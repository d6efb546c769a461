---------------------------- MODULE SchedProofs ----------------------------
(***************************************************************************)
(* The theorems about module Sched, for any number of tasks, priorities and*)
(* nested locks.                                                           *)
(***************************************************************************)
EXTENDS SchedSteps

\* The invariant is inductive.
LEMMA NextInv ==
    ASSUME SchedInv, [SchedNext]_schedVars
    PROVE  SchedInv'
<1>1. ASSUME NEW st \in BlockedStates \ {"INACTIVE"}, up_block_task(st)
      PROVE  SchedInv'
  BY <1>1, BlockInv
<1>2. ASSUME NEW t \in Tasks, up_unblock_task(t)
      PROVE  SchedInv'
  BY <1>2, UnblockInv
<1>3. ASSUME NEW t \in Tasks, NEW p \in Priorities, nxsched_setpriority(t, p)
      PROVE  SchedInv'
  BY <1>3, SetPriorityInv
<1>4. CASE sched_lock
  BY <1>4, LockInv
<1>5. CASE sched_unlock
  BY <1>5, UnlockInv, SMTT(30)
<1>6. CASE UNCHANGED schedVars
  BY <1>6 DEF schedVars, SchedInv, SchedTypeOK, PriorityOK, ListsConsistent,
     IdleAtTheEnd, HeadHasCPU, PendingOnlyWhileLocked,
     PrioritizedListsSorted, ReadyToRunSorted, Descending, this_task
<1> QED
  BY <1>1, <1>2, <1>3, <1>4, <1>5, <1>6 DEF SchedNext

\* The inductive invariant holds in every state the primitives can reach.
THEOREM SchedInvariant == SchedSpec => []SchedInv
<1>1. SchedInit => SchedInv
  BY InitInv
<1>2. SchedInv /\ [SchedNext]_schedVars => SchedInv'
  BY NextInv
<1> QED
  BY <1>1, <1>2, PTL DEF SchedSpec

\* The state of the scheduler is always well formed.
THEOREM SchedTypeCorrect == SchedSpec => []SchedTypeOK
<1>1. SchedInv => SchedTypeOK
  BY DEF SchedInv
<1> QED
  BY <1>1, SchedInvariant, PTL

\* Every task is in exactly the list its state names, whatever sequence of
\* primitives blocked, woke, locked and re-prioritized it.
THEOREM TaskListsConsistent == SchedSpec => []ListsConsistent
<1>1. SchedInv => ListsConsistent
  BY DEF SchedInv
<1> QED
  BY <1>1, SchedInvariant, PTL

\* No task stays parked in the pending list once the pre-emption lock is gone.
THEOREM NoForgottenWakeup == SchedSpec => []PendingOnlyWhileLocked
<1>1. SchedInv => PendingOnlyWhileLocked
  BY DEF SchedInv
<1> QED
  BY <1>1, SchedInvariant, PTL

\* The prioritized blocked lists and the pending list stay in priority order.
THEOREM WaitListsSorted == SchedSpec => []PrioritizedListsSorted
<1>1. SchedInv => PrioritizedListsSorted
  BY DEF SchedInv
<1> QED
  BY <1>1, SchedInvariant, PTL

\* With CONFIG_DEBUG_ASSERTIONS the running task has the highest priority
\* among the tasks that could run, unless it holds the pre-emption lock.
\* (Without the option the property fails: see the run sched_noassert.)
THEOREM PriorityScheduling ==
    ASSUME DEBUG_ASSERTIONS
    PROVE  SchedSpec => []HighestPriorityRuns
<1>1. SchedInv => HighestPriorityRuns
  <2>1. SUFFICES ASSUME SchedInv, lockcount[this_task] = 0,
                        NEW t \in AllTasks,
                        task_state[t] \in {"RUNNING", "READYTORUN", "PENDING"}
                 PROVE  sched_priority[t] <= sched_priority[this_task]
    BY DEF HighestPriorityRuns
  <2>2. /\ g_pendingtasks = <<>>
        /\ g_readytorun \in Seq(AllTasks) /\ g_readytorun # <<>>
        /\ Descending(g_readytorun, sched_priority)
    BY <2>1 DEF SchedInv, SchedTypeOK, PendingOnlyWhileLocked,
       ListsConsistent, ReadyToRunSorted
  <2>3. t \in Range(g_readytorun)
    BY <2>1, <2>2 DEF SchedInv, ListsConsistent, Range
  <2>4. PICK i \in 1..Len(g_readytorun) : g_readytorun[i] = t
    BY <2>3 DEF Range
  <2>5. /\ this_task = g_readytorun[1] /\ 1 \in 1..Len(g_readytorun)
        /\ Len(g_readytorun) \in Nat
    BY <2>2 DEF this_task
  <2>6. sched_priority[t] \in Int
    BY <2>1 DEF SchedInv, PriorityOK
  <2> QED
    BY <2>2, <2>4, <2>5, <2>6 DEF Descending
<1> QED
  BY <1>1, SchedInvariant, PTL

----------------------------------------------------------------------------
\* A task that only moves within the ready-to-run list does not take the CPU.
LEMMA MoveKeepsCPU ==
    ASSUME SchedInv, NEW t \in Tasks, NEW p \in Priorities,
           sched_readytorun_setpriority(t, p),
           ~(p > sched_priority[this_task])
    PROVE  this_task' = this_task
<1> DEFINE prio == [sched_priority EXCEPT ![t] = p]
           q0 == sched_removereadytorun(t, Queues)
           q == sched_addreadytorun(t, q0, prio)
<1>1. CASE ~DEBUG_ASSERTIONS
  BY <1>1, SMTT(30) DEF sched_readytorun_setpriority, ChangePriority, this_task
<1>2. CASE DEBUG_ASSERTIONS
  <2>1. /\ RunnableOK(Queues) /\ lockcount \in [AllTasks -> Nat]
        /\ t \in AllTasks /\ Queues.ready = g_readytorun
        /\ Queues.state = task_state
    BY ListsOK DEF AllTasks, Queues
  <2>2. t \in Range(g_readytorun) /\ t # this_task /\ this_task \in AllTasks
    <3>1. t \in Range(g_readytorun) /\ task_state[t] = "READYTORUN"
      BY <2>1, ZenonT(30)
         DEF SchedInv, ListsConsistent, sched_readytorun_setpriority
    <3> QED
      BY <3>1, <2>1, ListElements DEF RunnableOK, this_task
  <2>3. PriorityOK(prio) /\ prio[this_task] = sched_priority[this_task]
        /\ prio[t] = p
    BY <2>1, <2>2, TasksAssumption, BoundsAssumption
       DEF SchedInv, PriorityOK, Priorities
  <2>4. g_readytorun' = q.ready
    BY <1>2, SMTT(30) DEF sched_readytorun_setpriority, SetQueues
  <2> HIDE DEF prio
  <2>5. /\ RunnableOK(q0) /\ Head(q0.ready) = this_task
        /\ q0.pend = Queues.pend
        /\ Range(q0.ready) = Range(g_readytorun) \ {t}
    BY <2>1, <2>2, RemoveReadyToRun DEF this_task
  <2> HIDE DEF q0
  <2>6. t \notin Range(q0.ready) /\ t \notin Range(q0.pend)
    BY <2>1, <2>2, <2>5, SMTT(30) DEF RunnableOK
  <2>7. Head(q.ready) # Head(q0.ready) => prio[t] > prio[Head(q0.ready)]
    <3>1. AddedTo(q, t, q0, prio)
      BY <2>1, <2>3, <2>5, <2>6, AddReadyToRun
    <3> HIDE DEF q
    <3> QED
      BY <3>1, SMTT(30) DEF AddedTo
  <2> QED
    BY <2>3, <2>4, <2>5, <2>7, ZenonT(30) DEF this_task
<1> QED
  BY <1>1, <1>2

\* Raising the priority of a ready task does not take the CPU from a task that
\* holds the pre-emption lock.
LEMMA BoostKeepsCPU ==
    ASSUME SchedInv, NEW t \in Tasks, t \in Range(g_readytorun),
           t # this_task, NEW p \in Priorities, up_reprioritize_rtr(t, p),
           lockcount[this_task] > 0
    PROVE  this_task' = this_task
<1> DEFINE prio == [sched_priority EXCEPT ![t] = p]
           q0 == sched_removereadytorun(t, Queues)
           q == sched_addreadytorun(t, q0, prio)
<1>1. /\ RunnableOK(Queues) /\ lockcount \in [AllTasks -> Nat]
      /\ t \in AllTasks /\ Queues.ready = g_readytorun
      /\ this_task \in AllTasks
  <2>1. RunnableOK(Queues) /\ Queues.ready = g_readytorun
    BY ListsOK, ZenonT(30) DEF Queues
  <2> QED
    BY <2>1, ListsOK, ListElements, ZenonT(30)
       DEF AllTasks, RunnableOK, this_task
<1>2. PriorityOK(prio)
  BY <1>1, TasksAssumption, BoundsAssumption, SMTT(30)
     DEF SchedInv, PriorityOK, Priorities
<1>3. g_readytorun' = IF Head(q.ready) # this_task
                        THEN sched_mergepending(q, prio).ready
                        ELSE q.ready
  <2>1. ~(RemovesHead(t, Queues) <=> AddsHead(t, q0, prio))
           <=> Head(q.ready) # this_task
    BY <1>2, SwitchFlag, ZenonT(30)
  <2> QED
    BY <2>1, ZenonT(30) DEF up_reprioritize_rtr, SetQueues
<1> HIDE DEF prio
<1>4. /\ RunnableOK(q0) /\ Head(q0.ready) = this_task
      /\ q0.pend = Queues.pend
      /\ Range(q0.ready) = Range(g_readytorun) \ {t}
  BY <1>1, RemoveReadyToRun DEF this_task
<1> HIDE DEF q0
<1>5. t \notin Range(q0.ready) /\ t \notin Range(q0.pend)
  BY <1>1, <1>4, SMTT(30) DEF RunnableOK
<1>6. Head(q.ready) # Head(q0.ready) => lockcount[Head(q0.ready)] = 0
  <2>1. AddedTo(q, t, q0, prio)
    BY <1>1, <1>2, <1>4, <1>5, AddReadyToRun, ZenonT(30)
  <2> HIDE DEF q
  <2> QED
    BY <2>1, ZenonT(30) DEF AddedTo
<1> HIDE DEF q
<1>7. Head(q.ready) = this_task
  BY <1>1, <1>4, <1>6
<1> QED
  BY <1>3, <1>7 DEF this_task

\* Nothing but its own blocking or its own demotion takes the CPU from a task
\* that holds the pre-emption lock.
THEOREM LockHolderKeepsCPU == SchedSpec => LockKeepsCPU
<1> DEFINE Keeps ==
      (lockcount[this_task] > 0 /\ lockcount'[this_task] > 0
          /\ this_task' # this_task) =>
        \/ task_state'[this_task] \in BlockedStates
        \/ /\ Len(g_readytorun) > 1
           /\ sched_priority'[this_task] <= sched_priority[g_readytorun[2]]
<1>1. ASSUME SchedInv, [SchedNext]_schedVars
      PROVE  [Keeps]_schedVars
  <2>1. SUFFICES ASSUME SchedNext, lockcount[this_task] > 0,
                        lockcount'[this_task] > 0, this_task' # this_task
                 PROVE  \/ task_state'[this_task] \in BlockedStates
                        \/ /\ Len(g_readytorun) > 1
                           /\ sched_priority'[this_task] <=
                                 sched_priority[g_readytorun[2]]
    BY <1>1, SMTT(30)
  <2>2. /\ RunnableOK(Queues) /\ Queues.ready = g_readytorun
        /\ Queues.state = task_state
        /\ lockcount \in [AllTasks -> Nat] /\ this_task \in AllTasks
    <3>1. RunnableOK(Queues) /\ Queues.ready = g_readytorun
          /\ Queues.state = task_state
      BY <1>1, ListsOK DEF Queues
    <3> QED
      BY <3>1, <1>1, ListsOK, ListElements, ZenonT(30) DEF RunnableOK, this_task
  <2>3. ASSUME NEW st \in BlockedStates \ {"INACTIVE"}, up_block_task(st)
        PROVE  task_state'[this_task] \in BlockedStates
    <3>1. SchedTypeOK'
      BY <2>3, <1>1, BlockInv DEF SchedInv
    <3>2. /\ DOMAIN task_state' = AllTasks
          /\ \E f : task_state' = [f EXCEPT ![this_task] = st]
      BY <3>1, <2>3, SMTT(30) DEF SchedTypeOK, up_block_task, SetQueues
    <3> QED
      BY <3>2, <2>2
  <2>4. ASSUME NEW t \in Tasks, up_unblock_task(t)
        PROVE  FALSE
    <3> DEFINE q == sched_addreadytorun(t, Queues, sched_priority)
    <3>1. g_readytorun' = q.ready /\ task_state[t] \in BlockedStates
      BY <2>4 DEF up_unblock_task, SetQueues
    <3>2. t \notin Range(Queues.ready) /\ t \notin Range(Queues.pend)
      BY <3>1, <2>2, BlockedAssumption, ZenonT(30)
         DEF RunnableOK, AllBlockedStates
    <3>3. Head(q.ready) # Head(Queues.ready) =>
             lockcount[Head(Queues.ready)] = 0
      <4>1. AddedTo(q, t, Queues, sched_priority)
        BY <3>2, <2>2, <1>1, AddReadyToRun DEF SchedInv
      <4> HIDE DEF q
      <4> QED
        BY <4>1, SMTT(30) DEF AddedTo
    <3> QED
      BY <3>1, <3>3, <2>1, <2>2 DEF this_task
  <2>5. ASSUME NEW t \in Tasks, NEW p \in Priorities, nxsched_setpriority(t, p)
        PROVE  /\ Len(g_readytorun) > 1
               /\ sched_priority'[this_task] <= sched_priority[g_readytorun[2]]
    <3>1. CASE sched_running_setpriority(t, p)
      <4>1. t = this_task /\ t \in Range(g_readytorun)
        BY <3>1, <1>1, SMTT(30)
           DEF sched_running_setpriority, SchedInv, ListsConsistent, AllTasks
      <4>2. Len(g_readytorun) > 1
        BY <4>1, <2>2, RemoveReadyToRun DEF this_task
      <4>3. CASE p <= sched_priority[g_readytorun[2]]
        <5>1. sched_priority' = [sched_priority EXCEPT ![t] = p]
          BY <4>3, <3>1 DEF sched_running_setpriority, up_reprioritize_rtr
        <5>2. sched_priority'[this_task] = p
          BY <5>1, <4>1, <2>2, <1>1, SMTT(30) DEF SchedInv, PriorityOK
        <5> QED
          BY <5>2, <4>2, <4>3, SMTT(30)
      <4>4. CASE ~(p <= sched_priority[g_readytorun[2]])
        BY <4>4, <3>1, <2>1
           DEF sched_running_setpriority, ChangePriority, this_task
      <4> QED
        BY <4>3, <4>4
    <3>2. CASE sched_readytorun_setpriority(t, p)
      <4>1. t # this_task /\ t \in Range(g_readytorun)
        <5>1. t \in Range(g_readytorun) /\ task_state[t] = "READYTORUN"
          BY <3>2, <1>1
             DEF sched_readytorun_setpriority, SchedInv, ListsConsistent,
                 AllTasks
        <5> QED
          BY <5>1, <2>2, SMTT(30) DEF RunnableOK, this_task
      <4>2. CASE p > sched_priority[this_task]
        <5>1. up_reprioritize_rtr(t, p)
          BY <4>2, <3>2 DEF sched_readytorun_setpriority
        <5> QED
          BY <5>1, <4>1, <2>1, <1>1, BoostKeepsCPU
      <4>3. CASE ~(p > sched_priority[this_task])
        BY <4>3, <3>2, <2>1, <1>1, MoveKeepsCPU, SMTT(30)
      <4> QED
        BY <4>2, <4>3
    <3>3. CASE sched_blocked_setpriority(t, p)
      BY <3>3, <2>1, ZenonT(30) DEF sched_blocked_setpriority, this_task
    <3> QED
      BY <3>1, <3>2, <3>3, <2>5 DEF nxsched_setpriority
  <2>6. CASE sched_lock
    BY <2>6, <2>1 DEF sched_lock, this_task
  <2>7. CASE sched_unlock
    <3> DEFINE count == IF lockcount[this_task] > 0
                          THEN lockcount[this_task] - 1 ELSE 0
    <3>1. lockcount' = [lockcount EXCEPT ![this_task] = count]
      BY <2>7 DEF sched_unlock
    <3> HIDE DEF count
    <3>2. count # 0
      BY <3>1, <2>1, <2>2
    <3> QED
      BY <3>2, <2>1, <2>7 DEF sched_unlock, this_task, count
  <2> QED
    BY <2>1, <2>3, <2>4, <2>5, <2>6, <2>7 DEF SchedNext
<1> QED
  BY <1>1, SchedInvariant, PTL DEF SchedSpec, LockKeepsCPU

----------------------------------------------------------------------------
\* The CPU executes the task at the head of the ready-to-run list, although each
\* primitive decides from what the list functions returned whether to switch.
THEOREM HeadRuns == SchedSpec => []HeadHasCPU
<1>1. SchedInv => HeadHasCPU
  BY DEF SchedInv
<1> QED
  BY <1>1, SchedInvariant, PTL

\* The published word becomes stale only when the running task gets another
\* priority and keeps the CPU; every switch writes the word of the task that
\* gets the CPU, at the priority that task has then.
THEOREM StaleWordInPlace == SchedSpec => StaleOnlyInPlace
<1> DEFINE Stays == /\ UNCHANGED <<cpu, shadow_prio>>
                    /\ \/ shadow_prio # sched_priority[cpu]
                       \/ /\ sched_priority'[cpu] # sched_priority[cpu]
                          /\ UNCHANGED <<g_readytorun, task_state>>
           Stale == shadow_prio' # sched_priority'[cpu']
<1>1. ASSUME SchedInv, [SchedNext]_schedVars
      PROVE  [Stale => Stays]_schedVars
  <2>1. SUFFICES ASSUME SchedNext
                 PROVE  Stale => Stays
    BY <1>1
  <2>2. ASSUME NEW tcb, SwitchTo(tcb, sched_priority')
        PROVE  ~Stale
    BY <2>2 DEF SwitchTo
  <2>3. ASSUME UNCHANGED <<cpu, shadow_prio>>,
               sched_priority'[cpu] = sched_priority[cpu]
        PROVE  Stale => Stays
    BY <2>3
  <2>4. /\ cpu = this_task /\ cpu \in AllTasks /\ RunnableOK(Queues)
        /\ Queues.ready = g_readytorun /\ Queues.state = task_state
        /\ PriorityOK(sched_priority)
    BY <1>1, ListsOK DEF Queues, SchedInv
  <2>5. ASSUME NEW st \in BlockedStates \ {"INACTIVE"}, up_block_task(st)
        PROVE  ~Stale
    <3>1. RemovesHead(this_task, Queues)
      BY DEF RemovesHead, Queues, this_task
    <3>2. \E tcb : SwitchTo(tcb, sched_priority')
      BY <3>1, <2>5, ZenonT(30) DEF up_block_task
    <3> QED
      BY <3>2, <2>2
  <2>6. ASSUME NEW t \in Tasks, up_unblock_task(t)
        PROVE  Stale => Stays
    <3>1. /\ sched_priority' = sched_priority
          /\ \/ \E tcb : SwitchTo(tcb, sched_priority')
             \/ UNCHANGED <<cpu, shadow_prio>>
      BY <2>6, ZenonT(30) DEF up_unblock_task
    <3> QED
      BY <3>1, <2>2, <2>3
  <2>7. ASSUME NEW t \in Tasks, NEW p \in Priorities, up_reprioritize_rtr(t, p),
               t \in Range(g_readytorun),
               t = this_task => p <= sched_priority[g_readytorun[2]]
        PROVE  Stale => Stays
    <3> DEFINE prio == [sched_priority EXCEPT ![t] = p]
               q0 == sched_removereadytorun(t, Queues)
               q1 == sched_addreadytorun(t, q0, prio)
               flag == ~(RemovesHead(t, Queues) <=> AddsHead(t, q0, prio))
    <3>1. sched_priority' = prio /\ t \in AllTasks /\ t # Idle
      BY <2>7, TasksAssumption DEF up_reprioritize_rtr, AllTasks
    <3>2. IF flag THEN \E tcb : SwitchTo(tcb, sched_priority')
                  ELSE UNCHANGED <<cpu, shadow_prio>>
      BY <2>7, ZenonT(30) DEF up_reprioritize_rtr
    <3>3. PriorityOK(prio)
      BY <3>1, <2>4, BoundsAssumption DEF PriorityOK, Priorities
    <3>4. \A u \in AllTasks : prio[u] = IF u = t THEN p ELSE sched_priority[u]
      BY <2>4 DEF PriorityOK
    <3>5. CASE t # this_task
      BY <3>1, <3>2, <3>4, <3>5, <2>2, <2>3, <2>4, ZenonT(30)
    <3>6. CASE t = this_task
      <4>1. Len(g_readytorun) > 1 /\ g_readytorun[2] \in AllTasks
            /\ g_readytorun[2] # t
        <5>1. Len(g_readytorun) > 1
          BY <3>6, <2>4, <2>7, RemoveReadyToRun DEF this_task
        <5> QED
          BY <5>1, <3>6, <2>4 DEF RunnableOK, this_task, IsInjective
      <4>2. prio[t] <= prio[g_readytorun[2]]
        BY <4>1, <3>1, <3>4, <3>6, <2>7
      <4>3. flag
        BY <4>2, <3>3, <3>6, <2>7, <1>1, SwitchFlag, ZenonT(30)
      <4> QED
        BY <4>3, <3>2, <2>2
    <3> QED
      BY <3>5, <3>6
  <2>8. ASSUME NEW t \in Tasks, NEW p \in Priorities, ChangePriority(t, p)
        PROVE  Stale => Stays
    BY <2>8, <2>3 DEF ChangePriority
  <2>9. ASSUME NEW t \in Tasks, NEW p \in Priorities, t # this_task,
               sched_priority' = [sched_priority EXCEPT ![t] = p],
               UNCHANGED <<cpu, shadow_prio>>
        PROVE  Stale => Stays
    BY <2>9, <2>3, <2>4 DEF PriorityOK
  <2>10. ASSUME NEW t \in Tasks, NEW p \in Priorities, nxsched_setpriority(t, p)
         PROVE  Stale => Stays
    <3>1. /\ task_state[t] \in {"RUNNING", "READYTORUN"} <=> t \in Range(g_readytorun)
          /\ task_state[t] = "RUNNING" <=> t = this_task
      BY <1>1 DEF SchedInv, ListsConsistent, AllTasks
    <3>2. CASE sched_running_setpriority(t, p)
      BY <3>1, <3>2, <2>7, <2>8 DEF sched_running_setpriority
    <3>3. CASE sched_readytorun_setpriority(t, p)
      <4>1. t \in Range(g_readytorun) /\ t # this_task
        BY <3>1, <3>3, SMTT(30) DEF sched_readytorun_setpriority
      <4> QED
        BY <4>1, <3>3, <2>7, <2>8, <2>9, ZenonT(30)
           DEF sched_readytorun_setpriority
    <3>4. CASE sched_blocked_setpriority(t, p)
      <4>1. t # this_task
        BY <3>1, <3>4, BlockedAssumption
           DEF sched_blocked_setpriority, AllBlockedStates
      <4> QED
        BY <4>1, <3>4, <2>9 DEF sched_blocked_setpriority
    <3> QED
      BY <3>2, <3>3, <3>4, <2>10, SMTT(30) DEF nxsched_setpriority
  <2>11. CASE sched_lock
    BY <2>11, <2>3 DEF sched_lock
  <2>12. CASE sched_unlock
    <3>1. sched_priority' = sched_priority
      BY <2>12 DEF sched_unlock
    <3>2. \/ \E tcb : SwitchTo(tcb, sched_priority')
          \/ UNCHANGED <<cpu, shadow_prio>>
      BY <3>1, <2>12, ZenonT(30) DEF sched_unlock, up_release_pending
    <3> QED
      BY <3>1, <3>2, <2>2, <2>3
  <2> QED
    BY <2>1, <2>5, <2>6, <2>10, <2>11, <2>12 DEF SchedNext
<1> QED
  BY <1>1, SchedInvariant, PTL DEF SchedSpec, StaleOnlyInPlace
============================================================================
