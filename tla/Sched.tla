------------------------------- MODULE Sched -------------------------------
(***************************************************************************)
(* The single-CPU scheduler: the task lists of sched/sched, the context-   *)
(* switching primitives of arch/x86_64/src/common that move tasks between  *)
(* them, and the pre-emption lock.                                         *)
(*                                                                         *)
(* Every action is one kernel primitive.  Each of them runs inside a       *)
(* critical section (interrupts disabled, one CPU), so it is one step; the *)
(* functions that call several primitives are the business of the modules  *)
(* that extend this one.  Messages from the Linux side, which              *)
(* up_checktasks() would turn into pending tasks in the middle of a        *)
(* primitive, do not arrive here: the shadow process is not running, and   *)
(* up_checktasks() returns at once.                                        *)
(***************************************************************************)
EXTENDS Integers, Sequences, FiniteSetsExt

CONSTANTS Tasks,                \* the tasks other than the idle task
          Idle,                 \* the idle task: priority 0, never blocks
          BlockedStates,        \* the blocked task states that are used
          SCHED_PRIORITY_MAX,   \* priorities run from 1 to this one
          MAX_LOCK_COUNT,       \* bound on the nesting of sched_lock()
          DEBUG_ASSERTIONS      \* CONFIG_DEBUG_ASSERTIONS

\* The blocked states of include/nuttx/sched.h that have a list of their own.
AllBlockedStates == {"INACTIVE", "WAIT_SEM", "WAIT_SIG",
                     "WAIT_MQNOTEMPTY", "WAIT_MQNOTFULL"}

ASSUME TasksAssumption ==
    /\ IsFiniteSet(Tasks) /\ Cardinality(Tasks) \in Nat
    /\ Idle \notin Tasks
ASSUME BlockedAssumption ==
    /\ BlockedStates \subseteq AllBlockedStates
    /\ "INACTIVE" \in BlockedStates
ASSUME BoundsAssumption ==
    /\ SCHED_PRIORITY_MAX \in Nat \ {0}
    /\ MAX_LOCK_COUNT \in Nat
    /\ DEBUG_ASSERTIONS \in BOOLEAN

VARIABLES task_state,       \* tcb->task_state
          sched_priority,   \* tcb->sched_priority
          lockcount,        \* tcb->lockcount
          g_readytorun,     \* the ready-to-run list; its head is running
          g_pendingtasks,   \* ready tasks held back by sched_lock()
          g_blocked,        \* the list of each blocked state
          cpu,              \* the task whose registers are loaded
          shadow_prio       \* the priority word shared with the Linux side

schedVars == <<task_state, sched_priority, lockcount, g_readytorun,
               g_pendingtasks, g_blocked, cpu, shadow_prio>>

AllTasks == Tasks \cup {Idle}
TaskStates == {"PENDING", "READYTORUN", "RUNNING"} \cup BlockedStates
Priorities == 1..SCHED_PRIORITY_MAX

\* SCHED_FIFO lists are kept by priority; these blocked states' are FIFO.
TLIST_ISPRIORITIZED(st) == st \notin {"INACTIVE", "WAIT_SIG"}

this_task == Head(g_readytorun)

----------------------------------------------------------------------------
\* The list operations.

\* As in SequencesExt, whose many definitions slow down the proofs of the
\* modules that extend this one.
InsertAt(s, i, e) == SubSeq(s, 1, i - 1) \o <<e>> \o SubSeq(s, i, Len(s))
RemoveAt(s, i) == SubSeq(s, 1, i - 1) \o SubSeq(s, i + 1, Len(s))
Last(s) == s[Len(s)]

\* Mutant: the task is added at the end of the list.
InsertionPoint_last(tcb, list, prio) == Len(list) + 1

\* Where tcb goes in list: before the first task of strictly lower priority.
InsertionPoint(tcb, list, prio) ==
    CHOOSE i \in 1..(Len(list) + 1) :
        /\ \A j \in 1..(i - 1) : prio[tcb] <= prio[list[j]]
        /\ i <= Len(list) => prio[tcb] > prio[list[i]]

sched_addprioritized(tcb, list, prio) ==
    InsertAt(list, InsertionPoint(tcb, list, prio), tcb)

dq_rem(tcb, list) ==
    RemoveAt(list, CHOOSE i \in 1..Len(list) : list[i] = tcb)

\* The operations below work on a record q of the two runnable lists and the
\* task states, because some primitives apply several of them in a row.
Queues == [ready |-> g_readytorun, pend |-> g_pendingtasks,
           state |-> task_state]

\* What sched_removereadytorun() returns: the head of the list is removed.
RemovesHead(rtcb, q) == Head(q.ready) = rtcb

\* Mutant: the state of the next task is not updated.
sched_removereadytorun_nostate(rtcb, q) ==
    [q EXCEPT !.ready = dq_rem(rtcb, q.ready)]

\* The next task in the list becomes the running one if the head is removed.
sched_removereadytorun(rtcb, q) ==
    [q EXCEPT !.ready = dq_rem(rtcb, q.ready),
              !.state = IF RemovesHead(rtcb, q)
                          THEN [q.state EXCEPT ![q.ready[2]] = "RUNNING"]
                          ELSE q.state]

\* Mutant: the pre-emption lock is not looked at.
sched_addreadytorun_nolock(btcb, q, prio) ==
    LET rtcb == Head(q.ready)
        list == sched_addprioritized(btcb, q.ready, prio)
    IN  IF Head(list) = btcb
          THEN [q EXCEPT !.ready = list,
                         !.state = [q.state EXCEPT ![btcb] = "RUNNING",
                                                   ![rtcb] = "READYTORUN"]]
          ELSE [q EXCEPT !.ready = list,
                         !.state = [q.state EXCEPT ![btcb] = "READYTORUN"]]

\* A task that would pre-empt a task holding the pre-emption lock is parked
\* in the pending list.
Parks(btcb, q, prio) ==
    lockcount[Head(q.ready)] > 0 /\ prio[Head(q.ready)] < prio[btcb]

\* What sched_addreadytorun() returns: the task is the new head of the list.
AddsHead(btcb, q, prio) ==
    /\ ~Parks(btcb, q, prio)
    /\ Head(sched_addprioritized(btcb, q.ready, prio)) = btcb

sched_addreadytorun(btcb, q, prio) ==
    LET rtcb == Head(q.ready)
        list == sched_addprioritized(btcb, q.ready, prio)
    IN  IF Parks(btcb, q, prio)
          THEN [q EXCEPT !.pend = sched_addprioritized(btcb, q.pend, prio),
                         !.state = [q.state EXCEPT ![btcb] = "PENDING"]]
          ELSE IF AddsHead(btcb, q, prio)
                 THEN [q EXCEPT !.ready = list,
                                !.state = [q.state EXCEPT ![btcb] = "RUNNING",
                                                 ![rtcb] = "READYTORUN"]]
                 ELSE [q EXCEPT !.ready = list,
                                !.state = [q.state EXCEPT
                                                 ![btcb] = "READYTORUN"]]

\* The pending tasks are inserted one after the other.  The C loop resumes its
\* search where the previous one was inserted; what precedes that place has at
\* least the priority of the next pending task, so a search from the head of
\* the list finds the same place.
Merging(ready, pend, prio) ==
    LET merged[n \in 0..Len(pend)] ==
            IF n = 0 THEN ready
            ELSE sched_addprioritized(pend[n], merged[n - 1], prio)
    IN  merged

MergePending(ready, pend, prio) == Merging(ready, pend, prio)[Len(pend)]

\* Mutant: what became of the last pending task is returned.
MergesHead_last(q, prio) ==
    Head(MergePending(q.ready, q.pend, prio)) = Last(q.pend)

\* What sched_mergepending() returns: one of the pending tasks was inserted at
\* the head of the list, whether or not it is still there at the end.
MergesHead(q, prio) ==
    \E n \in 1..Len(q.pend) :
        Head(Merging(q.ready, q.pend, prio)[n]) = q.pend[n]

sched_mergepending(q, prio) ==
    LET list == MergePending(q.ready, q.pend, prio)
    IN  [ready |-> list,
         pend  |-> <<>>,
         state |-> [t \in DOMAIN q.state |->
                       IF t \in Range(q.pend)
                         THEN IF t = Head(list) THEN "RUNNING"
                                                ELSE "READYTORUN"
                       ELSE IF t = Head(q.ready) /\ t # Head(list)
                         THEN "READYTORUN"
                       ELSE q.state[t]]]

SetQueues(q) ==
    /\ g_readytorun' = q.ready
    /\ g_pendingtasks' = q.pend
    /\ task_state' = q.state

----------------------------------------------------------------------------
\* The primitives that switch contexts.  They change the lists first; whether
\* the registers of the task at the head of the list are then loaded, and its
\* priority published, is decided by what the list functions returned.

\* The context of tcb is restored, and its priority published.
SwitchTo(tcb, prio) ==
    /\ cpu' = tcb
    /\ shadow_prio' = prio[tcb]

\* Mutant: the pending tasks are not merged when the running task blocks.
up_block_task_nomerge(st) ==
    LET rtcb == this_task
        q == sched_removereadytorun(rtcb, Queues)
    IN  /\ rtcb # Idle
        /\ g_blocked' = [g_blocked EXCEPT ![st] =
                            IF TLIST_ISPRIORITIZED(st)
                              THEN sched_addprioritized(rtcb, @, sched_priority)
                              ELSE Append(@, rtcb)]
        /\ SetQueues([q EXCEPT !.state = [q.state EXCEPT ![rtcb] = st]])
        /\ SwitchTo(Head(q.ready), sched_priority)
        /\ UNCHANGED <<sched_priority, lockcount>>

\* The running task goes to the list of the blocked state st, and the pending
\* tasks are released.  In between, the word that Linux reads is 0: only a
\* switch writes it again.
up_block_task(st) ==
    LET rtcb == this_task
        q1 == sched_removereadytorun(rtcb, Queues)
        q == sched_mergepending(q1, sched_priority)
        switch_needed == \/ RemovesHead(rtcb, Queues)
                         \/ MergesHead(q1, sched_priority)
    IN  /\ rtcb # Idle
        /\ g_blocked' = [g_blocked EXCEPT ![st] =
                            IF TLIST_ISPRIORITIZED(st)
                              THEN sched_addprioritized(rtcb, @, sched_priority)
                              ELSE Append(@, rtcb)]
        /\ SetQueues([q EXCEPT !.state = [q.state EXCEPT ![rtcb] = st]])
        /\ IF switch_needed THEN SwitchTo(Head(q.ready), sched_priority)
                            ELSE shadow_prio' = 0 /\ UNCHANGED cpu
        /\ UNCHANGED <<sched_priority, lockcount>>

\* A blocked task becomes ready to run (or pending).
up_unblock_task(tcb) ==
    LET q == sched_addreadytorun(tcb, Queues, sched_priority)
    IN  /\ task_state[tcb] \in BlockedStates
        /\ g_blocked' = [g_blocked EXCEPT ![task_state[tcb]] = dq_rem(tcb, @)]
        /\ SetQueues(q)
        /\ IF AddsHead(tcb, Queues, sched_priority)
             THEN SwitchTo(Head(q.ready), sched_priority)
             ELSE UNCHANGED <<cpu, shadow_prio>>
        /\ UNCHANGED <<sched_priority, lockcount>>

\* The pending tasks are released because the pre-emption lock was.
up_release_pending ==
    LET q == sched_mergepending(Queues, sched_priority)
    IN  /\ SetQueues(q)
        /\ IF MergesHead(Queues, sched_priority)
             THEN SwitchTo(Head(q.ready), sched_priority)
             ELSE UNCHANGED <<cpu, shadow_prio>>

\* Mutant: the priority published is that of the task that is switched out.
up_reprioritize_rtr_oldprio(tcb, priority) ==
    LET prio == [sched_priority EXCEPT ![tcb] = priority]
        q0 == sched_removereadytorun(tcb, Queues)
        q1 == sched_addreadytorun(tcb, q0, prio)
        q2 == sched_mergepending(q1, prio)
        switch_needed == ~(RemovesHead(tcb, Queues) <=> AddsHead(tcb, q0, prio))
    IN  /\ sched_priority' = prio
        /\ SetQueues(IF switch_needed THEN q2 ELSE q1)
        /\ IF switch_needed
             THEN cpu' = Head(q2.ready) /\ shadow_prio' = prio[this_task]
             ELSE UNCHANGED <<cpu, shadow_prio>>
        /\ UNCHANGED <<lockcount, g_blocked>>

\* A task that is ready to run, or running, is taken out of its list and put
\* back with its new priority.  There is a switch if one of the two changed the
\* head of the list and not the other; it releases the pending tasks.
up_reprioritize_rtr(tcb, priority) ==
    LET prio == [sched_priority EXCEPT ![tcb] = priority]
        q0 == sched_removereadytorun(tcb, Queues)
        q1 == sched_addreadytorun(tcb, q0, prio)
        q2 == sched_mergepending(q1, prio)
        switch_needed == ~(RemovesHead(tcb, Queues) <=> AddsHead(tcb, q0, prio))
    IN  /\ sched_priority' = prio
        /\ SetQueues(IF switch_needed THEN q2 ELSE q1)
        /\ IF switch_needed THEN SwitchTo(Head(q2.ready), prio)
                            ELSE UNCHANGED <<cpu, shadow_prio>>
        /\ UNCHANGED <<lockcount, g_blocked>>

----------------------------------------------------------------------------
\* sched_setpriority.c

\* Only the priority of tcb changes.
ChangePriority(tcb, priority) ==
    /\ sched_priority' = [sched_priority EXCEPT ![tcb] = priority]
    /\ UNCHANGED <<task_state, lockcount, g_readytorun, g_pendingtasks,
                   g_blocked, cpu, shadow_prio>>

sched_running_setpriority(tcb, priority) ==
    /\ task_state[tcb] = "RUNNING"
    /\ IF priority <= sched_priority[g_readytorun[2]]
         THEN up_reprioritize_rtr(tcb, priority)
         ELSE ChangePriority(tcb, priority)

\* Mutant: the ready task stays where it is in the list.
sched_readytorun_setpriority_inplace(tcb, priority) ==
    /\ task_state[tcb] = "READYTORUN"
    /\ IF priority > sched_priority[this_task]
         THEN up_reprioritize_rtr(tcb, priority)
         ELSE ChangePriority(tcb, priority)

\* Taking the task out of the list and putting it back are the arguments of a
\* DEBUGASSERT: without CONFIG_DEBUG_ASSERTIONS they are not executed.
sched_readytorun_setpriority(tcb, priority) ==
    LET prio == [sched_priority EXCEPT ![tcb] = priority]
        q == sched_addreadytorun(tcb, sched_removereadytorun(tcb, Queues),
                                 prio)
    IN  /\ task_state[tcb] = "READYTORUN"
        /\ IF priority > sched_priority[this_task]
             THEN up_reprioritize_rtr(tcb, priority)
             ELSE IF DEBUG_ASSERTIONS
                    THEN /\ SetQueues(q)
                         /\ sched_priority' = prio
                         /\ UNCHANGED <<lockcount, g_blocked, cpu, shadow_prio>>
                    ELSE ChangePriority(tcb, priority)

\* Mutant: the blocked task stays where it is in its list.
sched_blocked_setpriority_inplace(tcb, priority) ==
    /\ task_state[tcb] \in BlockedStates \cup {"PENDING"}
    /\ ChangePriority(tcb, priority)

sched_blocked_setpriority(tcb, priority) ==
    LET st == task_state[tcb]
        prio == [sched_priority EXCEPT ![tcb] = priority]
        Moved(list) == sched_addprioritized(tcb, dq_rem(tcb, list), prio)
    IN  /\ st \in BlockedStates \cup {"PENDING"}
        /\ sched_priority' = prio
        /\ g_pendingtasks' = IF st = "PENDING" THEN Moved(g_pendingtasks)
                                               ELSE g_pendingtasks
        /\ g_blocked' = IF st \in BlockedStates /\ TLIST_ISPRIORITIZED(st)
                          THEN [g_blocked EXCEPT ![st] = Moved(@)]
                          ELSE g_blocked
        /\ UNCHANGED <<task_state, lockcount, g_readytorun, cpu, shadow_prio>>

nxsched_setpriority(tcb, priority) ==
    /\ priority \in Priorities
    /\ \/ sched_running_setpriority(tcb, priority)
       \/ sched_readytorun_setpriority(tcb, priority)
       \/ sched_blocked_setpriority(tcb, priority)

----------------------------------------------------------------------------
\* The pre-emption lock, taken and released by the running task.

sched_lock ==
    /\ lockcount[this_task] < MAX_LOCK_COUNT
    /\ lockcount' = [lockcount EXCEPT ![this_task] = @ + 1]
    /\ UNCHANGED <<task_state, sched_priority, g_readytorun, g_pendingtasks,
                   g_blocked, cpu, shadow_prio>>

\* Mutant: an unbalanced unlock is not noticed.
sched_unlock_unbalanced ==
    LET count == lockcount[this_task] - 1
    IN  /\ lockcount' = [lockcount EXCEPT ![this_task] = count]
        /\ IF count = 0 /\ g_pendingtasks # <<>>
             THEN up_release_pending
             ELSE UNCHANGED <<task_state, g_readytorun, g_pendingtasks, cpu,
                              shadow_prio>>
        /\ UNCHANGED <<sched_priority, g_blocked>>

\* Mutant: the pending tasks are not released.
sched_unlock_norelease ==
    LET count == IF lockcount[this_task] > 0 THEN lockcount[this_task] - 1
                                             ELSE 0
    IN  /\ lockcount' = [lockcount EXCEPT ![this_task] = count]
        /\ UNCHANGED <<task_state, g_readytorun, g_pendingtasks, cpu,
                       shadow_prio, sched_priority, g_blocked>>

sched_unlock ==
    LET count == IF lockcount[this_task] > 0 THEN lockcount[this_task] - 1
                                             ELSE 0
    IN  /\ lockcount' = [lockcount EXCEPT ![this_task] = count]
        /\ IF count = 0 /\ g_pendingtasks # <<>>
             THEN up_release_pending
             ELSE UNCHANGED <<task_state, g_readytorun, g_pendingtasks, cpu,
                              shadow_prio>>
        /\ UNCHANGED <<sched_priority, g_blocked>>

----------------------------------------------------------------------------
\* os_start() leaves the idle task running; the others wait in the list of
\* inactive tasks, in some order, to be activated by up_unblock_task().
SchedInit ==
    /\ sched_priority \in {p \in [AllTasks -> 0..SCHED_PRIORITY_MAX] :
                              \A t \in AllTasks : p[t] = 0 <=> t = Idle}
    /\ lockcount = [t \in AllTasks |-> 0]
    /\ g_readytorun = <<Idle>>
    /\ g_pendingtasks = <<>>
    /\ \E s \in [1..Cardinality(Tasks) -> Tasks] :
          /\ IsInjective(s) /\ Range(s) = Tasks
          /\ g_blocked = [st \in BlockedStates |->
                             IF st = "INACTIVE" THEN s ELSE <<>>]
    /\ task_state = [t \in AllTasks |-> IF t = Idle THEN "RUNNING"
                                                    ELSE "INACTIVE"]
    /\ cpu = Idle
    /\ shadow_prio = 0

\* The running task, or an interrupt handler that pre-empts it, calls a
\* primitive.
SchedNext ==
    \/ \E st \in BlockedStates \ {"INACTIVE"} : up_block_task(st)
    \/ \E t \in Tasks : up_unblock_task(t)
    \/ \E t \in Tasks, p \in Priorities : nxsched_setpriority(t, p)
    \/ sched_lock
    \/ sched_unlock

SchedSpec == SchedInit /\ [][SchedNext]_schedVars

----------------------------------------------------------------------------
SchedTypeOK ==
    /\ task_state \in [AllTasks -> TaskStates]
    /\ sched_priority \in [AllTasks -> 0..SCHED_PRIORITY_MAX]
    /\ lockcount \in [AllTasks -> 0..MAX_LOCK_COUNT]
    /\ g_readytorun \in Seq(AllTasks)
    /\ g_pendingtasks \in Seq(Tasks)
    /\ g_blocked \in [BlockedStates -> Seq(Tasks)]
    /\ cpu \in AllTasks
    /\ shadow_prio \in 0..SCHED_PRIORITY_MAX

\* Whatever sequence of primitives ran, every task is in exactly one list, once,
\* and it is the list its task_state names: the list code of sched/sched moves
\* tasks by the state field and never looks for a task in another list.  The
\* head of the ready-to-run list, and nothing else, is the running task.
ListsConsistent ==
    /\ IsInjective(g_readytorun)
    /\ IsInjective(g_pendingtasks)
    /\ \A st \in BlockedStates : IsInjective(g_blocked[st])
    /\ \A t \in AllTasks :
         /\ t \in Range(g_readytorun) <=> task_state[t] \in {"RUNNING",
                                                             "READYTORUN"}
         /\ t \in Range(g_pendingtasks) <=> task_state[t] = "PENDING"
         /\ \A st \in BlockedStates :
               t \in Range(g_blocked[st]) <=> task_state[t] = st
    /\ g_readytorun # <<>>
    /\ \A t \in AllTasks : task_state[t] = "RUNNING" <=> t = this_task

\* The idle task stays at the end of the ready-to-run list, where
\* sched_removereadytorun() and sched_mergepending() rely on it: there is always
\* a next task to run, and a place before which a pending task goes.
IdleAtTheEnd == g_readytorun # <<>> /\ Last(g_readytorun) = Idle

\* A task is parked in the pending list only while the running task holds the
\* pre-emption lock: every way the lock can end (sched_unlock(), blocking,
\* losing the CPU) puts the pending tasks back, so no wake-up is forgotten.
PendingOnlyWhileLocked ==
    g_pendingtasks # <<>> => lockcount[this_task] > 0

Descending(list, prio) ==
    \A i, j \in 1..Len(list) : i < j => prio[list[i]] >= prio[list[j]]

\* The prioritized lists are in descending priority order, after any sequence
\* of priority changes: the first waiter found by nxsem_post() is the most
\* urgent, and sched_mergepending() may resume its search.
PrioritizedListsSorted ==
    /\ Descending(g_pendingtasks, sched_priority)
    /\ \A st \in BlockedStates :
          TLIST_ISPRIORITIZED(st) => Descending(g_blocked[st], sched_priority)

\* The ready-to-run list is in descending priority order
\* (sched_readytorun_setpriority() says it puts the task "back into the
\* correct" place).
ReadyToRunSorted == Descending(g_readytorun, sched_priority)

\* Unless it holds the pre-emption lock, the running task has the highest
\* priority of all tasks that could run.
HighestPriorityRuns ==
    lockcount[this_task] = 0 =>
        \A t \in AllTasks :
            task_state[t] \in {"RUNNING", "READYTORUN", "PENDING"} =>
                sched_priority[t] <= sched_priority[this_task]

\* A task that holds the pre-emption lock loses the CPU only by blocking or by
\* having its own priority set to at most that of the next ready task
\* (sched_running_setpriority() does not look at the lock): no wake-up or boost
\* of another task, by a task or by an interrupt handler, takes the CPU from it.
LockKeepsCPU ==
    [][(lockcount[this_task] > 0 /\ lockcount'[this_task] > 0
            /\ this_task' # this_task) =>
          \/ task_state'[this_task] \in BlockedStates
          \/ /\ Len(g_readytorun) > 1
             /\ sched_priority'[this_task] <= sched_priority[g_readytorun[2]]
      ]_schedVars

\* The CPU executes the task that this_task() names.  The context-switching
\* primitives never compare the two: they load other registers if what
\* sched_removereadytorun(), sched_addreadytorun() and sched_mergepending()
\* returned, combined by |=, ^= or alone, says that the head has changed.
HeadHasCPU == cpu = this_task

\* The word that Linux reads differs from the priority of the task that has the
\* CPU only after that priority was changed in place, and then until the next
\* switch.  Whichever primitive switches, also after several changes of the head
\* in one primitive, publishes the priority of the task that it really resumes,
\* and up_block_task() never leaves its 0 behind for a task of another priority.
StaleOnlyInPlace ==
    [][shadow_prio' # sched_priority'[cpu'] =>
          /\ UNCHANGED <<cpu, shadow_prio>>
          /\ \/ shadow_prio # sched_priority[cpu]
             \/ /\ sched_priority'[cpu] # sched_priority[cpu]
                /\ UNCHANGED <<g_readytorun, task_state>>]_schedVars

=============================================================================
