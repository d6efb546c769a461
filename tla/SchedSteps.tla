---------------------------- MODULE SchedSteps -----------------------------
(***************************************************************************)
(* Every primitive of module Sched preserves the inductive invariant.      *)
(***************************************************************************)
EXTENDS SchedQueues

\* up_block_task() preserves the invariant.
LEMMA BlockInv ==
    ASSUME SchedInv, NEW st \in BlockedStates, up_block_task(st)
    PROVE  SchedInv'
<1> DEFINE t == this_task
           q1 == sched_removereadytorun(t, Queues)
           q2 == sched_mergepending(q1, sched_priority)
           q == [q2 EXCEPT !.state = [q2.state EXCEPT ![t] = st]]
           b == IF TLIST_ISPRIORITIZED(st)
                  THEN sched_addprioritized(t, g_blocked[st], sched_priority)
                  ELSE Append(g_blocked[st], t)
<1>1. /\ RunnableOK(Queues) /\ BlockedOK(Queues, g_blocked)
      /\ t \in Tasks /\ t \in Range(g_readytorun)
      /\ t \in AllTasks /\ Tasks \subseteq AllTasks
  BY ListsOK DEF up_block_task, AllTasks
<1>2. /\ Queues.ready = g_readytorun /\ Queues.pend = g_pendingtasks
      /\ Queues.state = task_state
      /\ PriorityOK(sched_priority)
  BY DEF Queues, SchedInv
<1>3. /\ RunnableOK(q1)
      /\ q1.pend = g_pendingtasks
      /\ Range(q1.ready) = Range(g_readytorun) \ {t}
      /\ \A u \in AllTasks \ Range(g_readytorun) : q1.state[u] = task_state[u]
      /\ Descending(g_readytorun, sched_priority) =>
            Descending(q1.ready, sched_priority)
  BY <1>1, <1>2, RemoveReadyToRun
<1> HIDE DEF q1
<1>4. /\ RunnableOK(q2)
      /\ q2.pend = <<>>
      /\ Range(q2.ready) = Range(q1.ready) \cup Range(q1.pend)
      /\ \A u \in AllTasks \ (Range(q1.ready) \cup Range(q1.pend)) :
            q2.state[u] = q1.state[u]
      /\ Descending(q1.ready, sched_priority) =>
            Descending(q2.ready, sched_priority)
  BY <1>2, <1>3, MergeQueues
<1>5. /\ g_readytorun' = q2.ready /\ g_pendingtasks' = q2.pend
      /\ task_state' = [q2.state EXCEPT ![t] = st]
      /\ g_blocked' = [g_blocked EXCEPT ![st] = b]
      /\ sched_priority' = sched_priority /\ lockcount' = lockcount
      /\ SwitchTo(Head(q2.ready), sched_priority)
  <2>1. RemovesHead(t, Queues)
    BY DEF RemovesHead, Queues, this_task
  <2>2. /\ SetQueues(q) /\ g_blocked' = [g_blocked EXCEPT ![st] = b]
        /\ sched_priority' = sched_priority /\ lockcount' = lockcount
        /\ SwitchTo(Head(q2.ready), sched_priority)
    BY <2>1, ZenonT(30) DEF up_block_task, q1
  <2> HIDE DEF q2, b
  <2>3. /\ q.ready = q2.ready /\ q.pend = q2.pend
        /\ q.state = [q2.state EXCEPT ![t] = st]
    BY <1>4 DEF RunnableOK
  <2> HIDE DEF q
  <2> QED
    BY <2>2, <2>3 DEF SetQueues
<1> HIDE DEF q2
<1>6. /\ Range(q2.ready) = (Range(g_readytorun) \cup Range(g_pendingtasks)) \ {t}
      /\ t \notin Range(g_pendingtasks)
  BY <1>1, <1>2, <1>3, <1>4 DEF RunnableOK
<1>7. /\ q.ready = q2.ready /\ q.pend = q2.pend
      /\ q.state = [q2.state EXCEPT ![t] = st]
      /\ q.state \in [AllTasks -> TaskStates]
      /\ q \in [ready : Seq(AllTasks), pend : Seq(Tasks),
                state : [AllTasks -> TaskStates]]
  <2>1. [q2.state EXCEPT ![t] = st] \in [AllTasks -> TaskStates]
    BY <1>4, ZenonT(30) DEF RunnableOK, TaskStates
  <2> QED
    BY <2>1, <1>4, SMTT(30) DEF RunnableOK
<1> HIDE DEF q
<1>8. /\ Range(<<>>) = {}
      /\ Range(q2.ready) \subseteq AllTasks
  BY <1>4, ListElements DEF Range, RunnableOK
<1>9. RunnableOK(q)
  BY <1>4, <1>6, <1>7, <1>8 DEF RunnableOK
<1>10. /\ g_blocked[st] \in Seq(Tasks) /\ IsInjective(g_blocked[st])
       /\ Range(g_blocked[st]) \subseteq Tasks
       /\ t \notin Range(g_blocked[st])
  <2>1. task_state[t] = "RUNNING" /\ st # "RUNNING"
    BY <1>1, <1>2, BlockedAssumption
       DEF RunnableOK, this_task, AllBlockedStates
  <2> QED
    BY <2>1, <1>1, <1>2, ListElements DEF BlockedOK
<1>11. /\ b \in Seq(Tasks) /\ IsInjective(b)
       /\ Range(b) = Range(g_blocked[st]) \cup {t}
       /\ TLIST_ISPRIORITIZED(st) => Descending(b, sched_priority)
  <2>1. CASE TLIST_ISPRIORITIZED(st)
    <3>1. \A x \in Tasks : sched_priority[x] \in Int
      BY <1>1, <1>2 DEF PriorityOK
    <3>2. Descending(g_blocked[st], sched_priority)
      BY <2>1 DEF SchedInv, PrioritizedListsSorted
    <3> QED
      BY <3>1, <3>2, <2>1, <1>1, <1>10, AddPrioritized
  <2>2. CASE ~TLIST_ISPRIORITIZED(st)
    BY <2>2, <1>1, <1>10, AppendToList
  <2> QED
    BY <2>1, <2>2
<1> HIDE DEF b
<1>12. BlockedOK(q, g_blocked')
  <2>1. \A u \in AllTasks : u # t /\ u \notin Range(g_readytorun) =>
                               /\ u \notin Range(g_pendingtasks) =>
                                     q.state[u] = task_state[u]
    BY <1>3, <1>4, <1>7
  <2>2. q.state[t] = st
    BY <1>1, <1>4, <1>7 DEF RunnableOK
  <2>3. ASSUME NEW u \in AllTasks, u # t,
               u \in Range(g_readytorun) \cup Range(g_pendingtasks)
        PROVE  q.state[u] \notin BlockedStates /\ task_state[u] \notin BlockedStates
    <3>1. u \in Range(q.ready)
      BY <2>3, <1>6, <1>7
    <3>2. q.state[u] \in {"RUNNING", "READYTORUN"}
      BY <3>1, <1>9 DEF RunnableOK
    <3>3. task_state[u] \in {"RUNNING", "READYTORUN", "PENDING"}
      BY <2>3, <1>1, <1>2 DEF RunnableOK
    <3> QED
      BY <3>2, <3>3, BlockedAssumption DEF AllBlockedStates
  <2>4. \A u \in AllTasks : u \notin Range(q.ready) \cup Range(q.pend) =>
                               q.state[u] \in BlockedStates
    BY <2>1, <2>2, <1>1, <1>2, <1>6, <1>7 DEF BlockedOK
  <2>5. task_state[t] = "RUNNING" /\ "RUNNING" \notin BlockedStates
    BY <1>1, <1>2, BlockedAssumption
       DEF RunnableOK, this_task, AllBlockedStates
  <2>6. ASSUME NEW x \in BlockedStates, NEW u \in AllTasks
        PROVE  u \in Range(g_blocked'[x]) <=> q.state[u] = x
    <3>1. u \in Range(g_blocked[x]) <=> task_state[u] = x
      BY <1>1, <1>2 DEF BlockedOK
    <3>2. g_blocked'[x] = IF x = st THEN b ELSE g_blocked[x]
      BY <1>1, <1>5 DEF BlockedOK
    <3>3. CASE u = t
      BY <3>1, <3>2, <3>3, <2>2, <2>5, <1>11
    <3>4. CASE u # t
      BY <3>1, <3>2, <3>4, <2>1, <2>3, <1>11
    <3> QED
      BY <3>3, <3>4
  <2>7. g_blocked' \in [BlockedStates -> Seq(Tasks)]
    BY <1>1, <1>5, <1>11 DEF BlockedOK
  <2>8. \A x \in BlockedStates : IsInjective(g_blocked'[x])
    BY <1>1, <1>5, <1>11 DEF BlockedOK
  <2> QED
    BY <2>4, <2>6, <2>7, <2>8 DEF BlockedOK
<1>13. PrioritizedListsSorted'
  <2>1. Descending(<<>>, sched_priority)
    BY DEF Descending
  <2>2. \A x \in BlockedStates : TLIST_ISPRIORITIZED(x) =>
                                   Descending(g_blocked'[x], sched_priority)
    BY <1>1, <1>5, <1>11 DEF SchedInv, PrioritizedListsSorted, BlockedOK
  <2> QED
    BY <2>1, <2>2, <1>4, <1>5 DEF PrioritizedListsSorted
<1>14. DEBUG_ASSERTIONS => ReadyToRunSorted'
  BY <1>3, <1>4, <1>5 DEF SchedInv, ReadyToRunSorted
<1>15. PendingOnlyWhileLocked'
  BY <1>4, <1>5 DEF PendingOnlyWhileLocked
<1>16. cpu' = Head(q.ready) /\ shadow_prio' \in 0..SCHED_PRIORITY_MAX
  BY <1>2, <1>4, <1>5, <1>7, SwitchOrStay
<1> QED
  BY <1>2, <1>5, <1>7, <1>9, <1>12, <1>13, <1>14, <1>15, <1>16,
     InvFromLists, ZenonT(30)
     DEF SchedInv, SchedTypeOK

\* up_unblock_task() preserves the invariant.
LEMMA UnblockInv ==
    ASSUME SchedInv, NEW t \in Tasks, up_unblock_task(t)
    PROVE  SchedInv'
<1> DEFINE q == sched_addreadytorun(t, Queues, sched_priority)
           st == task_state[t]
           b == dq_rem(t, g_blocked[st])
<1>1. /\ RunnableOK(Queues) /\ BlockedOK(Queues, g_blocked)
      /\ lockcount \in [AllTasks -> Nat]
      /\ Tasks \subseteq AllTasks /\ t \in AllTasks
      /\ st \in BlockedStates
  BY ListsOK DEF up_unblock_task, AllTasks
<1>2. /\ Queues.ready = g_readytorun /\ Queues.pend = g_pendingtasks
      /\ Queues.state = task_state
      /\ PriorityOK(sched_priority)
  BY DEF Queues, SchedInv
<1>3. "RUNNING" \notin BlockedStates /\ "READYTORUN" \notin BlockedStates
      /\ "PENDING" \notin BlockedStates
  BY BlockedAssumption DEF AllBlockedStates
<1>4. t \notin Range(g_readytorun) /\ t \notin Range(g_pendingtasks)
  BY <1>1, <1>2, <1>3, SMTT(30) DEF RunnableOK
<1>5. /\ RunnableOK(q)
      /\ Range(q.ready) \cup Range(q.pend) =
            Range(g_readytorun) \cup Range(g_pendingtasks) \cup {t}
      /\ \A u \in AllTasks \ (Range(g_readytorun) \cup {t}) :
            q.state[u] = task_state[u]
      /\ Head(q.ready) # this_task => lockcount[this_task] = 0
      /\ AddsHead(t, Queues, sched_priority) \/ Head(q.ready) = this_task
      /\ q.pend # g_pendingtasks => lockcount[this_task] > 0
      /\ Descending(g_pendingtasks, sched_priority) =>
            Descending(q.pend, sched_priority)
      /\ Descending(g_readytorun, sched_priority) =>
            Descending(q.ready, sched_priority)
  <2>1. AddedTo(q, t, Queues, sched_priority)
    BY <1>1, <1>2, <1>4, AddReadyToRun
  <2> QED
    BY <2>1, <1>2 DEF AddedTo, this_task
<1>6. /\ g_readytorun' = q.ready /\ g_pendingtasks' = q.pend
      /\ task_state' = q.state
      /\ g_blocked' = [g_blocked EXCEPT ![st] = b]
      /\ sched_priority' = sched_priority /\ lockcount' = lockcount
      /\ IF AddsHead(t, Queues, sched_priority)
           THEN SwitchTo(Head(q.ready), sched_priority)
           ELSE UNCHANGED <<cpu, shadow_prio>>
  BY DEF up_unblock_task, SetQueues
<1> HIDE DEF q
<1>7. /\ b \in Seq(Tasks) /\ IsInjective(b)
      /\ Range(b) = Range(g_blocked[st]) \ {t}
      /\ Descending(g_blocked[st], sched_priority) =>
            Descending(b, sched_priority)
  <2>1. /\ g_blocked[st] \in Seq(Tasks) /\ IsInjective(g_blocked[st])
        /\ t \in Range(g_blocked[st])
    BY <1>1, <1>2 DEF BlockedOK
  <2> QED
    BY <2>1, DqRem
<1> HIDE DEF b
<1>8. BlockedOK(q, g_blocked')
  <2>1. ASSUME NEW u \in Range(q.ready) \cup Range(q.pend)
        PROVE  q.state[u] \notin BlockedStates
    BY <1>3, <1>5 DEF RunnableOK
  <2>2. ASSUME NEW u \in AllTasks,
               u \notin Range(q.ready) \cup Range(q.pend)
        PROVE  q.state[u] = task_state[u] /\ task_state[u] \in BlockedStates
    BY <2>2, <1>1, <1>2, <1>5 DEF BlockedOK
  <2>3. ASSUME NEW x \in BlockedStates, NEW u \in AllTasks
        PROVE  u \in Range(g_blocked'[x]) <=> q.state[u] = x
    <3>1. u \in Range(g_blocked[x]) <=> task_state[u] = x
      BY <1>1, <1>2 DEF BlockedOK
    <3>2. g_blocked'[x] = IF x = st THEN b ELSE g_blocked[x]
      BY <1>1, <1>6 DEF BlockedOK
    <3>3. CASE u \in Range(q.ready) \cup Range(q.pend)
      <4>1. q.state[u] # x
        BY <3>3, <2>1
      <4>2. u = t \/ task_state[u] \notin BlockedStates
        BY <3>3, <1>1, <1>2, <1>3, <1>5, ZenonT(30) DEF RunnableOK
      <4> QED
        BY <4>1, <4>2, <3>1, <3>2, <1>7
    <3>4. CASE u \notin Range(q.ready) \cup Range(q.pend)
      BY <3>1, <3>2, <3>4, <2>2, <1>5, <1>7
    <3> QED
      BY <3>3, <3>4
  <2>4. g_blocked' \in [BlockedStates -> Seq(Tasks)]
    BY <1>1, <1>6, <1>7 DEF BlockedOK
  <2>5. \A x \in BlockedStates : IsInjective(g_blocked'[x])
    BY <1>1, <1>6, <1>7, SMTT(30) DEF BlockedOK
  <2> QED
    BY <2>2, <2>3, <2>4, <2>5 DEF BlockedOK
<1>9. PrioritizedListsSorted'
  <2>1. \A x \in BlockedStates : TLIST_ISPRIORITIZED(x) =>
                                   Descending(g_blocked'[x], sched_priority)
    BY <1>1, <1>6, <1>7 DEF SchedInv, PrioritizedListsSorted, BlockedOK
  <2> QED
    BY <2>1, <1>5, <1>6, SMTT(30) DEF SchedInv, PrioritizedListsSorted
<1>10. DEBUG_ASSERTIONS => ReadyToRunSorted'
  BY <1>5, <1>6 DEF SchedInv, ReadyToRunSorted
<1>11. PendingOnlyWhileLocked'
  <2>1. CASE Head(q.ready) = this_task
    BY <2>1, <1>5, <1>6 DEF SchedInv, PendingOnlyWhileLocked, this_task
  <2>2. CASE Head(q.ready) # this_task
    BY <2>2, <1>5, <1>6, SMTT(30) DEF SchedInv, PendingOnlyWhileLocked, this_task
  <2> QED
    BY <2>1, <2>2
<1>12. cpu' = Head(q.ready) /\ shadow_prio' \in 0..SCHED_PRIORITY_MAX
  BY <1>2, <1>5, <1>6, SwitchOrStay
<1> QED
  BY <1>2, <1>5, <1>6, <1>8, <1>9, <1>10, <1>11, <1>12, InvFromLists, ZenonT(30)
     DEF SchedInv, SchedTypeOK

\* The blocked lists stay in agreement when only the runnable lists change.
LEMMA SameBlocked ==
    ASSUME NEW q, RunnableOK(q), BlockedOK(q, g_blocked),
           NEW r, RunnableOK(r),
           Range(r.ready) \cup Range(r.pend) = Range(q.ready) \cup Range(q.pend),
           \A u \in AllTasks \ (Range(q.ready) \cup Range(q.pend)) :
              r.state[u] = q.state[u]
    PROVE  BlockedOK(r, g_blocked)
<1>1. "RUNNING" \notin BlockedStates /\ "READYTORUN" \notin BlockedStates
      /\ "PENDING" \notin BlockedStates
  BY BlockedAssumption DEF AllBlockedStates
<1>2. \A u \in Range(q.ready) \cup Range(q.pend) :
         q.state[u] \notin BlockedStates /\ r.state[u] \notin BlockedStates
  BY <1>1, ZenonT(30) DEF RunnableOK
<1> QED
  BY <1>2 DEF BlockedOK

\* A task that sched_addreadytorun() puts into the ready-to-run list is not
\* parked as well.
LEMMA NotParked ==
    ASSUME NEW q, RunnableOK(q), NEW prio, PriorityOK(prio),
           NEW t \in Tasks, t \notin Range(q.ready), t \notin Range(q.pend),
           t \in Range(sched_addreadytorun(t, q, prio).ready)
    PROVE  sched_addreadytorun(t, q, prio).pend = q.pend
BY DEF sched_addreadytorun, Parks, AddsHead, RunnableOK

\* A new priority for a task that is ready to run leaves the lists of the
\* tasks that are not in order.
LEMMA OtherListsSorted ==
    ASSUME SchedInv, NEW t \in Tasks, t \in Range(g_readytorun), NEW prio,
           \A u \in AllTasks : u # t => prio[u] = sched_priority[u]
    PROVE  /\ Descending(g_pendingtasks, prio)
           /\ \A st \in BlockedStates : TLIST_ISPRIORITIZED(st) =>
                 Descending(g_blocked[st], prio)
<1>1. /\ RunnableOK(Queues) /\ BlockedOK(Queues, g_blocked)
      /\ Tasks \subseteq AllTasks /\ t \in AllTasks
  BY ListsOK DEF AllTasks
<1>2. /\ Queues.ready = g_readytorun /\ Queues.pend = g_pendingtasks
      /\ Queues.state = task_state
  BY DEF Queues
<1>3. Descending(g_pendingtasks, prio)
  <2>1. g_pendingtasks \in Seq(Tasks) /\ t \notin Range(g_pendingtasks)
    BY <1>1, <1>2 DEF RunnableOK
  <2>2. \A u \in Range(g_pendingtasks) : sched_priority[u] = prio[u]
    BY <2>1, <1>1, ListElements
  <2> QED
    BY <2>1, <2>2, OtherPriority DEF SchedInv, PrioritizedListsSorted
<1>4. ASSUME NEW x \in BlockedStates, TLIST_ISPRIORITIZED(x)
      PROVE  Descending(g_blocked[x], prio)
  <2>1. /\ g_blocked[x] \in Seq(Tasks)
        /\ Descending(g_blocked[x], sched_priority)
    BY <1>1, <1>4 DEF SchedInv, PrioritizedListsSorted, BlockedOK
  <2>2. t \notin Range(g_blocked[x])
    <3>1. task_state[t] \in {"RUNNING", "READYTORUN"}
      BY <1>1, <1>2 DEF RunnableOK
    <3> QED
      BY <3>1, <1>1, <1>2, BlockedAssumption DEF BlockedOK, AllBlockedStates
  <2>3. \A u \in Range(g_blocked[x]) : sched_priority[u] = prio[u]
    BY <2>1, <2>2, <1>1, ListElements
  <2> QED
    BY <2>1, <2>3, OtherPriority
<1> QED
  BY <1>3, <1>4

\* up_reprioritize_rtr() switches exactly when the head of the ready-to-run list
\* is no longer the running task once the task is back in its list.  A running
\* task that gives way to the next one, or shares its priority, does lose it.
LEMMA SwitchFlag ==
    ASSUME SchedInv, NEW t \in Tasks, t \in Range(g_readytorun), NEW prio,
           PriorityOK(prio)
    PROVE  LET q0 == sched_removereadytorun(t, Queues)
               q1 == sched_addreadytorun(t, q0, prio)
           IN  /\ ~(RemovesHead(t, Queues) <=> AddsHead(t, q0, prio))
                     <=> Head(q1.ready) # this_task
               /\ t = this_task /\ prio[t] <= prio[g_readytorun[2]] =>
                     Head(q1.ready) # this_task
<1> DEFINE q0 == sched_removereadytorun(t, Queues)
           q1 == sched_addreadytorun(t, q0, prio)
<1>1. /\ RunnableOK(Queues) /\ Queues.ready = g_readytorun
      /\ Queues.pend = g_pendingtasks /\ lockcount \in [AllTasks -> Nat]
      /\ t \in AllTasks
  BY ListsOK DEF Queues, AllTasks
<1>2. /\ RunnableOK(q0)
      /\ q0.pend = g_pendingtasks
      /\ Range(q0.ready) = Range(g_readytorun) \ {t}
      /\ this_task # t => Head(q0.ready) = this_task
      /\ this_task = t => Head(q0.ready) = g_readytorun[2]
  BY <1>1, RemoveReadyToRun, ZenonT(30) DEF this_task
<1>3. RemovesHead(t, Queues) <=> this_task = t
  BY <1>1 DEF RemovesHead, this_task
<1> HIDE DEF q0
<1>4. t \notin Range(q0.ready) /\ t \notin Range(q0.pend)
  BY <1>1, <1>2 DEF RunnableOK
<1>5. Head(q0.ready) # t /\ Head(q0.ready) \in AllTasks
  BY <1>2, <1>4, ListElements DEF RunnableOK
<1>6. /\ AddsHead(t, q0, prio) <=> Head(q1.ready) # Head(q0.ready)
      /\ Head(q1.ready) # Head(q0.ready) =>
            Head(q1.ready) = t /\ prio[t] > prio[Head(q0.ready)]
  <2>1. AddedTo(q1, t, q0, prio)
    BY <1>1, <1>2, <1>4, AddReadyToRun
  <2> HIDE DEF q1
  <2> QED
    BY <2>1 DEF AddedTo
<1> HIDE DEF q1
<1>7. prio[t] \in Int /\ prio[Head(q0.ready)] \in Int
  BY <1>1, <1>5 DEF PriorityOK
<1>8. t = this_task /\ prio[t] <= prio[g_readytorun[2]] =>
         Head(q1.ready) # this_task
  BY <1>2, <1>5, <1>6, <1>7
<1>9. ~(RemovesHead(t, Queues) <=> AddsHead(t, q0, prio))
         <=> Head(q1.ready) # this_task
  BY <1>2, <1>3, <1>5, <1>6, ZenonT(30)
<1> QED
  BY <1>8, <1>9 DEF q0, q1

\* up_reprioritize_rtr() preserves the invariant.
LEMMA ReprioritizeInv ==
    ASSUME SchedInv, NEW t \in Tasks, t \in Range(g_readytorun),
           NEW p \in Priorities, up_reprioritize_rtr(t, p)
    PROVE  SchedInv'
<1> DEFINE prio == [sched_priority EXCEPT ![t] = p]
           q0 == sched_removereadytorun(t, Queues)
           q1 == sched_addreadytorun(t, q0, prio)
           q2 == sched_mergepending(q1, prio)
           q == IF Head(q1.ready) # this_task THEN q2 ELSE q1
<1>1. /\ RunnableOK(Queues) /\ BlockedOK(Queues, g_blocked)
      /\ lockcount \in [AllTasks -> Nat]
      /\ Tasks \subseteq AllTasks /\ t \in AllTasks
  BY ListsOK DEF AllTasks
<1>2. /\ Queues.ready = g_readytorun /\ Queues.pend = g_pendingtasks
      /\ Queues.state = task_state
  BY DEF Queues
<1>3. PriorityOK(prio)
  BY <1>1, TasksAssumption, BoundsAssumption
     DEF SchedInv, PriorityOK, Priorities
<1>4. /\ \A u \in AllTasks : u # t => prio[u] = sched_priority[u]
      /\ prio[t] = p
  BY <1>1 DEF SchedInv, PriorityOK
<1> HIDE DEF prio
<1>5. /\ RunnableOK(q0)
      /\ q0.pend = g_pendingtasks
      /\ Range(q0.ready) = Range(g_readytorun) \ {t}
      /\ \A u \in AllTasks \ Range(g_readytorun) : q0.state[u] = task_state[u]
      /\ Head(g_readytorun) # t => Head(q0.ready) = Head(g_readytorun)
      /\ \A pr : Descending(g_readytorun, pr) => Descending(q0.ready, pr)
  BY <1>1, <1>2, RemoveReadyToRun, ZenonT(30)
<1> HIDE DEF q0
<1>6. t \notin Range(q0.ready) /\ t \notin Range(q0.pend)
  BY <1>1, <1>2, <1>5 DEF RunnableOK
<1>7. /\ RunnableOK(q1)
      /\ Range(q1.ready) \cup Range(q1.pend) =
            Range(q0.ready) \cup Range(q0.pend) \cup {t}
      /\ \A u \in AllTasks \ (Range(q0.ready) \cup {t}) :
            q1.state[u] = q0.state[u]
      /\ q1.pend # q0.pend => lockcount[Head(q0.ready)] > 0
      /\ Head(q1.ready) # Head(q0.ready) => Head(q1.ready) = t
      /\ Descending(q0.pend, prio) => Descending(q1.pend, prio)
      /\ Descending(q0.ready, prio) => Descending(q1.ready, prio)
  <2>1. AddedTo(q1, t, q0, prio)
    BY <1>1, <1>3, <1>5, <1>6, AddReadyToRun
  <2> HIDE DEF q1
  <2> QED
    BY <2>1, ZenonT(30) DEF AddedTo
<1>8. /\ g_readytorun' = q.ready /\ g_pendingtasks' = q.pend
      /\ task_state' = q.state
      /\ g_blocked' = g_blocked /\ lockcount' = lockcount
      /\ sched_priority' = prio
      /\ \/ SwitchTo(Head(q.ready), prio)
         \/ Head(q.ready) = this_task /\ UNCHANGED <<cpu, shadow_prio>>
  <2>1. ~(RemovesHead(t, Queues) <=> AddsHead(t, q0, prio))
           <=> Head(q1.ready) # this_task
    BY <1>3, SwitchFlag, ZenonT(30) DEF q0
  <2> QED
    BY <2>1, ZenonT(30) DEF up_reprioritize_rtr, SetQueues, prio, q0
<1> HIDE DEF q1
<1>9. /\ RunnableOK(q2)
      /\ q2.pend = <<>>
      /\ Range(q2.ready) = Range(q1.ready) \cup Range(q1.pend)
      /\ \A u \in AllTasks \ (Range(q1.ready) \cup Range(q1.pend)) :
            q2.state[u] = q1.state[u]
      /\ Descending(q1.ready, prio) => Descending(q2.ready, prio)
  BY <1>3, <1>7, MergeQueues
<1> HIDE DEF q2
<1>10. Range(<<>>) = {}
  BY SMTT(30) DEF Range
<1>11. /\ RunnableOK(q)
       /\ Range(q.ready) \cup Range(q.pend) =
             Range(g_readytorun) \cup Range(g_pendingtasks)
       /\ \A u \in AllTasks \ (Range(g_readytorun) \cup Range(g_pendingtasks)) :
             q.state[u] = task_state[u]
  BY <1>5, <1>7, <1>9, <1>10, SMTT(30)
<1>12. BlockedOK(q, g_blocked')
  BY <1>1, <1>2, <1>8, <1>11, SameBlocked
<1>13. PrioritizedListsSorted'
  <2>1. Descending(<<>>, prio)
    BY DEF Descending
  <2>2. /\ Descending(g_pendingtasks, prio)
        /\ \A st \in BlockedStates : TLIST_ISPRIORITIZED(st) =>
              Descending(g_blocked[st], prio)
    BY <1>4, OtherListsSorted
  <2>3. Descending(q.pend, prio)
    BY <2>1, <2>2, <1>5, <1>7, <1>9, SMTT(30)
  <2> HIDE DEF q
  <2> QED
    BY <2>2, <2>3, <1>8 DEF PrioritizedListsSorted
<1>14. DEBUG_ASSERTIONS => ReadyToRunSorted'
  <2>1. SUFFICES ASSUME DEBUG_ASSERTIONS
                 PROVE  Descending(q.ready, prio)
    BY <1>8 DEF ReadyToRunSorted
  <2>2. q0.ready \in Seq(AllTasks) /\ Descending(q0.ready, sched_priority)
    BY <2>1, <1>5 DEF SchedInv, ReadyToRunSorted, RunnableOK
  <2>3. \A u \in Range(q0.ready) : sched_priority[u] = prio[u]
    BY <2>2, <1>4, <1>6, ListElements
  <2>4. Descending(q0.ready, prio)
    BY <2>2, <2>3, OtherPriority
  <2> QED
    BY <2>4, <1>7, <1>9
<1>15. PendingOnlyWhileLocked'
  <2>1. CASE Head(q1.ready) # this_task
    BY <2>1, <1>8, <1>9 DEF PendingOnlyWhileLocked
  <2>2. CASE Head(q1.ready) = this_task
    <3>1. Head(q0.ready) = this_task \/ t = this_task
      BY <1>5 DEF this_task
    <3>2. Head(q0.ready) \in Range(q0.ready)
      BY <1>5, ListElements DEF RunnableOK
    <3>3. q1.pend # g_pendingtasks => lockcount[this_task] > 0
      <4>1. CASE t = this_task
        <5>1. t \in Range(q1.ready)
          BY <4>1, <2>2, <1>7, ListElements DEF RunnableOK
        <5> QED
          BY <5>1, <1>3, <1>5, <1>6, <1>7, NotParked, SMTT(30) DEF q1
      <4>2. CASE t # this_task
        BY <4>2, <1>5, <1>7 DEF this_task
      <4> QED
        BY <4>1, <4>2, SMTT(30)
    <3> QED
      BY <3>3, <2>2, <1>8 DEF SchedInv, PendingOnlyWhileLocked, this_task
  <2> QED
    BY <2>1, <2>2
<1>16. cpu' = Head(q.ready) /\ shadow_prio' \in 0..SCHED_PRIORITY_MAX
  <2> HIDE DEF q
  <2> QED
    BY <1>3, <1>8, <1>11, SwitchOrStay
<1> HIDE DEF q
<1> QED
  BY <1>3, <1>8, <1>11, <1>12, <1>13, <1>14, <1>15, <1>16, InvFromLists,
     ZenonT(30)
     DEF SchedInv, SchedTypeOK

\* A priority that changes in place preserves the invariant.  With the
\* assertions compiled in it happens to the running task only, when it keeps
\* the CPU.
LEMMA ChangePriorityInv ==
    ASSUME SchedInv, NEW t \in Tasks, t \in Range(g_readytorun),
           NEW p \in Priorities, ChangePriority(t, p),
           DEBUG_ASSERTIONS => t = this_task /\ p > sched_priority[g_readytorun[2]]
    PROVE  SchedInv'
<1>1. /\ RunnableOK(Queues) /\ BlockedOK(Queues, g_blocked)
      /\ t \in AllTasks
  BY ListsOK DEF AllTasks
<1>2. /\ g_readytorun' = g_readytorun /\ g_pendingtasks' = g_pendingtasks
      /\ task_state' = task_state /\ g_blocked' = g_blocked
      /\ lockcount' = lockcount /\ shadow_prio' = shadow_prio
      /\ cpu' = Head(g_readytorun)
      /\ sched_priority' = [sched_priority EXCEPT ![t] = p]
  BY DEF ChangePriority, SchedInv, HeadHasCPU, this_task
<1>3. PriorityOK(sched_priority')
  BY <1>1, <1>2, TasksAssumption, BoundsAssumption
     DEF SchedInv, PriorityOK, Priorities
<1>4. /\ \A u \in AllTasks : u # t => sched_priority'[u] = sched_priority[u]
      /\ sched_priority'[t] = p
  BY <1>1, <1>2 DEF SchedInv, PriorityOK
<1>5. PrioritizedListsSorted'
  BY <1>2, <1>4, OtherListsSorted, ZenonT(30) DEF PrioritizedListsSorted
<1>6. DEBUG_ASSERTIONS => ReadyToRunSorted'
  <2>1. SUFFICES ASSUME DEBUG_ASSERTIONS,
                        NEW i \in 1..Len(g_readytorun),
                        NEW j \in 1..Len(g_readytorun), i < j
                 PROVE  sched_priority'[g_readytorun[i]] >=
                           sched_priority'[g_readytorun[j]]
    BY <1>2 DEF ReadyToRunSorted, Descending
  <2>2. /\ g_readytorun \in Seq(AllTasks) /\ g_readytorun # <<>>
        /\ g_readytorun[1] = t
        /\ p > sched_priority[g_readytorun[2]]
        /\ g_readytorun[i] \in AllTasks /\ g_readytorun[j] \in AllTasks
        /\ Len(g_readytorun) \in Nat
    <3>1. g_readytorun \in Seq(AllTasks) /\ g_readytorun # <<>>
      BY <1>1 DEF RunnableOK, Queues
    <3>2. Len(g_readytorun) \in Nat /\ Head(g_readytorun) = g_readytorun[1]
          /\ \A k \in 1..Len(g_readytorun) : g_readytorun[k] \in AllTasks
      BY <3>1
    <3> QED
      BY <3>1, <3>2, <2>1 DEF this_task
  <2>3. IsInjective(g_readytorun)
    BY <1>1 DEF RunnableOK, Queues
  <2>4. g_readytorun[j] # t
    BY <2>1, <2>2, <2>3 DEF IsInjective
  <2>5. /\ sched_priority[g_readytorun[i]] >= sched_priority[g_readytorun[j]]
        /\ 2 \in 1..Len(g_readytorun)
        /\ 2 = j \/ sched_priority[g_readytorun[2]] >=
                       sched_priority[g_readytorun[j]]
    BY <2>1, <2>2 DEF SchedInv, ReadyToRunSorted, Descending
  <2>6. /\ p \in Int /\ sched_priority[g_readytorun[2]] \in Int
        /\ sched_priority[g_readytorun[j]] \in Int
    BY <2>2, <2>5 DEF SchedInv, PriorityOK, Priorities
  <2>7. CASE g_readytorun[i] = t
    BY <2>2, <2>4, <2>5, <2>6, <2>7, <1>4
  <2>8. CASE g_readytorun[i] # t
    BY <2>2, <2>4, <2>5, <2>8, <1>4
  <2> QED
    BY <2>7, <2>8
<1>7. PendingOnlyWhileLocked'
  BY <1>2, SMTT(30) DEF SchedInv, PendingOnlyWhileLocked, this_task
<1> QED
  BY <1>1, <1>2, <1>3, <1>5, <1>6, <1>7, InvFromLists, ZenonT(30)
     DEF SchedInv, SchedTypeOK, Queues

\* Moving a ready task to its new place, as sched_readytorun_setpriority()
\* does when the assertions are compiled in, preserves the invariant.
LEMMA MoveReadyInv ==
    ASSUME SchedInv, NEW t \in Tasks, task_state[t] = "READYTORUN",
           NEW p \in Priorities, ~(p > sched_priority[this_task]),
           DEBUG_ASSERTIONS, sched_readytorun_setpriority(t, p)
    PROVE  SchedInv'
<1> DEFINE prio == [sched_priority EXCEPT ![t] = p]
           q0 == sched_removereadytorun(t, Queues)
           q == sched_addreadytorun(t, q0, prio)
<1>1. /\ RunnableOK(Queues) /\ BlockedOK(Queues, g_blocked)
      /\ lockcount \in [AllTasks -> Nat]
      /\ Tasks \subseteq AllTasks /\ t \in AllTasks
  BY ListsOK DEF AllTasks
<1>2. /\ Queues.ready = g_readytorun /\ Queues.pend = g_pendingtasks
      /\ Queues.state = task_state
  BY SMTT(30) DEF Queues
<1>3. PriorityOK(prio)
  BY <1>1, TasksAssumption, BoundsAssumption
     DEF SchedInv, PriorityOK, Priorities
<1>4. /\ \A u \in AllTasks : u # t => prio[u] = sched_priority[u]
      /\ prio[t] = p
  BY <1>1 DEF SchedInv, PriorityOK
<1>5. /\ g_readytorun' = q.ready /\ g_pendingtasks' = q.pend
      /\ task_state' = q.state /\ sched_priority' = prio
      /\ lockcount' = lockcount /\ g_blocked' = g_blocked
      /\ shadow_prio' = shadow_prio /\ cpu' = cpu
  BY DEF sched_readytorun_setpriority, SetQueues
<1> HIDE DEF prio
<1>6. t \in Range(g_readytorun) /\ t # Head(g_readytorun)
  <2>1. t \in Range(g_readytorun)
    BY DEF SchedInv, ListsConsistent, AllTasks
  <2> QED
    BY <2>1, <1>1, <1>2 DEF RunnableOK
<1>7. /\ RunnableOK(q0)
      /\ q0.pend = g_pendingtasks
      /\ Range(q0.ready) = Range(g_readytorun) \ {t}
      /\ \A u \in AllTasks \ Range(g_readytorun) : q0.state[u] = task_state[u]
      /\ Head(q0.ready) = this_task
      /\ \A pr : Descending(g_readytorun, pr) => Descending(q0.ready, pr)
  BY <1>1, <1>2, <1>6, RemoveReadyToRun, SMTT(30) DEF this_task
<1> HIDE DEF q0
<1>8. t \notin Range(q0.ready) /\ t \notin Range(q0.pend)
  BY <1>1, <1>2, <1>6, <1>7, SMTT(30) DEF RunnableOK
<1>9. /\ RunnableOK(q)
      /\ Range(q.ready) \cup Range(q.pend) =
            Range(q0.ready) \cup Range(q0.pend) \cup {t}
      /\ \A u \in AllTasks \ (Range(q0.ready) \cup {t}) :
            q.state[u] = q0.state[u]
      /\ q.pend # q0.pend => lockcount[Head(q0.ready)] > 0
      /\ Head(q.ready) # Head(q0.ready) => lockcount[Head(q0.ready)] = 0
      /\ Head(q.ready) # Head(q0.ready) => prio[t] > prio[Head(q0.ready)]
      /\ Descending(q0.pend, prio) => Descending(q.pend, prio)
      /\ Descending(q0.ready, prio) => Descending(q.ready, prio)
  <2>1. AddedTo(q, t, q0, prio)
    BY <1>1, <1>3, <1>7, <1>8, AddReadyToRun, ZenonT(30)
  <2> HIDE DEF q
  <2> QED
    BY <2>1 DEF AddedTo
<1> HIDE DEF q
<1>10. this_task \in AllTasks /\ this_task # t
  BY <1>1, <1>2, <1>6, ListElements, SMTT(30) DEF RunnableOK, this_task
<1>11. Head(q.ready) = this_task
  BY <1>4, <1>7, <1>9, <1>10, SMTT(30)
<1>12. BlockedOK(q, g_blocked')
  <2>1. /\ Range(q.ready) \cup Range(q.pend) =
             Range(g_readytorun) \cup Range(g_pendingtasks)
        /\ \A u \in AllTasks \ (Range(g_readytorun) \cup Range(g_pendingtasks)) :
             q.state[u] = task_state[u]
    BY <1>6, <1>7, <1>9, ZenonT(30)
  <2>2. RunnableOK(q)
    BY <1>9, Zenon
  <2> QED
    BY <2>1, <2>2, <1>1, <1>2, <1>5, SameBlocked, SMTT(30)
<1>13. PrioritizedListsSorted'
  <2>1. /\ Descending(g_pendingtasks, prio)
        /\ \A st \in BlockedStates : TLIST_ISPRIORITIZED(st) =>
              Descending(g_blocked[st], prio)
    BY <1>4, <1>6, OtherListsSorted
  <2> QED
    BY <2>1, <1>5, <1>7, <1>9, ZenonT(30) DEF PrioritizedListsSorted
<1>14. ReadyToRunSorted'
  <2>1. q0.ready \in Seq(AllTasks) /\ Descending(q0.ready, sched_priority)
    BY <1>7 DEF SchedInv, ReadyToRunSorted, RunnableOK
  <2>2. \A u \in Range(q0.ready) : sched_priority[u] = prio[u]
    BY <2>1, <1>4, <1>8, ListElements
  <2>3. Descending(q0.ready, prio)
    BY <2>1, <2>2, OtherPriority, SMTT(30)
  <2> QED
    BY <2>3, <1>5, <1>9, SMTT(30) DEF ReadyToRunSorted
<1>15. PendingOnlyWhileLocked'
  BY <1>5, <1>7, <1>9, <1>11,
     SMTT(30) DEF SchedInv, PendingOnlyWhileLocked, this_task
<1>16. /\ cpu' = Head(q.ready) /\ PriorityOK(sched_priority')
       /\ lockcount' \in [AllTasks -> 0..MAX_LOCK_COUNT]
       /\ shadow_prio' \in 0..SCHED_PRIORITY_MAX
  BY <1>3, <1>5, <1>11, ZenonT(30) DEF SchedInv, SchedTypeOK, HeadHasCPU
<1> QED
  BY <1>5, <1>9, <1>12, <1>13, <1>14, <1>15, <1>16, InvFromLists, ZenonT(30)

\* r has the tasks of list, in the order of the priorities prio.
Reordered(r, list, prio) ==
    /\ r \in Seq(Tasks) /\ IsInjective(r)
    /\ Range(r) = Range(list)
    /\ Descending(r, prio)

\* sched_blocked_setpriority() moves the task within its list.
LEMMA MovedList ==
    ASSUME NEW list \in Seq(Tasks), IsInjective(list),
           NEW t \in Tasks, t \in Range(list), Descending(list, sched_priority),
           NEW prio, \A x \in Tasks : prio[x] \in Int,
           \A u \in AllTasks : u # t => prio[u] = sched_priority[u]
    PROVE  Reordered(sched_addprioritized(t, dq_rem(t, list), prio), list, prio)
<1> DEFINE l == dq_rem(t, list)
           r == sched_addprioritized(t, l, prio)
<1>1. /\ l \in Seq(Tasks) /\ IsInjective(l)
      /\ Range(l) = Range(list) \ {t}
      /\ Descending(l, sched_priority)
  BY DqRem
<1> HIDE DEF l
<1>2. \A u \in Range(l) : sched_priority[u] = prio[u]
  BY <1>1, ListElements DEF AllTasks
<1>3. Descending(l, prio)
  BY <1>1, <1>2, OtherPriority
<1>4. t \notin Range(l)
  BY <1>1
<1>5. /\ r \in Seq(Tasks) /\ IsInjective(r)
      /\ Range(r) = Range(l) \cup {t}
      /\ Descending(r, prio)
  BY <1>1, <1>3, <1>4, AddPrioritized
<1> QED
  BY <1>1, <1>5, SMTT(30) DEF l, Reordered

\* sched_blocked_setpriority() preserves the invariant.
LEMMA BlockedPriorityInv ==
    ASSUME SchedInv, NEW t \in Tasks, NEW p \in Priorities,
           sched_blocked_setpriority(t, p)
    PROVE  SchedInv'
<1> DEFINE prio == [sched_priority EXCEPT ![t] = p]
           st == task_state[t]
           Moved(list) == sched_addprioritized(t, dq_rem(t, list), prio)
<1>1. /\ RunnableOK(Queues) /\ BlockedOK(Queues, g_blocked)
      /\ Tasks \subseteq AllTasks /\ t \in AllTasks
  BY ListsOK DEF AllTasks
<1>2. /\ Queues.ready = g_readytorun /\ Queues.pend = g_pendingtasks
      /\ Queues.state = task_state
  BY DEF Queues
<1>3. PriorityOK(prio)
  BY <1>1, TasksAssumption, BoundsAssumption
     DEF SchedInv, PriorityOK, Priorities
<1>4. \A u \in AllTasks : u # t => prio[u] = sched_priority[u]
  BY <1>1 DEF SchedInv, PriorityOK
<1>5. \A x \in Tasks : prio[x] \in Int
  BY <1>1, <1>3, SMTT(30) DEF PriorityOK
<1>6. /\ st \in BlockedStates \cup {"PENDING"}
      /\ sched_priority' = prio /\ lockcount' = lockcount
      /\ g_readytorun' = g_readytorun /\ task_state' = task_state
      /\ shadow_prio' = shadow_prio /\ cpu' = Head(g_readytorun)
      /\ g_pendingtasks' = IF st = "PENDING" THEN Moved(g_pendingtasks)
                                             ELSE g_pendingtasks
      /\ g_blocked' = IF st \in BlockedStates /\ TLIST_ISPRIORITIZED(st)
                        THEN [g_blocked EXCEPT ![st] = Moved(g_blocked[st])]
                        ELSE g_blocked
  BY DEF sched_blocked_setpriority, SchedInv, HeadHasCPU, this_task
<1> HIDE DEF prio, Moved
<1>7. "PENDING" \notin BlockedStates /\ "RUNNING" \notin BlockedStates
      /\ "READYTORUN" \notin BlockedStates
  BY BlockedAssumption, SMTT(30) DEF AllBlockedStates
<1>8. /\ g_pendingtasks \in Seq(Tasks) /\ IsInjective(g_pendingtasks)
      /\ Descending(g_pendingtasks, sched_priority)
      /\ t \in Range(g_pendingtasks) <=> st = "PENDING"
  BY <1>1, <1>2
     DEF RunnableOK, SchedInv, PrioritizedListsSorted, ListsConsistent
<1>9. /\ g_pendingtasks' \in Seq(Tasks) /\ IsInjective(g_pendingtasks')
      /\ Range(g_pendingtasks') = Range(g_pendingtasks)
      /\ Descending(g_pendingtasks', prio)
  <2>1. CASE st = "PENDING"
    <3>1. g_pendingtasks' = sched_addprioritized(t, dq_rem(t, g_pendingtasks),
                                                 prio)
      BY <2>1, <1>6, SMTT(30) DEF Moved
    <3>2. Reordered(g_pendingtasks', g_pendingtasks, prio)
      BY <3>1, <2>1, <1>4, <1>5, <1>8, MovedList
    <3> QED
      BY <3>2 DEF Reordered
  <2>2. CASE st # "PENDING"
    <3>1. g_pendingtasks' = g_pendingtasks /\ t \notin Range(g_pendingtasks)
      BY <2>2, <1>6, <1>8, SMTT(30)
    <3>2. \A u \in Range(g_pendingtasks) : sched_priority[u] = prio[u]
      BY <3>1, <1>1, <1>4, <1>8, ListElements, SMTT(30)
    <3>3. Descending(g_pendingtasks, prio)
      BY <3>2, <1>8, OtherPriority, SMTT(30)
    <3> QED
      BY <3>1, <3>3, <1>8, SMTT(30)
  <2> QED
    BY <2>1, <2>2
<1>10. ASSUME NEW x \in BlockedStates
       PROVE  /\ g_blocked'[x] \in Seq(Tasks) /\ IsInjective(g_blocked'[x])
              /\ Range(g_blocked'[x]) = Range(g_blocked[x])
              /\ TLIST_ISPRIORITIZED(x) => Descending(g_blocked'[x], prio)
  <2>1. /\ g_blocked \in [BlockedStates -> Seq(Tasks)]
        /\ g_blocked[x] \in Seq(Tasks) /\ IsInjective(g_blocked[x])
        /\ t \in Range(g_blocked[x]) <=> st = x
        /\ TLIST_ISPRIORITIZED(x) => Descending(g_blocked[x], sched_priority)
    BY <1>1, <1>2 DEF BlockedOK, SchedInv, PrioritizedListsSorted
  <2>2. CASE st = x /\ TLIST_ISPRIORITIZED(x)
    <3>1. g_blocked'[x] = sched_addprioritized(t, dq_rem(t, g_blocked[x]), prio)
      BY <2>1, <2>2, <1>6, SMTT(30) DEF Moved
    <3>2. Reordered(g_blocked'[x], g_blocked[x], prio)
      BY <3>1, <2>1, <2>2, <1>4, <1>5, MovedList, ZenonT(30)
    <3> QED
      BY <3>2 DEF Reordered
  <2>3. CASE ~(st = x /\ TLIST_ISPRIORITIZED(x))
    <3>1. g_blocked'[x] = g_blocked[x]
      BY <2>1, <2>3, <1>6, SMTT(30)
    <3>2. ASSUME TLIST_ISPRIORITIZED(x)
          PROVE  Descending(g_blocked[x], prio)
      <4>1. \A u \in Range(g_blocked[x]) : sched_priority[u] = prio[u]
        BY <3>2, <2>1, <2>3, <1>1, <1>4, ListElements, SMTT(30)
      <4> QED
        BY <4>1, <3>2, <2>1, OtherPriority, SMTT(30)
    <3> QED
      BY <3>1, <3>2, <2>1
  <2> QED
    BY <2>2, <2>3, SMTT(30)
<1> DEFINE q == [ready |-> g_readytorun, pend |-> g_pendingtasks',
                 state |-> task_state]
<1>11. /\ q.ready = g_readytorun /\ q.pend = g_pendingtasks'
       /\ q.state = task_state
       /\ q \in [ready : Seq(AllTasks), pend : Seq(Tasks),
                 state : [AllTasks -> TaskStates]]
  BY <1>1, <1>2, <1>9, SMTT(30) DEF RunnableOK
<1> HIDE DEF q
<1>12. RunnableOK(q)
  BY <1>1, <1>2, <1>9, <1>11, SMTT(30) DEF RunnableOK
<1>13. BlockedOK(q, g_blocked')
  <2>1. g_blocked' \in [BlockedStates -> Seq(Tasks)]
    <3>1. DOMAIN g_blocked' = BlockedStates
      BY <1>1, <1>6, ZenonT(30) DEF BlockedOK
    <3>2. g_blocked' = [x \in BlockedStates |-> g_blocked'[x]]
      BY <1>1, <1>6, <3>1, ZenonT(30) DEF BlockedOK
    <3> QED
      BY <3>2, <1>10
  <2> QED
    BY <2>1, <1>1, <1>2, <1>9, <1>10, <1>11, ZenonT(30) DEF BlockedOK
<1>14. PrioritizedListsSorted'
  BY <1>6, <1>9, <1>10 DEF PrioritizedListsSorted
<1>15. DEBUG_ASSERTIONS => ReadyToRunSorted'
  <2>1. SUFFICES ASSUME DEBUG_ASSERTIONS
                 PROVE  Descending(g_readytorun, prio)
    BY <1>6 DEF ReadyToRunSorted
  <2>2. /\ g_readytorun \in Seq(AllTasks)
        /\ Descending(g_readytorun, sched_priority)
        /\ t \notin Range(g_readytorun)
    BY <2>1, <1>1, <1>2, <1>6, <1>7, ZenonT(30)
       DEF SchedInv, ReadyToRunSorted, RunnableOK
  <2>3. \A u \in Range(g_readytorun) : sched_priority[u] = prio[u]
    BY <2>2, <1>4, ListElements
  <2> QED
    BY <2>2, <2>3, OtherPriority, SMTT(30)
<1>16. PendingOnlyWhileLocked'
  BY <1>6, <1>8 DEF SchedInv, PendingOnlyWhileLocked, this_task, Moved, Range
<1> QED
  BY <1>3, <1>6, <1>11, <1>12, <1>13, <1>14, <1>15, <1>16,
     InvFromLists, ZenonT(30)
     DEF SchedInv, SchedTypeOK

\* nxsched_setpriority() preserves the invariant.
LEMMA SetPriorityInv ==
    ASSUME SchedInv, NEW t \in Tasks, NEW p \in Priorities,
           nxsched_setpriority(t, p)
    PROVE  SchedInv'
<1>1. t \in AllTasks
  BY DEF AllTasks
<1>2. CASE sched_running_setpriority(t, p)
  <2>1. t = this_task /\ t \in Range(g_readytorun)
    BY <1>1, <1>2 DEF sched_running_setpriority, SchedInv, ListsConsistent
  <2>2. CASE p <= sched_priority[g_readytorun[2]]
    BY <2>1, <2>2, <1>2, ReprioritizeInv DEF sched_running_setpriority
  <2>3. CASE ~(p <= sched_priority[g_readytorun[2]])
    <3>1. Len(g_readytorun) > 1 /\ g_readytorun[2] \in AllTasks
      <4>1. Queues.ready = g_readytorun /\ RunnableOK(Queues)
        BY ListsOK, SMTT(30) DEF Queues
      <4>2. Len(g_readytorun) > 1
        BY <4>1, <2>1, RemoveReadyToRun DEF this_task
      <4> QED
        BY <4>1, <4>2 DEF RunnableOK
    <3>2. p > sched_priority[g_readytorun[2]]
      BY <3>1, <2>3 DEF SchedInv, PriorityOK, Priorities
    <3> QED
      BY <3>2, <2>1, <2>3, <1>2, ChangePriorityInv
         DEF sched_running_setpriority
  <2> QED
    BY <2>2, <2>3, SMTT(30)
<1>3. CASE sched_readytorun_setpriority(t, p)
  <2>1. t \in Range(g_readytorun) /\ task_state[t] = "READYTORUN"
    BY <1>1, <1>3 DEF sched_readytorun_setpriority, SchedInv, ListsConsistent
  <2>2. CASE p > sched_priority[this_task]
    BY <2>1, <2>2, <1>3, ReprioritizeInv DEF sched_readytorun_setpriority
  <2>3. CASE ~(p > sched_priority[this_task]) /\ DEBUG_ASSERTIONS
    BY <2>1, <2>3, <1>3, MoveReadyInv, SMTT(30)
  <2>4. CASE ~(p > sched_priority[this_task]) /\ ~DEBUG_ASSERTIONS
    BY <2>1, <2>4, <1>3, ChangePriorityInv DEF sched_readytorun_setpriority
  <2> QED
    BY <2>2, <2>3, <2>4, SMTT(30)
<1>4. CASE sched_blocked_setpriority(t, p)
  BY <1>4, BlockedPriorityInv
<1> QED
  BY <1>2, <1>3, <1>4 DEF nxsched_setpriority

\* sched_lock() preserves the invariant.
LEMMA LockInv ==
    ASSUME SchedInv, sched_lock
    PROVE  SchedInv'
<1>1. /\ RunnableOK(Queues) /\ BlockedOK(Queues, g_blocked)
  BY ListsOK, SMTT(30)
<1>2. this_task \in AllTasks
  BY <1>1, ListElements DEF RunnableOK, Queues, this_task
<1>3. /\ g_readytorun' = g_readytorun /\ g_pendingtasks' = g_pendingtasks
      /\ task_state' = task_state /\ g_blocked' = g_blocked
      /\ sched_priority' = sched_priority /\ shadow_prio' = shadow_prio
      /\ this_task' = this_task /\ cpu' = Head(g_readytorun)
      /\ lockcount' = [lockcount EXCEPT ![this_task] = @ + 1]
      /\ lockcount[this_task] < MAX_LOCK_COUNT
  BY DEF sched_lock, this_task, SchedInv, HeadHasCPU
<1>4. /\ lockcount' \in [AllTasks -> 0..MAX_LOCK_COUNT]
      /\ lockcount'[this_task] > 0
  BY <1>2, <1>3, BoundsAssumption, SMTT(30) DEF SchedInv, SchedTypeOK
<1>5. PendingOnlyWhileLocked'
  BY <1>3, <1>4 DEF PendingOnlyWhileLocked
<1>6. PrioritizedListsSorted' /\ (DEBUG_ASSERTIONS => ReadyToRunSorted')
  BY <1>3 DEF SchedInv, PrioritizedListsSorted, ReadyToRunSorted
<1> QED
  BY <1>1, <1>3, <1>4, <1>5, <1>6, InvFromLists, ZenonT(30)
     DEF SchedInv, SchedTypeOK, Queues

\* sched_unlock() preserves the invariant.
LEMMA UnlockInv ==
    ASSUME SchedInv, sched_unlock
    PROVE  SchedInv'
<1> DEFINE count == IF lockcount[this_task] > 0 THEN lockcount[this_task] - 1
                                                ELSE 0
           q == sched_mergepending(Queues, sched_priority)
<1>1. /\ RunnableOK(Queues) /\ BlockedOK(Queues, g_blocked)
      /\ PriorityOK(sched_priority)
  BY ListsOK, SMTT(30) DEF SchedInv
<1>2. this_task \in AllTasks
  BY <1>1, ListElements DEF RunnableOK, Queues, this_task
<1>3. /\ g_blocked' = g_blocked /\ sched_priority' = sched_priority
      /\ lockcount' = [lockcount EXCEPT ![this_task] = count]
  BY DEF sched_unlock
<1>4. count \in 0..MAX_LOCK_COUNT
  BY <1>2, BoundsAssumption DEF SchedInv, SchedTypeOK
<1>5. lockcount' \in [AllTasks -> 0..MAX_LOCK_COUNT]
  BY <1>2, <1>3, <1>4, SMTT(30) DEF SchedInv, SchedTypeOK
<1>6. CASE count = 0 /\ g_pendingtasks # <<>>
  <2>1. /\ g_readytorun' = q.ready /\ g_pendingtasks' = q.pend
        /\ task_state' = q.state
        /\ IF MergesHead(Queues, sched_priority)
             THEN SwitchTo(Head(q.ready), sched_priority)
             ELSE UNCHANGED <<cpu, shadow_prio>>
    BY <1>6, ZenonT(30) DEF sched_unlock, up_release_pending, SetQueues
  <2>2. /\ RunnableOK(q)
        /\ q.pend = <<>>
        /\ Range(q.ready) = Range(g_readytorun) \cup Range(g_pendingtasks)
        /\ \A u \in AllTasks \ (Range(g_readytorun) \cup Range(g_pendingtasks)) :
              q.state[u] = task_state[u]
        /\ Descending(g_readytorun, sched_priority) =>
              Descending(q.ready, sched_priority)
        /\ \/ MergesHead(Queues, sched_priority)
           \/ Head(q.ready) = this_task
    <3>1. /\ Queues.ready = g_readytorun /\ Queues.pend = g_pendingtasks
          /\ Queues.state = task_state
      BY DEF Queues
    <3> QED
      BY <3>1, <1>1, MergeQueues, ZenonT(60) DEF this_task
  <2> HIDE DEF q
  <2>3. Range(q.ready) \cup Range(q.pend) =
           Range(g_readytorun) \cup Range(g_pendingtasks)
    <3>1. Range(<<>>) = {}
      BY DEF Range
    <3> QED
      BY <3>1, <2>2
  <2>4. BlockedOK(q, g_blocked')
    <3>1. /\ Range(q.ready) \cup Range(q.pend) =
                Range(Queues.ready) \cup Range(Queues.pend)
          /\ \A u \in AllTasks \ (Range(Queues.ready) \cup Range(Queues.pend)) :
                q.state[u] = Queues.state[u]
      BY <2>2, <2>3 DEF Queues
    <3>2. BlockedOK(q, g_blocked)
      BY <3>1, <2>2, <1>1, SameBlocked
    <3> QED
      BY <3>2, <1>3
  <2>5. PrioritizedListsSorted'
    <3>1. Descending(<<>>, sched_priority)
      BY SMTT(30) DEF Descending
    <3> QED
      BY <3>1, <2>1, <2>2, <1>3 DEF SchedInv, PrioritizedListsSorted
  <2>6. DEBUG_ASSERTIONS => ReadyToRunSorted'
    BY <2>1, <2>2, <1>3, ZenonT(30) DEF SchedInv, ReadyToRunSorted
  <2>7. PendingOnlyWhileLocked'
    BY <2>1, <2>2, SMTT(30) DEF PendingOnlyWhileLocked
  <2>8. cpu' = Head(q.ready) /\ shadow_prio' \in 0..SCHED_PRIORITY_MAX
    BY <2>1, <2>2, <1>1, SwitchOrStay
  <2>9. PriorityOK(sched_priority')
    BY <1>1, <1>3
  <2> QED
    BY <2>1, <2>2, <2>4, <2>5, <2>6, <2>7, <2>8, <2>9, <1>5,
       InvFromLists, ZenonT(30)
<1>7. CASE ~(count = 0 /\ g_pendingtasks # <<>>)
  <2>1. /\ g_readytorun' = g_readytorun /\ g_pendingtasks' = g_pendingtasks
        /\ task_state' = task_state /\ shadow_prio' = shadow_prio
        /\ this_task' = this_task /\ cpu' = Head(g_readytorun)
    BY <1>7 DEF sched_unlock, this_task, SchedInv, HeadHasCPU
  <2>2. PendingOnlyWhileLocked'
    <3>1. lockcount'[this_task] = count
      BY <1>2, <1>3 DEF SchedInv, SchedTypeOK
    <3> HIDE DEF count
    <3> QED
      BY <3>1, <2>1, <1>4, <1>7 DEF PendingOnlyWhileLocked
  <2>3. PrioritizedListsSorted' /\ (DEBUG_ASSERTIONS => ReadyToRunSorted')
    BY <2>1, <1>3 DEF SchedInv, PrioritizedListsSorted, ReadyToRunSorted
  <2> QED
    BY <2>1, <2>2, <2>3, <1>1, <1>3, <1>5, InvFromLists, ZenonT(30)
       DEF SchedInv, SchedTypeOK, Queues
<1> QED
  BY <1>6, <1>7
============================================================================
