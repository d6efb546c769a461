---------------------------- MODULE SchedQueues ----------------------------
(***************************************************************************)
(* What the operations on the runnable lists of module Sched do to their   *)
(* elements, states and order, and the inductive invariant of Sched.       *)
(***************************************************************************)
EXTENDS SchedLists

\* The runnable lists of q and the task states agree.
RunnableOK(q) ==
    /\ q \in [ready : Seq(AllTasks), pend : Seq(Tasks),
              state : [AllTasks -> TaskStates]]
    /\ q.ready # <<>> /\ IsInjective(q.ready) /\ Last(q.ready) = Idle
    /\ IsInjective(q.pend)
    /\ Range(q.ready) \cap Range(q.pend) = {}
    /\ \A t \in Range(q.ready) :
          q.state[t] = IF t = Head(q.ready) THEN "RUNNING" ELSE "READYTORUN"
    /\ \A t \in Range(q.pend) : q.state[t] = "PENDING"

\* Every task that is in neither runnable list is in a blocked state, and in
\* the list of that state.
BlockedOK(q, blocked) ==
    /\ blocked \in [BlockedStates -> Seq(Tasks)]
    /\ \A t \in AllTasks : t \notin Range(q.ready) \cup Range(q.pend) =>
          q.state[t] \in BlockedStates
    /\ \A st \in BlockedStates :
          /\ IsInjective(blocked[st])
          /\ \A t \in AllTasks : t \in Range(blocked[st]) <=> q.state[t] = st

\* Only the idle task has priority 0.
PriorityOK(prio) ==
    /\ prio \in [AllTasks -> 0..SCHED_PRIORITY_MAX]
    /\ \A t \in AllTasks : prio[t] = 0 <=> t = Idle

----------------------------------------------------------------------------
\* sched_removereadytorun() keeps the lists in agreement.
LEMMA RemoveReadyToRun ==
    ASSUME NEW q, RunnableOK(q), NEW t \in Tasks, t \in Range(q.ready)
    PROVE  LET r == sched_removereadytorun(t, q)
           IN  /\ RunnableOK(r)
               /\ r.pend = q.pend
               /\ Range(r.ready) = Range(q.ready) \ {t}
               /\ \A u \in AllTasks \ Range(q.ready) : r.state[u] = q.state[u]
               /\ Head(q.ready) # t => Head(r.ready) = Head(q.ready)
               /\ Head(q.ready) = t =>
                     Len(q.ready) > 1 /\ Head(r.ready) = q.ready[2]
               /\ \A prio : Descending(q.ready, prio) =>
                               Descending(r.ready, prio)
<1> USE DEF RunnableOK
<1> DEFINE l == dq_rem(t, q.ready)
           r == sched_removereadytorun(t, q)
<1>1. t # Idle /\ Idle \in AllTasks /\ t \in AllTasks
  BY TasksAssumption DEF AllTasks
<1>2. /\ l \in Seq(AllTasks)
      /\ Len(l) = Len(q.ready) - 1
      /\ IsInjective(l)
      /\ Range(l) = Range(q.ready) \ {t}
      /\ \A prio : Descending(q.ready, prio) => Descending(l, prio)
      /\ Last(q.ready) # t => Last(l) = Last(q.ready)
      /\ Head(q.ready) # t => Head(l) = Head(q.ready)
      /\ Head(q.ready) = t /\ Len(q.ready) > 1 => Head(l) = q.ready[2]
  BY DqRem
<1>3. Len(q.ready) > 1
  <2>1. Len(q.ready) \in Nat /\ Len(q.ready) > 0
    OBVIOUS
  <2>2. PICK i \in 1..Len(q.ready) : q.ready[i] = t
    BY DEF Range
  <2>3. q.ready[Len(q.ready)] = Idle
    BY DEF Last
  <2> QED
    BY <2>1, <2>2, <2>3, <1>1
<1>4. l # <<>> /\ Last(l) = Idle
  BY <1>1, <1>2, <1>3
<1>5. /\ r.ready = l
      /\ r.pend = q.pend
      /\ r.state = IF Head(q.ready) = t
                     THEN [q.state EXCEPT ![q.ready[2]] = "RUNNING"]
                     ELSE q.state
  BY DEF sched_removereadytorun, RemovesHead
<1> HIDE DEF l, r
<1>6. q.ready[2] \in Range(q.ready) /\ q.ready[2] \in AllTasks
  BY <1>3 DEF Range
<1>7. r \in [ready : Seq(AllTasks), pend : Seq(Tasks),
             state : [AllTasks -> TaskStates]]
  <2>1. [q.state EXCEPT ![q.ready[2]] = "RUNNING"] \in [AllTasks -> TaskStates]
    BY <1>6 DEF TaskStates
  <2> QED
    BY <2>1, <1>2, ZenonT(30) DEF r, l, sched_removereadytorun
<1>8. \A u \in AllTasks \ Range(q.ready) : r.state[u] = q.state[u]
  BY <1>5, <1>6
<1>9. ASSUME NEW u \in Range(l)
      PROVE  r.state[u] = IF u = Head(l) THEN "RUNNING" ELSE "READYTORUN"
  <2>1. u \in Range(q.ready) /\ u # t
    BY <1>2
  <2>2. CASE Head(q.ready) = t
    <3>1. Head(l) = q.ready[2]
      BY <2>2, <1>2, <1>3
    <3>2. q.state[u] = "READYTORUN"
      BY <2>1, <2>2
    <3> QED
      BY <3>1, <3>2, <2>1, <2>2, <1>5, <1>6
  <2>3. CASE Head(q.ready) # t
    BY <2>1, <2>3, <1>2, <1>5
  <2> QED
    BY <2>2, <2>3
<1>10. \A u \in Range(q.pend) : r.state[u] = "PENDING"
  <2>1. ASSUME NEW u \in Range(q.pend)
        PROVE  u \in AllTasks \ Range(q.ready)
    BY ListElements DEF AllTasks
  <2> QED
    BY <2>1, <1>8
<1>11. RunnableOK(r)
  BY <1>2, <1>4, <1>5, <1>7, <1>9, <1>10
<1> QED
  BY <1>2, <1>3, <1>5, <1>8, <1>11 DEF r

\* What sched_addreadytorun() makes of q when it adds t.
AddedTo(r, t, q, prio) ==
    /\ RunnableOK(r)
    /\ Range(r.ready) \cup Range(r.pend) =
          Range(q.ready) \cup Range(q.pend) \cup {t}
    /\ \A u \in AllTasks \ (Range(q.ready) \cup {t}) : r.state[u] = q.state[u]
    /\ Head(r.ready) # Head(q.ready) => /\ Head(r.ready) = t
                                       /\ lockcount[Head(q.ready)] = 0
                                       /\ prio[t] > prio[Head(q.ready)]
    /\ AddsHead(t, q, prio) <=> Head(r.ready) # Head(q.ready)
    /\ r.pend # q.pend => lockcount[Head(q.ready)] > 0
    /\ Descending(q.pend, prio) => Descending(r.pend, prio)
    /\ Descending(q.ready, prio) => Descending(r.ready, prio)

\* sched_addreadytorun() keeps the lists in agreement.  It takes the CPU from
\* the running task only if the running task does not hold the pre-emption
\* lock, and parks the task only if it does.  What it returns says whether the
\* head of the list changed.
LEMMA AddReadyToRun ==
    ASSUME NEW q, RunnableOK(q), NEW prio, PriorityOK(prio),
           lockcount \in [AllTasks -> Nat],
           NEW t \in Tasks, t \notin Range(q.ready), t \notin Range(q.pend)
    PROVE  AddedTo(sched_addreadytorun(t, q, prio), t, q, prio)
<1> USE DEF RunnableOK, PriorityOK
<1> DEFINE h == Head(q.ready)
           l == sched_addprioritized(t, q.ready, prio)
           p == sched_addprioritized(t, q.pend, prio)
           r == sched_addreadytorun(t, q, prio)
           Type == [ready : Seq(AllTasks), pend : Seq(Tasks),
                    state : [AllTasks -> TaskStates]]
<1>1. t # Idle /\ t \in AllTasks /\ Idle \in AllTasks
  BY TasksAssumption DEF AllTasks
<1>2. prio \in [AllTasks -> Int] /\ prio[t] > 0 /\ prio[Idle] = 0
  BY <1>1, BoundsAssumption
<1>3. h \in Range(q.ready) /\ Range(q.ready) \subseteq AllTasks
      /\ Range(q.pend) \subseteq Tasks /\ Tasks \subseteq AllTasks
  BY ListElements DEF AllTasks
<1>4. /\ l \in Seq(AllTasks) /\ l # <<>>
      /\ IsInjective(l)
      /\ Range(l) = Range(q.ready) \cup {t}
      /\ Descending(q.ready, prio) => Descending(l, prio)
      /\ Head(l) = IF prio[t] > prio[h] THEN t ELSE h
      /\ Last(l) = Idle
  <2>1. /\ l \in Seq(AllTasks)
        /\ Len(l) = Len(q.ready) + 1
        /\ IsInjective(l)
        /\ Range(l) = Range(q.ready) \cup {t}
        /\ Descending(q.ready, prio) => Descending(l, prio)
        /\ q.ready # <<>> => Head(l) = IF prio[t] > prio[Head(q.ready)]
                                         THEN t ELSE Head(q.ready)
        /\ q.ready # <<>> /\ prio[t] > prio[Last(q.ready)] =>
              Last(l) = Last(q.ready)
    <3>1. \A x \in AllTasks : prio[x] \in Int
      BY <1>2
    <3> QED
      BY <3>1, <1>1, AddPrioritized, SMTT(30)
  <2>2. l # <<>>
    BY <2>1
  <2> QED
    BY <2>1, <2>2, <1>2
<1>5. /\ p \in Seq(Tasks)
      /\ IsInjective(p)
      /\ Range(p) = Range(q.pend) \cup {t}
      /\ Descending(q.pend, prio) => Descending(p, prio)
  <2>1. \A x \in Tasks : prio[x] \in Int
    BY <1>2, <1>3
  <2> QED
    BY <2>1, AddPrioritized
<1> HIDE DEF h, l, p
<1>6. CASE lockcount[h] > 0 /\ prio[h] < prio[t]
  <2>1. r = [q EXCEPT !.pend = p,
                      !.state = [q.state EXCEPT ![t] = "PENDING"]]
    BY <1>6 DEF sched_addreadytorun, Parks, h, l, p
  <2>2. /\ r.ready = q.ready /\ r.pend = p
        /\ r.state = [q.state EXCEPT ![t] = "PENDING"]
        /\ r \in Type
    <3>1. [q.state EXCEPT ![t] = "PENDING"] \in [AllTasks -> TaskStates]
      BY <1>1 DEF TaskStates
    <3> QED
      BY <3>1, <2>1, <1>5, ZenonT(30)
  <2> HIDE DEF r
  <2>3. RunnableOK(r)
    BY <2>2, <1>1, <1>3, <1>5
  <2> QED
    BY <2>2, <2>3, <1>1, <1>5, <1>6 DEF r, h, AddedTo, AddsHead, Parks
<1>7. CASE ~(lockcount[h] > 0 /\ prio[h] < prio[t])
  <2> DEFINE s == IF Head(l) = t
                    THEN [q.state EXCEPT ![t] = "RUNNING", ![h] = "READYTORUN"]
                    ELSE [q.state EXCEPT ![t] = "READYTORUN"]
  <2>1. AddsHead(t, q, prio) <=> Head(l) = t
    BY <1>7 DEF AddsHead, Parks, h, l
  <2>11. r = [q EXCEPT !.ready = l, !.state = s]
    BY <2>1, <1>7, ZenonT(30) DEF sched_addreadytorun, Parks, h, l, p
  <2>2. s \in [AllTasks -> TaskStates]
    BY <1>1, <1>3, ZenonT(30) DEF TaskStates
  <2>3. r.ready = l /\ r.pend = q.pend /\ r.state = s /\ r \in Type
    BY <2>11, <2>2, <1>4, ZenonT(30)
  <2>4. t # h
    BY <1>3
  <2>5. Head(l) \in {t, h} /\ Head(q.ready) = h
    BY <1>4 DEF h
  <2>6. \A u \in Range(l) :
           s[u] = IF u = Head(l) THEN "RUNNING" ELSE "READYTORUN"
    BY <2>4, <2>5, <1>1, <1>3, <1>4, ZenonT(30)
  <2>7. \A u \in AllTasks \ (Range(q.ready) \cup {t}) : s[u] = q.state[u]
    BY <1>1, <1>3
  <2>8. \A u \in Range(q.pend) : s[u] = "PENDING"
    BY <2>7, <1>3
  <2> HIDE DEF r, s
  <2>9. RunnableOK(r)
    BY <2>3, <2>6, <2>8, <1>4, SMTT(30)
  <2>10. Head(l) # h => lockcount[h] = 0 /\ prio[t] > prio[h]
    <3>1. prio[h] \in Int /\ prio[t] \in Int /\ lockcount[h] \in Nat
      BY <1>1, <1>2, <1>3
    <3> QED
      BY <3>1, <1>4, <1>7
  <2> QED
    BY <2>1, <2>3, <2>4, <2>5, <2>7, <2>9, <2>10, <1>4 DEF r, h, AddedTo
<1> QED
  BY <1>6, <1>7

\* sched_mergepending() keeps the lists in agreement and empties the pending
\* list.  If it returns false the head of the ready-to-run list is the old one.
LEMMA MergeQueues ==
    ASSUME NEW q, RunnableOK(q), NEW prio, PriorityOK(prio)
    PROVE  LET r == sched_mergepending(q, prio)
           IN  /\ RunnableOK(r)
               /\ r.pend = <<>>
               /\ Range(r.ready) = Range(q.ready) \cup Range(q.pend)
               /\ \A u \in AllTasks \ (Range(q.ready) \cup Range(q.pend)) :
                     r.state[u] = q.state[u]
               /\ Descending(q.ready, prio) => Descending(r.ready, prio)
               /\ MergesHead(q, prio) \/ Head(r.ready) = Head(q.ready)
<1> USE DEF RunnableOK, PriorityOK
<1> DEFINE l == MergePending(q.ready, q.pend, prio)
           r == sched_mergepending(q, prio)
           s == [t \in AllTasks |->
                    IF t \in Range(q.pend)
                      THEN IF t = Head(l) THEN "RUNNING" ELSE "READYTORUN"
                    ELSE IF t = Head(q.ready) /\ t # Head(l)
                      THEN "READYTORUN"
                    ELSE q.state[t]]
<1>1. /\ Range(q.pend) \subseteq Tasks
      /\ Tasks \subseteq AllTasks
      /\ q.ready # <<>> /\ Head(q.ready) \in Range(q.ready)
      /\ Range(q.ready) \subseteq AllTasks
  BY ListElements DEF AllTasks
<1>2. \A t \in AllTasks : prio[t] \in Int
  BY BoundsAssumption
<1>3. \A t \in Range(q.pend) : prio[t] > prio[Last(q.ready)]
  BY <1>1, BoundsAssumption, TasksAssumption DEF AllTasks
<1>4. q.pend \in Seq(AllTasks) /\ q.ready \in Seq(AllTasks)
  BY <1>1
<1>5. /\ l \in Seq(AllTasks) /\ l # <<>>
      /\ IsInjective(l)
      /\ Range(l) = Range(q.ready) \cup Range(q.pend)
      /\ Last(l) = Last(q.ready)
      /\ Head(l) \in Range(q.pend) \cup {Head(q.ready)}
      /\ Descending(q.ready, prio) => Descending(l, prio)
      /\ \/ \E n \in 1..Len(q.pend) :
               Head(Merging(q.ready, q.pend, prio)[n]) = q.pend[n]
         \/ Head(l) = Head(q.ready)
  <2>1. /\ q.ready # <<>> /\ IsInjective(q.ready) /\ IsInjective(q.pend)
        /\ Range(q.ready) \cap Range(q.pend) = {}
    OBVIOUS
  <2> USE ONLY <2>1, <1>2, <1>3, <1>4
  <2> QED
    BY MergedList, SMTT(30)
<1>6. DOMAIN q.state = AllTasks
  OBVIOUS
<1>7. r = [ready |-> l, pend |-> <<>>, state |-> s]
  BY <1>6 DEF sched_mergepending
<1> HIDE DEF l, r
<1>8. s \in [AllTasks -> TaskStates]
  BY DEF TaskStates
<1>9. \A t \in Range(l) :
         s[t] = IF t = Head(l) THEN "RUNNING" ELSE "READYTORUN"
  BY <1>1, <1>5, SMTT(30)
<1>10. \A t \in AllTasks \ (Range(q.ready) \cup Range(q.pend)) :
          s[t] = q.state[t]
  BY <1>1, <1>5
<1> HIDE DEF s
<1>11. Range(<<>>) = {} /\ IsInjective(<<>>) /\ <<>> \in Seq(Tasks)
  BY DEF Range, IsInjective
<1>12. RunnableOK(r)
  BY <1>5, <1>7, <1>8, <1>9, <1>11
<1> QED
  BY <1>5, <1>7, <1>10, <1>12 DEF r, MergesHead

----------------------------------------------------------------------------
\* The inductive invariant.
SchedInv ==
    /\ SchedTypeOK
    /\ PriorityOK(sched_priority)
    /\ ListsConsistent
    /\ IdleAtTheEnd
    /\ HeadHasCPU
    /\ PendingOnlyWhileLocked
    /\ PrioritizedListsSorted
    /\ DEBUG_ASSERTIONS => ReadyToRunSorted

\* What the invariant says of the lists, in the terms of the lemmas above.
LEMMA ListsOK ==
    ASSUME SchedInv
    PROVE  /\ RunnableOK(Queues)
           /\ BlockedOK(Queues, g_blocked)
           /\ lockcount \in [AllTasks -> Nat]
           /\ this_task \in AllTasks /\ this_task \in Range(g_readytorun)
           /\ cpu = this_task
           /\ \A t \in Tasks : sched_priority[t] > 0
<1> USE DEF SchedInv
<1>1. Range(g_readytorun) \subseteq AllTasks /\ Range(g_pendingtasks) \subseteq Tasks
      /\ this_task \in Range(g_readytorun)
  BY ListElements DEF SchedTypeOK, IdleAtTheEnd, this_task
<1>2. Queues.ready = g_readytorun /\ Queues.pend = g_pendingtasks
      /\ Queues.state = task_state /\ Tasks \subseteq AllTasks
  BY DEF Queues, AllTasks
<1>3. Queues \in [ready : Seq(AllTasks), pend : Seq(Tasks),
                  state : [AllTasks -> TaskStates]]
  BY DEF Queues, SchedTypeOK
<1>4. \A t \in Range(g_readytorun) :
         task_state[t] = IF t = this_task THEN "RUNNING" ELSE "READYTORUN"
  BY <1>1 DEF ListsConsistent
<1>5. \A t \in Range(g_pendingtasks) : task_state[t] = "PENDING"
  BY <1>1, <1>2 DEF ListsConsistent
<1>6. Range(g_readytorun) \cap Range(g_pendingtasks) = {}
  BY <1>4, <1>5
<1>7. RunnableOK(Queues)
  BY <1>2, <1>3, <1>4, <1>5, <1>6
     DEF RunnableOK, ListsConsistent, IdleAtTheEnd, this_task
<1>8. \A t \in AllTasks : t \notin Range(g_readytorun) \cup Range(g_pendingtasks)
                             => task_state[t] \in BlockedStates
  BY DEF ListsConsistent, SchedTypeOK, TaskStates
<1>9. BlockedOK(Queues, g_blocked)
  BY <1>2, <1>8 DEF BlockedOK, ListsConsistent, SchedTypeOK
<1>10. lockcount \in [AllTasks -> Nat]
  BY BoundsAssumption DEF SchedTypeOK
<1>11. \A t \in Tasks : sched_priority[t] > 0
  BY <1>2, TasksAssumption, BoundsAssumption DEF PriorityOK
<1> QED
  BY <1>1, <1>7, <1>9, <1>10, <1>11 DEF HeadHasCPU

\* The invariant holds after a step that leaves the lists in agreement and the
\* CPU with the head of the ready-to-run list.
LEMMA InvFromLists ==
    ASSUME NEW q, RunnableOK(q), BlockedOK(q, g_blocked'),
           g_readytorun' = q.ready, g_pendingtasks' = q.pend,
           task_state' = q.state, cpu' = Head(q.ready),
           PriorityOK(sched_priority'),
           lockcount' \in [AllTasks -> 0..MAX_LOCK_COUNT],
           shadow_prio' \in 0..SCHED_PRIORITY_MAX,
           PendingOnlyWhileLocked',
           PrioritizedListsSorted',
           DEBUG_ASSERTIONS => ReadyToRunSorted'
    PROVE  SchedInv'
<1>1. SchedTypeOK'
  <2>1. cpu' \in AllTasks
    BY ListElements DEF RunnableOK
  <2> QED
    BY <2>1 DEF SchedTypeOK, RunnableOK, BlockedOK, PriorityOK
<1>2. IdleAtTheEnd' /\ HeadHasCPU'
  BY DEF IdleAtTheEnd, HeadHasCPU, this_task, RunnableOK
<1>3. /\ Range(q.ready) \subseteq AllTasks /\ Range(q.pend) \subseteq Tasks
      /\ q.ready # <<>> /\ Head(q.ready) \in Range(q.ready)
      /\ Tasks \subseteq AllTasks
  BY ListElements DEF RunnableOK, AllTasks
<1>4. ASSUME NEW t \in AllTasks
      PROVE  /\ t \in Range(q.ready) <=> q.state[t] \in {"RUNNING", "READYTORUN"}
             /\ t \in Range(q.pend) <=> q.state[t] = "PENDING"
             /\ q.state[t] = "RUNNING" <=> t = Head(q.ready)
  <2>1. "RUNNING" \notin BlockedStates /\ "READYTORUN" \notin BlockedStates
        /\ "PENDING" \notin BlockedStates
    BY BlockedAssumption DEF AllBlockedStates
  <2> QED
    BY <2>1, <1>3 DEF RunnableOK, BlockedOK
<1>5. ListsConsistent'
  BY <1>3, <1>4 DEF ListsConsistent, this_task, RunnableOK, BlockedOK
<1> QED
  BY <1>1, <1>2, <1>5 DEF SchedInv

----------------------------------------------------------------------------
\* The invariant holds once os_start() is done.
LEMMA InitInv == SchedInit => SchedInv
<1> SUFFICES ASSUME SchedInit
             PROVE  SchedInv
  OBVIOUS
<1> USE DEF SchedInit
<1>1. PICK s \in [1..Cardinality(Tasks) -> Tasks] :
         /\ IsInjective(s) /\ Range(s) = Tasks
         /\ g_blocked = [st \in BlockedStates |->
                            IF st = "INACTIVE" THEN s ELSE <<>>]
  OBVIOUS
<1>2. s \in Seq(Tasks)
  BY TasksAssumption, SMTT(30)
<1>3. /\ Range(<<>>) = {} /\ IsInjective(<<>>) /\ <<>> \in Seq(Tasks)
      /\ Range(<<Idle>>) = {Idle} /\ IsInjective(<<Idle>>)
      /\ Last(<<Idle>>) = Idle
  BY DEF Range, IsInjective, Last
<1>4. /\ Idle \in AllTasks /\ Idle \notin Tasks /\ Tasks \subseteq AllTasks
      /\ "INACTIVE" \in BlockedStates
      /\ "RUNNING" \notin BlockedStates /\ "READYTORUN" \notin BlockedStates
      /\ "PENDING" \notin BlockedStates
  BY TasksAssumption, BlockedAssumption DEF AllTasks, AllBlockedStates
<1>5. SchedTypeOK
  BY <1>1, <1>2, <1>3, <1>4, BoundsAssumption DEF SchedTypeOK, TaskStates
<1>6. PriorityOK(sched_priority)
  BY DEF PriorityOK
<1>7. this_task = Idle
  BY DEF this_task
<1>8. ListsConsistent
  <2>1. ASSUME NEW st \in BlockedStates
        PROVE  /\ IsInjective(g_blocked[st])
               /\ \A t \in AllTasks : t \in Range(g_blocked[st])
                                        <=> task_state[t] = st
    <3>1. CASE st = "INACTIVE"
      BY <3>1, <1>1, <1>4 DEF AllTasks
    <3>2. CASE st # "INACTIVE"
      BY <3>2, <1>1, <1>3, <1>4 DEF AllTasks
    <3> QED
      BY <3>1, <3>2
  <2>2. \A t \in AllTasks : task_state[t] = IF t = Idle THEN "RUNNING"
                                                        ELSE "INACTIVE"
    OBVIOUS
  <2>3. g_readytorun = <<Idle>> /\ g_pendingtasks = <<>> /\ g_readytorun # <<>>
    OBVIOUS
  <2> QED
    BY <2>1, <2>2, <2>3, <1>3, <1>7 DEF ListsConsistent
<1>9. IdleAtTheEnd /\ HeadHasCPU /\ PendingOnlyWhileLocked
  BY <1>3, <1>7 DEF IdleAtTheEnd, HeadHasCPU, PendingOnlyWhileLocked
<1>10. PrioritizedListsSorted /\ ReadyToRunSorted
  <2>1. \A st \in BlockedStates : st # "INACTIVE" => g_blocked[st] = <<>>
    BY <1>1
  <2>2. \A prio : Descending(<<>>, prio) /\ Descending(<<Idle>>, prio)
    BY DEF Descending
  <2> QED
    BY <2>1, <2>2 DEF PrioritizedListsSorted, ReadyToRunSorted,
                      TLIST_ISPRIORITIZED
<1> QED
  BY <1>5, <1>6, <1>8, <1>9, <1>10 DEF SchedInv

\* A switch to the head of the list gives it the CPU and publishes a priority;
\* so does no switch if the head is the task that has the CPU.
LEMMA SwitchOrStay ==
    ASSUME SchedInv, NEW q, RunnableOK(q), NEW prio, PriorityOK(prio),
           \/ SwitchTo(Head(q.ready), prio)
           \/ Head(q.ready) = this_task /\ UNCHANGED <<cpu, shadow_prio>>
    PROVE  cpu' = Head(q.ready) /\ shadow_prio' \in 0..SCHED_PRIORITY_MAX
<1>1. Head(q.ready) \in AllTasks
  BY ListElements DEF RunnableOK
<1>2. cpu = this_task /\ shadow_prio \in 0..SCHED_PRIORITY_MAX
  BY DEF SchedInv, SchedTypeOK, HeadHasCPU
<1> QED
  BY <1>1, <1>2 DEF SwitchTo, PriorityOK
============================================================================
