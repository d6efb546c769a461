----------------------------- MODULE Semaphore -----------------------------
(***************************************************************************)
(* Counting semaphores with priority inheritance (sched/semaphore) on top  *)
(* of the scheduler of module Sched.                                       *)
(*                                                                         *)
(* A kernel call is a sequence of steps, each with at most one scheduler   *)
(* primitive.  The steps that a context (a task or the interrupt handler)  *)
(* has still to execute are its continuation kont: a call puts its steps   *)
(* there, and each step takes itself off and may put others in front.      *)
(* This is needed because a primitive can take the CPU from the task that  *)
(* calls it, even inside a critical section: the next task then runs       *)
(* before the first one continues.                                         *)
(*                                                                         *)
(* Interrupts are disabled inside the critical sections, so the handler    *)
(* starts only at the places where the running task has them enabled.      *)
(***************************************************************************)
EXTENDS Sched

CONSTANTS Sems,               \* the semaphores
          Locks,              \* those used for locking: priority inheritance
          InitCount,          \* sem_init()'s value
          SEM_VALUE_MAX,      \* bound on the count of a signalling semaphore
          PREALLOCHOLDERS,    \* CONFIG_SEM_PREALLOCHOLDERS
          NNESTPRIO,          \* CONFIG_SEM_NNESTPRIO
          ParamPriorities,    \* the priorities that sched_setparam() gives
          TimedWaiters,       \* the tasks that call sem_timedwait()
          Signalled,          \* the tasks that an interrupt handler signals
          Killers,            \* the tasks that call kill()
          IRQ, NULL

ASSUME SemAssumption ==
    /\ Locks \subseteq Sems
    /\ InitCount \in [Sems -> Nat]
    /\ {SEM_VALUE_MAX, PREALLOCHOLDERS, NNESTPRIO} \subseteq Nat
    /\ ParamPriorities \subseteq Priorities
    /\ TimedWaiters \cup Signalled \cup Killers \subseteq Tasks
    /\ IRQ \notin AllTasks /\ NULL \notin AllTasks \cup Sems \cup Nat
    /\ {"INACTIVE", "WAIT_SEM"} \subseteq BlockedStates

VARIABLES semcount,       \* sem->semcount
          hhead,          \* sem->hhead: its containers, the latest one first
          g_freeholders,  \* the list of the free containers
          holder,         \* what is in each container: htcb and counts
          waitsem,        \* tcb->waitsem
          base_priority,  \* tcb->base_priority
          pend_reprios,   \* tcb->pend_reprios: how often each priority is in it
          pterrno,        \* tcb->pterrno, as nxsem_wait_irq() passes it
          waitdog,        \* the tasks whose timed-wait watchdog is running
          held,           \* the counts of each lock that each task knows it has
          kont            \* what each context has still to execute

holderVars == <<hhead, g_freeholders, holder>>
semVars == <<semcount, holderVars, waitsem, base_priority, pend_reprios, pterrno,
             waitdog, held>>
vars == <<schedVars, semVars, kont>>

Contexts == AllTasks \cup {IRQ}

Op(name, sem, tcb, arg) ==
    [op |-> name, sem |-> sem, tcb |-> tcb, arg |-> arg]

\* The context that executes: the interrupt handler, if it has started, or the
\* task whose registers the CPU has.
Current == IF kont[IRQ] # <<>> THEN IRQ ELSE cpu

\* Steps that are executed with interrupts enabled.
Interruptible == {"setparam", "setparam_base", "wait_irq", "sched_unlock"}

InterruptsEnabled ==
    /\ kont[IRQ] = <<>>
    /\ kont[cpu] # <<>> => Head(kont[cpu]).op \in Interruptible

\* The running task is about to make a call.
AtUser(t) == t = Current /\ kont[t] = <<>>

\* Context c executes the step o, and then goes on with the steps of next
\* before the rest.
Step(c, name) ==
    /\ c = Current
    /\ kont[c] # <<>>
    /\ Head(kont[c]).op = name

Continue(c, next) == kont' = [kont EXCEPT ![c] = next \o Tail(@)]

\* An assertion that fails stops the system, if it is compiled in: the step is
\* not taken, and no other context can execute.
DEBUGASSERT(condition) == DEBUG_ASSERTIONS => condition

----------------------------------------------------------------------------
\* The holders of a semaphore (sem_holder.c).

\* The preallocated containers.  Each is in the list of one semaphore, or free.
Holders == 1..PREALLOCHOLDERS

nxsem_findholder(s, htcb) ==
    LET found == {h \in Range(hhead[s]) : holder[h].htcb = htcb}
    IN  IF found = {} THEN NULL ELSE CHOOSE h \in found : TRUE

\* The first free container becomes the first of the semaphore.
nxsem_allocholder(htcb, s) ==
    \/ /\ g_freeholders # <<>>
       /\ g_freeholders' = Tail(g_freeholders)
       /\ hhead' = [hhead EXCEPT ![s] = <<Head(g_freeholders)>> \o @]
       /\ holder' = [holder EXCEPT ![Head(g_freeholders)] =
                        [htcb |-> htcb, counts |-> 1]]
    \/ /\ g_freeholders = <<>>
       /\ DEBUGASSERT(FALSE)
       /\ UNCHANGED holderVars

\* A task that finds no free container is not recorded: it takes its count
\* without priority inheritance.
nxsem_addholder_tcb(htcb, s) ==
    LET pholder == nxsem_findholder(s, htcb)
    IN  \/ /\ s \in Locks /\ pholder # NULL
           /\ holder' = [holder EXCEPT ![pholder].counts = @ + 1]
           /\ UNCHANGED <<hhead, g_freeholders>>
        \/ s \in Locks /\ pholder = NULL /\ nxsem_allocholder(htcb, s)
        \/ s \notin Locks /\ UNCHANGED holderVars

nxsem_releaseholder(s, rtcb) ==
    LET pholder == nxsem_findholder(s, rtcb)
    IN  /\ holder' = IF pholder # NULL /\ holder[pholder].counts > 0
                       THEN [holder EXCEPT ![pholder].counts = @ - 1]
                       ELSE holder
        /\ UNCHANGED <<hhead, g_freeholders>>

\* The container goes to the front of the free list.
nxsem_freeholder(s, pholder) ==
    /\ holder' = [holder EXCEPT ![pholder] = [htcb |-> NULL, counts |-> 0]]
    /\ hhead' = [hhead EXCEPT ![s] = dq_rem(pholder, @)]
    /\ g_freeholders' = <<pholder>> \o g_freeholders

\* Mutant: a container is freed only when its count is negative.
nxsem_findandfreeholder_never(s, htcb) ==
    LET pholder == nxsem_findholder(s, htcb)
    IN  IF pholder # NULL /\ holder[pholder].counts < 0
          THEN nxsem_freeholder(s, pholder)
          ELSE UNCHANGED holderVars

\* The container of a task that gave back its last count is freed.
nxsem_findandfreeholder(s, htcb) ==
    LET pholder == nxsem_findholder(s, htcb)
    IN  IF pholder # NULL /\ holder[pholder].counts <= 0
          THEN nxsem_freeholder(s, pholder)
          ELSE UNCHANGED holderVars

Pending(htcb) == {p \in Priorities : pend_reprios[htcb][p] > 0}

\* Mutant: the room for the priority is not checked.
SavePriority_overflow(htcb, p) ==
    pend_reprios' = [pend_reprios EXCEPT ![htcb][p] = @ + 1]

\* A priority is remembered if there is room for it.
SavePriority(htcb, p) ==
    \/ /\ FoldFunction(+, 0, pend_reprios[htcb]) < NNESTPRIO
       /\ pend_reprios' = [pend_reprios EXCEPT ![htcb][p] = @ + 1]
    \/ /\ FoldFunction(+, 0, pend_reprios[htcb]) >= NNESTPRIO
       /\ DEBUGASSERT(FALSE)
       /\ UNCHANGED pend_reprios

\* Mutant: the waiter's priority replaces the holder's, even if it is lower.
nxsem_boostholderprio_lower(htcb, rtcb) ==
    /\ nxsched_setpriority(htcb, sched_priority[rtcb])
    /\ UNCHANGED pend_reprios

\* Mutant: a holder that was boosted already is not boosted again.
nxsem_boostholderprio_once(htcb, rtcb) ==
    /\ IF /\ sched_priority[htcb] = base_priority[htcb]
          /\ sched_priority[rtcb] > base_priority[htcb]
         THEN nxsched_setpriority(htcb, sched_priority[rtcb])
         ELSE UNCHANGED schedVars
    /\ UNCHANGED pend_reprios

\* rtcb starts to wait: the holder runs at rtcb's priority at least, and
\* remembers the lower one of the two boosts.
nxsem_boostholderprio(htcb, rtcb) ==
    LET prio == sched_priority[rtcb]
        now == sched_priority[htcb]
        base == base_priority[htcb]
    IN  IF prio > base /\ prio > now
          THEN /\ IF now > base THEN SavePriority(htcb, now)
                                ELSE UNCHANGED pend_reprios
               /\ nxsched_setpriority(htcb, prio)
          ELSE /\ IF prio > base THEN SavePriority(htcb, prio)
                                 ELSE UNCHANGED pend_reprios
               /\ UNCHANGED schedVars

\* stcb no longer waits: the holder drops to the next of its priorities, and
\* forgets the one it had because of stcb.  nxsched_reprioritize() has to
\* continue after the primitive, and the walk through the holders after that.
nxsem_restoreholderprio(c, htcb, stcb, rest) ==
    LET now == sched_priority[htcb]
        base == base_priority[htcb]
        highest == Max(Pending(htcb))
    IN  IF now = base
          THEN UNCHANGED <<pend_reprios, schedVars>> /\ Continue(c, rest)
        ELSE IF Pending(htcb) = {}
          THEN /\ nxsched_setpriority(htcb, base)
               /\ Continue(c, <<Op("rebase", NULL, htcb, base)>> \o rest)
               /\ UNCHANGED pend_reprios
        ELSE IF now <= sched_priority[stcb]
          THEN /\ nxsched_setpriority(htcb, highest)
               /\ pend_reprios' = [pend_reprios EXCEPT ![htcb][highest] = @ - 1]
               /\ Continue(c, rest)
        ELSE /\ pend_reprios' =
                  IF sched_priority[stcb] \in Pending(htcb)
                    THEN [pend_reprios EXCEPT
                             ![htcb][sched_priority[stcb]] = @ - 1]
                    ELSE pend_reprios
             /\ UNCHANGED schedVars
             /\ Continue(c, rest)

\* The container after h in the list that h is in.
Flink(h) ==
    LET list == CHOOSE l \in Range(hhead) \cup {g_freeholders} : h \in Range(l)
        i == CHOOSE n \in DOMAIN list : list[n] = h
    IN  IF i = Len(list) THEN NULL ELSE list[i + 1]

\* What remains of a walk through the holders of s that is at container h.
Walk(name, s, h, arg) ==
    IF h = NULL THEN <<>>
    ELSE <<[op |-> name, sem |-> s, holder |-> h, arg |-> arg]>>

FirstHolder(list) == IF list = <<>> THEN NULL ELSE Head(list)

\* The task in the container that c's walk is at, and the rest of the walk.
Htcb(c) == holder[Head(kont[c]).holder].htcb

NextTurn(c) ==
    LET o == Head(kont[c]) IN Walk(o.op, o.sem, Flink(o.holder), o.arg)

\* One turn of the loop: the next container is read before the handler is
\* called for the task in this one.  The handler may take the CPU from the task
\* that walks, and either container may be freed or reused before it goes on.
nxsem_foreachholder(c, name, handler) ==
    /\ Step(c, name)
    /\ IF Htcb(c) # NULL
         THEN handler
         ELSE Continue(c, NextTurn(c)) /\ UNCHANGED <<pend_reprios, schedVars>>
    /\ UNCHANGED <<semcount, holderVars, waitsem, base_priority, pterrno,
                   waitdog, held>>

\* nxsem_boostpriority()
boost(c) ==
    nxsem_foreachholder(c, "boost",
        nxsem_boostholderprio(Htcb(c), c) /\ Continue(c, NextTurn(c)))

RestoreHolder(c) ==
    nxsem_restoreholderprio(c, Htcb(c), Head(kont[c]).arg, NextTurn(c))

\* nxsem_canceled(), with nxsem_restoreholderprioall()
restore(c) == nxsem_foreachholder(c, "restore", RestoreHolder(c))

\* Mutant: the running task is restored with the others.
restoreA_all(c) == nxsem_foreachholder(c, "restoreA", RestoreHolder(c))

\* nxsem_restoreholderprioA(): all holders but the running task.
restoreA(c) ==
    nxsem_foreachholder(c, "restoreA",
        IF Htcb(c) # this_task
          THEN RestoreHolder(c)
          ELSE Continue(c, NextTurn(c)) /\ UNCHANGED <<pend_reprios, schedVars>>)

\* nxsem_restoreholderprioB(): only the running task, if it is a holder; the
\* walk ends there.
restoreB(c) ==
    LET o == Head(kont[c])
    IN  /\ Step(c, "restoreB")
        /\ IF nxsem_findholder(o.sem, this_task) # NULL
             THEN nxsem_restoreholderprio(c, this_task, o.arg, <<>>)
             ELSE Continue(c, <<>>) /\ UNCHANGED <<pend_reprios, schedVars>>
        /\ UNCHANGED <<semcount, holderVars, waitsem, base_priority, pterrno,
                       waitdog, held>>

\* nxsched_reprioritize() after the priority was set.
rebase(c) ==
    LET o == Head(kont[c])
    IN  /\ Step(c, "rebase") \/ Step(c, "setparam_base")
        /\ base_priority' = [base_priority EXCEPT ![o.tcb] = o.arg]
        /\ pend_reprios' = [pend_reprios EXCEPT ![o.tcb] =
                                [p \in Priorities |-> 0]]
        /\ Continue(c, <<>>)
        /\ UNCHANGED <<schedVars, semcount, holderVars, waitsem, pterrno, waitdog,
                       held>>

----------------------------------------------------------------------------
\* sem_wait.c, sem_trywait.c, sem_timedwait.c

Acquired(t, s) ==
    IF s \in Locks THEN [held EXCEPT ![s][t] = @ + 1] ELSE held

Take(t, s) ==
    /\ semcount[s] > 0
    /\ semcount' = [semcount EXCEPT ![s] = @ - 1]
    /\ waitsem' = [waitsem EXCEPT ![t] = NULL]
    /\ held' = Acquired(t, s)

\* The task waits: its holders are boosted and it blocks.
StartWait(t, s, after) ==
    /\ semcount[s] <= 0
    /\ semcount' = [semcount EXCEPT ![s] = @ - 1]
    /\ waitsem' = [waitsem EXCEPT ![t] = s]
    /\ sched_lock
    /\ kont' = [kont EXCEPT ![t] = Walk("boost", s, FirstHolder(hhead[s]), NULL)
                                   \o <<Op("block", s, t, NULL)>> \o after]
    /\ UNCHANGED <<holderVars, base_priority, pend_reprios, pterrno, held>>

nxsem_wait(t, s) ==
    /\ AtUser(t)
    /\ s \in Locks => held[s][t] < InitCount[s]
    /\ \/ /\ Take(t, s)
          /\ nxsem_addholder_tcb(t, s)
          /\ UNCHANGED <<schedVars, kont, base_priority, pend_reprios, pterrno>>
       \/ StartWait(t, s, <<Op("woken", s, t, NULL)>>)
    /\ UNCHANGED waitdog

block(c) ==
    /\ Step(c, "block")
    /\ pterrno' = [pterrno EXCEPT ![c] = "OK"]
    /\ up_block_task("WAIT_SEM")
    /\ Continue(c, <<>>)
    /\ UNCHANGED <<semcount, holderVars, waitsem, base_priority, pend_reprios,
                   waitdog, held>>

\* Mutant: the result is not looked at.
woken_unchecked(c) ==
    LET o == Head(kont[c])
    IN  /\ Step(c, "woken")
        /\ held' = Acquired(c, o.sem)
        /\ pterrno' = [pterrno EXCEPT ![c] = "OK"]
        /\ sched_unlock
        /\ Continue(c, <<>>)
        /\ UNCHANGED <<semcount, holderVars, waitsem, base_priority, pend_reprios,
                       waitdog>>

\* The task runs again: it looks at the result and releases the lock.
woken(c) ==
    LET o == Head(kont[c])
    IN  /\ Step(c, "woken")
        /\ held' = IF pterrno[c] = "OK" THEN Acquired(c, o.sem) ELSE held
        /\ pterrno' = [pterrno EXCEPT ![c] = "OK"]
        /\ sched_unlock
        /\ Continue(c, <<>>)
        /\ UNCHANGED <<semcount, holderVars, waitsem, base_priority, pend_reprios,
                       waitdog>>

\* A count taken here is not recorded in the list of holders.
nxsem_trywait(t, s) ==
    /\ AtUser(t)
    /\ s \in Locks => held[s][t] < InitCount[s]
    /\ Take(t, s)
    /\ UNCHANGED <<schedVars, kont, holderVars, base_priority, pend_reprios, pterrno,
                   waitdog>>

\* The semaphore is tried first, as above; then the watchdog is started.
nxsem_timedwait(t, s) ==
    /\ AtUser(t) /\ t \in TimedWaiters
    /\ s \in Locks => held[s][t] < InitCount[s]
    /\ \/ /\ Take(t, s)
          /\ UNCHANGED <<schedVars, kont, holderVars, base_priority, pend_reprios,
                         pterrno, waitdog>>
       \/ /\ StartWait(t, s, <<Op("woken", s, t, NULL),
                               Op("wd_cancel", s, t, NULL)>>)
          /\ waitdog' = waitdog \cup {t}

wd_cancel(c) ==
    /\ Step(c, "wd_cancel")
    /\ waitdog' = waitdog \ {c}
    /\ Continue(c, <<>>)
    /\ UNCHANGED <<schedVars, semcount, holderVars, waitsem, base_priority,
                   pend_reprios, pterrno, held>>

----------------------------------------------------------------------------
\* sem_post.c

\* A task gives back a count: of a lock, one that it has taken.
nxsem_post(t, s) ==
    /\ AtUser(t)
    /\ IF s \in Locks
         THEN held[s][t] > 0 /\ held' = [held EXCEPT ![s][t] = @ - 1]
         ELSE semcount[s] < SEM_VALUE_MAX /\ UNCHANGED held
    /\ nxsem_releaseholder(s, t)
    /\ semcount' = [semcount EXCEPT ![s] = @ + 1]
    /\ sched_lock
    /\ kont' = [kont EXCEPT ![t] = <<Op("grant", s, t, NULL),
                                     Op("free", s, t, NULL),
                                     Op("unlock", s, t, NULL)>>]
    /\ UNCHANGED <<waitsem, base_priority, pend_reprios, pterrno, waitdog>>

\* Mutant: the last waiter is found.
FirstWaiter_last(s) ==
    LET list == g_blocked["WAIT_SEM"]
        at == {i \in DOMAIN list : waitsem[list[i]] = s}
    IN  IF at = {} THEN NULL ELSE list[Max(at)]

\* The first waiter of s in the list of the tasks that wait for a semaphore.
FirstWaiter(s) ==
    LET list == g_blocked["WAIT_SEM"]
        at == {i \in DOMAIN list : waitsem[list[i]] = s}
    IN  IF at = {} THEN NULL ELSE list[Min(at)]

\* Mutant: no waiter is looked for when the count becomes zero.
grant_offbyone(c) ==
    LET s == Head(kont[c]).sem
        stcb == FirstWaiter(s)
    IN  /\ Step(c, "grant")
        /\ IF semcount[s] < 0 /\ stcb # NULL
             THEN /\ nxsem_addholder_tcb(stcb, s)
                  /\ waitsem' = [waitsem EXCEPT ![stcb] = NULL]
                  /\ up_unblock_task(stcb)
             ELSE UNCHANGED <<schedVars, holderVars, waitsem>>
        /\ Continue(c, <<>>)
        /\ UNCHANGED <<semcount, base_priority, pend_reprios, pterrno, waitdog,
                       held>>

\* Mutant: the woken task is still recorded as waiting.
grant_stillwaiting(c) ==
    LET s == Head(kont[c]).sem
        stcb == FirstWaiter(s)
    IN  /\ Step(c, "grant")
        /\ IF semcount[s] <= 0 /\ stcb # NULL
             THEN nxsem_addholder_tcb(stcb, s) /\ up_unblock_task(stcb)
             ELSE UNCHANGED <<schedVars, holderVars>>
        /\ Continue(c, <<>>)
        /\ UNCHANGED <<semcount, waitsem, base_priority, pend_reprios, pterrno,
                       waitdog, held>>

\* The first waiter gets the count.  The holders of a lock, the new one
\* included, are then restored.
grant(c) ==
    LET s == Head(kont[c]).sem
        stcb == FirstWaiter(s)
        passA == Walk("restoreA", s, FirstHolder(hhead'[s]), stcb)
    IN  /\ Step(c, "grant")
        /\ IF semcount[s] <= 0 /\ stcb # NULL
             THEN /\ nxsem_addholder_tcb(stcb, s)
                  /\ waitsem' = [waitsem EXCEPT ![stcb] = NULL]
                  /\ up_unblock_task(stcb)
                  /\ Continue(c, IF c = IRQ THEN <<>>
                                 ELSE passA \o <<Op("restoreB", s, c, stcb)>>)
             ELSE /\ DEBUGASSERT(semcount[s] > 0)
                  /\ Continue(c, <<>>)
                  /\ UNCHANGED <<schedVars, holderVars, waitsem>>
        /\ UNCHANGED <<semcount, base_priority, pend_reprios, pterrno, waitdog,
                       held>>

\* nxsem_restorebaseprio_task() frees the container that the poster emptied.
free(c) ==
    LET o == Head(kont[c])
    IN  /\ Step(c, "free")
        /\ nxsem_findandfreeholder(o.sem, o.tcb)
        /\ Continue(c, <<>>)
        /\ UNCHANGED <<schedVars, semcount, waitsem, base_priority,
                       pend_reprios, pterrno, waitdog, held>>

unlock(c) ==
    /\ Step(c, "unlock") \/ Step(c, "sched_unlock")
    /\ sched_unlock
    /\ Continue(c, <<>>)
    /\ UNCHANGED semVars

----------------------------------------------------------------------------
\* sem_waitirq.c: the wait of wtcb ends with an error.

CancelSteps(wtcb, errcode) ==
    LET s == waitsem[wtcb]
    IN  Walk("restore", s, FirstHolder(hhead[s]), wtcb)
          \o <<Op("cancel", s, wtcb, errcode)>>

\* Mutant: it is not checked that the task still waits.
nxsem_wait_irq_unchecked(c) ==
    LET o == Head(kont[c])
    IN  /\ Step(c, "wait_irq")
        /\ Continue(c, IF waitsem[o.tcb] # NULL
                         THEN CancelSteps(o.tcb, o.arg)
                         ELSE <<Op("cancel", NULL, o.tcb, o.arg)>>)
        /\ UNCHANGED <<schedVars, semVars>>

\* Mutant: the wrong task state is looked for.
nxsem_wait_irq_wrongstate(c) ==
    LET o == Head(kont[c])
    IN  /\ Step(c, "wait_irq")
        /\ Continue(c, IF task_state[o.tcb] = "INACTIVE"
                         THEN CancelSteps(o.tcb, o.arg) ELSE <<>>)
        /\ UNCHANGED <<schedVars, semVars>>

nxsem_wait_irq(c) ==
    LET o == Head(kont[c])
        waits == task_state[o.tcb] = "WAIT_SEM"
    IN  /\ Step(c, "wait_irq")
        /\ waits => DEBUGASSERT(semcount[waitsem[o.tcb]] < 0)
        /\ Continue(c, IF waits THEN CancelSteps(o.tcb, o.arg) ELSE <<>>)
        /\ UNCHANGED <<schedVars, semVars>>

\* Mutant: the count that the waiter took in advance is not given back.
cancel_nocount(c) ==
    LET o == Head(kont[c])
    IN  /\ Step(c, "cancel")
        /\ waitsem' = [waitsem EXCEPT ![o.tcb] = NULL]
        /\ pterrno' = [pterrno EXCEPT ![o.tcb] = o.arg]
        /\ up_unblock_task(o.tcb)
        /\ Continue(c, <<>>)
        /\ UNCHANGED <<semcount, holderVars, base_priority, pend_reprios, waitdog,
                       held>>

\* up_unblock_task() asserts that the task is blocked; if it is not, the
\* system stops.
cancel(c) ==
    LET o == Head(kont[c])
    IN  /\ Step(c, "cancel")
        /\ semcount' = [semcount EXCEPT ![o.sem] = @ + 1]
        /\ waitsem' = [waitsem EXCEPT ![o.tcb] = NULL]
        /\ pterrno' = [pterrno EXCEPT ![o.tcb] = o.arg]
        /\ IF task_state[o.tcb] \in BlockedStates
             THEN up_unblock_task(o.tcb) /\ Continue(c, <<>>)
             ELSE /\ Continue(c, <<Op("panic", NULL, NULL, NULL)>>)
                  /\ UNCHANGED schedVars
        /\ UNCHANGED <<holderVars, base_priority, pend_reprios, waitdog, held>>

----------------------------------------------------------------------------
\* The interrupt handler: timeouts, signals and posts of signalling
\* semaphores.

Interrupt(steps) ==
    /\ InterruptsEnabled
    /\ kont' = [kont EXCEPT ![IRQ] = steps]

nxsem_timeout(t) ==
    /\ t \in waitdog
    /\ waitdog' = waitdog \ {t}
    /\ Interrupt(<<Op("wait_irq", NULL, t, "ETIMEDOUT")>>)
    /\ UNCHANGED <<schedVars, semcount, holderVars, waitsem, base_priority,
                   pend_reprios, pterrno, held>>

irq_signal(t) ==
    /\ t \in Signalled /\ task_state[t] = "WAIT_SEM"
    /\ Interrupt(<<Op("wait_irq", NULL, t, "EINTR")>>)
    /\ UNCHANGED <<schedVars, semVars>>

irq_post(s) ==
    /\ s \notin Locks
    /\ semcount[s] < SEM_VALUE_MAX
    /\ semcount' = [semcount EXCEPT ![s] = @ + 1]
    /\ Interrupt(<<Op("grant", s, NULL, NULL)>>)
    /\ UNCHANGED <<schedVars, holderVars, waitsem, base_priority, pend_reprios,
                   pterrno, waitdog, held>>

----------------------------------------------------------------------------
\* Calls of other subsystems that end in the steps above.

\* sig_kill.c, sig_dispatch.c: the signal interrupts the wait of task u.
nxsig_kill(t, u) ==
    /\ AtUser(t)
    /\ t \in Killers /\ u # t
    /\ task_state[u] = "WAIT_SEM"
    /\ sched_lock
    /\ kont' = [kont EXCEPT ![t] = <<Op("wait_irq", NULL, u, "EINTR"),
                                     Op("sched_unlock", NULL, t, NULL)>>]
    /\ UNCHANGED semVars

\* sched_setparam.c
nxsched_setparam(t, u, p) ==
    /\ AtUser(t)
    /\ task_state[u] # "INACTIVE"
    /\ sched_lock
    /\ kont' = [kont EXCEPT ![t] = <<Op("setparam", NULL, u, p),
                                     Op("sched_unlock", NULL, t, NULL)>>]
    /\ UNCHANGED semVars

setparam(c) ==
    LET o == Head(kont[c])
    IN  /\ Step(c, "setparam")
        /\ nxsched_setpriority(o.tcb, o.arg)
        /\ Continue(c, <<Op("setparam_base", NULL, o.tcb, o.arg)>>)
        /\ UNCHANGED semVars

\* task_activate.c: a new task starts.
task_activate(t) ==
    /\ kont[Current] = <<>>
    /\ task_state[t] = "INACTIVE"
    /\ up_unblock_task(t)
    /\ UNCHANGED <<semVars, kont>>

----------------------------------------------------------------------------
SemInit ==
    /\ SchedInit
    /\ semcount = InitCount
    /\ hhead = [s \in Sems |-> <<>>]
    /\ g_freeholders = [h \in Holders |-> h]
    /\ holder = [h \in Holders |-> [htcb |-> NULL, counts |-> 0]]
    /\ waitsem = [t \in Tasks |-> NULL]
    /\ base_priority = [t \in Tasks |-> sched_priority[t]]
    /\ pend_reprios = [t \in Tasks |-> [p \in Priorities |-> 0]]
    /\ pterrno = [t \in Tasks |-> "OK"]
    /\ waitdog = {}
    /\ held = [s \in Locks |-> [t \in Tasks |-> 0]]
    /\ kont = [c \in Contexts |-> <<>>]

KernelStep(c) ==
    \/ boost(c) \/ block(c) \/ woken(c) \/ wd_cancel(c)
    \/ grant(c) \/ restoreA(c) \/ restoreB(c) \/ free(c) \/ unlock(c)
    \/ nxsem_wait_irq(c) \/ restore(c) \/ rebase(c) \/ cancel(c)
    \/ setparam(c)

TaskCall(t) ==
    \/ \E s \in Sems : \/ nxsem_wait(t, s) \/ nxsem_trywait(t, s)
                       \/ nxsem_timedwait(t, s) \/ nxsem_post(t, s)
    \/ \E u \in Tasks : nxsig_kill(t, u)
    \/ \E u \in Tasks, p \in ParamPriorities : nxsched_setparam(t, u, p)

SemNext ==
    \/ KernelStep(Current)
    \/ \E t \in Tasks : \/ TaskCall(t) \/ task_activate(t)
                        \/ nxsem_timeout(t) \/ irq_signal(t)
    \/ \E s \in Sems : irq_post(s)

SemSpec == SemInit /\ [][SemNext]_vars

\* The CPU executes what is to be executed, and an interrupt that is pending
\* when interrupts are enabled, again and again, is served.
SemFairness ==
    /\ WF_vars(KernelStep(Current))
    /\ \A t \in Tasks : SF_vars(nxsem_timeout(t))

----------------------------------------------------------------------------
Opname == {"boost", "block", "woken", "wd_cancel", "grant", "restoreA",
           "restoreB", "restore", "free", "unlock", "rebase", "wait_irq",
           "cancel", "setparam", "setparam_base", "sched_unlock", "panic"}

SemTypeOK ==
    /\ semcount \in [Sems -> Int]
    /\ \A s \in Sems : \A h \in Range(hhead[s]) :
          holder[h] \in [htcb : Tasks, counts : Nat]
    /\ \A h \in Range(g_freeholders) : holder[h] = [htcb |-> NULL, counts |-> 0]
    /\ waitsem \in [Tasks -> Sems \cup {NULL}]
    /\ base_priority \in [Tasks -> Priorities]
    /\ pend_reprios \in [Tasks -> [Priorities -> Nat]]
    /\ \A t \in Tasks : FoldFunction(+, 0, pend_reprios[t]) <= NNESTPRIO
    /\ pterrno \in [Tasks -> {"OK", "EINTR", "ETIMEDOUT"}]
    /\ waitdog \subseteq Tasks
    /\ held \in [Locks -> [Tasks -> Nat]]
    /\ DOMAIN kont = Contexts /\ kont[Idle] = <<>>
    /\ \A c \in Contexts : \A i \in DOMAIN kont[c] : kont[c][i].op \in Opname

\* The steps that are still to come include one called name for s.
Will(c, name, s) ==
    \E i \in DOMAIN kont[c] : kont[c][i].op = name /\ kont[c][i].sem = s

Waiters(s) == {t \in Tasks : waitsem[t] = s}

\* The tasks that were given a count of s by nxsem_post() and have not run since.
Granted(s) == {t \in Tasks : /\ Will(t, "woken", s)
                             /\ waitsem[t] = NULL
                             /\ pterrno[t] = "OK"}

HeldCounts(s) == FoldFunction(+, 0, held[s])

\* The counts of a lock are neither lost nor duplicated, whatever the order of
\* posts, timeouts, signals and switches in the middle of a call: each is free,
\* held by a task that knows it, or on its way to a task that was woken; and
\* each waiter has taken one in advance.
CountsConserved ==
    \A s \in Locks :
        semcount[s] = InitCount[s] - HeldCounts(s)
                        - Cardinality(Granted(s)) - Cardinality(Waiters(s))

\* A lock is never held by more tasks than it has counts.
MutualExclusion == \A s \in Locks : HeldCounts(s) <= InitCount[s]

\* No task waits for a semaphore that has a count to give, except while the
\* post that gives it is still at work.
NoMissedWakeup ==
    \A s \in Sems :
        /\ ~Will(Current, "grant", s)
        /\ Waiters(s) # {}
        => semcount[s] = -Cardinality(Waiters(s))

\* Each lock is what CountingSemaphore promises.
Promise(s) ==
    INSTANCE CountingSemaphore WITH
        avail   <- semcount[s] + Cardinality(Waiters(s)),
        owned   <- [t \in Tasks |-> held[s][t] + IF t \in Granted(s) THEN 1
                                                                  ELSE 0],
        waiting <- Waiters(s),
        prio    <- sched_priority

\* Whatever the interleaving of posts, waits, timeouts, signals and priority
\* changes, a lock behaves as CountingSemaphore says: the steps of nxsem_wait(),
\* nxsem_post() and nxsem_wait_irq() are its steps, and a count is handed to a
\* waiting task of the highest priority.
LocksKeepPromise ==
    /\ \A s \in Locks : Promise(s)!Init(InitCount[s])
    /\ [][\A s \in Locks : [Promise(s)!Next]_(Promise(s)!semaphore)]_vars

\* A task is recorded as waiting just while it is in the list of the waiting
\* tasks, or is about to enter it.
WaitersBlocked ==
    \A t \in Tasks :
        waitsem[t] # NULL <=> \/ task_state[t] = "WAIT_SEM"
                              \/ Will(t, "block", waitsem[t])

\* All containers, those of the semaphores and the free ones.
AllHolders == FoldFunction(\o, g_freeholders, hhead)

\* No holder container is leaked or shared, whatever calls were interrupted or
\* lost the CPU: each is in one list, once; a semaphore has at most one for a
\* task; and one without counts belongs to a task that is still in nxsem_post().
HoldersLive ==
    /\ IsInjective(AllHolders) /\ Range(AllHolders) = Holders
    /\ \A s \in Sems : \A h \in Range(hhead[s]) :
          /\ nxsem_findholder(s, holder[h].htcb) = h
          /\ holder[h].counts = 0 => Will(holder[h].htcb, "free", s)

\* Task t is in the middle of nxsem_foreachholder().
Walking(t) == \E i \in DOMAIN kont[t] :
                  kont[t][i].op \in {"boost", "restore", "restoreA"}

\* A task in the middle of nxsem_foreachholder(), with containers still to
\* visit, loses the CPU in one case only: in nxsem_canceled(), called for a
\* signal that the task sends, it restores itself because it is a holder too.
\* In nxsem_wait() and nxsem_post() the walk is never interrupted: this is why
\* nxsem_restorebaseprio_task() leaves the running task to a second pass.
WalkKeepsCPU ==
    [][\A t \in Tasks :
          (t = cpu /\ cpu' # t /\ Walking(t)')
          => /\ Head(kont[t]).op = "restore"
             /\ holder[Head(kont[t]).holder].htcb = t]_vars

\* When a task blocks in nxsem_wait() for a lock, no task of lower priority than
\* its own is before a recorded holder in the ready-to-run list: a task of a
\* priority in between cannot delay the holder.
NoInversionOnBlock ==
    [][\A s \in Locks, t \in Tasks :
          (/\ task_state[t] # "WAIT_SEM" /\ task_state'[t] = "WAIT_SEM"
           /\ waitsem[t] = s)
          => \A h \in Range(hhead[s]), i, j \in DOMAIN g_readytorun' :
                (/\ holder[h].counts > 0 /\ i < j
                 /\ g_readytorun'[j] = holder[h].htcb)
                => sched_priority'[g_readytorun'[i]] >= sched_priority'[t]]_vars

\* A task recorded as a holder keeps the priority of every waiter at least,
\* outside the calls that end a wait.
HolderBoosted ==
    \A s \in Locks : \A h \in Range(hhead[s]), t \in Tasks :
        (holder[h].counts > 0 /\ waitsem[t] = s /\ task_state[t] = "WAIT_SEM"
           /\ \A c \in Contexts : ~Will(c, "grant", s) /\ ~Will(c, "cancel", s))
        => sched_priority[holder[h].htcb] >= sched_priority[t]

\* A task that makes no call and holds no lock runs at its base priority.
PriorityRestored ==
    \A t \in Tasks :
        (kont[t] = <<>> /\ \A s \in Locks : held[s][t] = 0)
        => sched_priority[t] = base_priority[t]

\* A task never runs below its base priority.
NeverBelowBase == \A t \in Tasks : sched_priority[t] >= base_priority[t]

\* up_unblock_task() is only called for a blocked task.
NoPanic == \A c \in Contexts : ~Will(c, "panic", NULL)

\* A timed wait does not last for ever: the timeout ends it if nothing else
\* did, although it can only be served when interrupts are enabled, and the
\* handler has to go through the holders first.
TimedWaitEnds ==
    \A t \in Tasks :
        (t \in waitdog /\ task_state[t] = "WAIT_SEM")
        ~> task_state[t] # "WAIT_SEM"
=============================================================================
