# A verification of cRTOS's kernel

cRTOS is NuttX with a Linux-compatibility layer ("tux"). One CPU core, given to
it by a hypervisor, runs the real-time kernel; Linux runs on the others. A Linux
program runs as a NuttX task, and system calls that NuttX does not implement are
sent to a shadow process on the Linux side over shared memory. The modules here
model the kernel in its deployment configuration
(`configs/jailhouse-intel64/program_loader/defconfig`): one CPU, flat memory, priority
inheritance, no round-robin or sporadic scheduling. In two respects they are not the
deployed system. The shadow process is taken as not running, so no answers from
Linux arrive. And three things are constants: the numbers of holder containers and of saved
priorities, 16 each as deployed, and whether DEBUGASSERT is compiled in, which it is
not as deployed. Each run says which values it uses.

## 1. Inventory

| part | code | state | operations | what is hard about it |
|---|---|---|---|---|
| task lists and switching | `sched/sched`, `arch/x86_64/src/common/up_*task.c` | the ready-to-run, pending and wait lists; state, priority and lock count of each task; the priority word read by Linux | block, unblock, change a priority, lock and unlock pre-emption, release the pending tasks | a primitive changes several lists and the running task at once; wake-ups under the pre-emption lock are parked and must be found again |
| semaphores with priority inheritance | `sched/semaphore` | count, holder containers, saved priorities, what each task waits for | wait, try, timed wait, post (task or handler), cancel by signal or timeout | a priority change takes the CPU in the middle of a call; holders and saved priorities are finite; cancellation races with posts |
| channel to Linux | `configs/jailhouse-intel64/src/shadow.c`, `up_checktasks.c` | two descriptor rings, connection state, answer and `syscall_lock` of each task | send, receive by interrupt or at a switch, connect, stop | concurrent senders; answers applied inside scheduler primitives; reconnection |
| delegation | `linux_subsystem/tux_delegate.c`, `tux_poll.c`, `tux_select.c` | descriptors 0–2 of a task, the poll that waits for an answer | delegate, route by descriptor, poll | an answer may be taken by `read()` or by `poll()`; signals |
| futexes | `tux_futex.c` | a table of 256 slots with linear probing | wait, wake, bitset variants, requeue, wake-op | holes in a probe sequence; wake outside a critical section; timeouts |
| System V IPC | `tux_sem.c`, `tux_shm.c` | two hash tables | get, control, operate, attach, detach | life cycle of a removed segment; several operations in one call |
| process table, clone, exit | `tux_proc.c`, `tux_clone.c`, `tux_rexec.c`, `tux_set_tid_address.c` | chains of pid pairs, deletion deferred to a work queue | insert, mark, delete, look up | a deleted pid is looked up or reused before the worker ran |
| Linux memory | `tux_mm.c`, `tux_brk.c`, `mm/mm_gran` | regions of a process, granule bitmap | map, unmap, protect, break | splitting and merging of regions |
| native signals, watchdogs, work queues, message queues, pthreads, timers, task exit | `sched/*` | queues on top of the two parts above | | each races with the timer interrupt or with exit |

The hazards, line by line, are listed in `PROJECT.json`.

## 2. Modules

| module | role |
|---|---|
| `Sched` | the scheduler's lists and primitives |
| `MCSched` | its instance for TLC |
| `SchedLists`, `SchedQueues` | lemmas on the list operations; the inductive invariant of `Sched` |
| `SchedSteps`, `SchedProofs` | one lemma per primitive of `Sched`; the theorems about it |
| `Semaphore` | semaphores on top of `Sched` (it EXTENDS it and calls its primitives) |
| `CountingSemaphore` | the abstract specification of a lock |
| `MCSemaphore` | the instances of `Semaphore` for TLC |

### Sched

The variables have the names of the C globals and TCB fields. A primitive runs
with interrupts disabled on the only CPU, so it is one step. `up_block_task`,
`up_unblock_task`, `nxsched_setpriority` (with its three cases by the state of the
task), `sched_lock` and `sched_unlock` are the actions. The list functions work on
a record of the runnable lists and the task states, because several of them run
in a row inside a primitive.

Which task is at the head of the ready-to-run list (`this_task`) and whose registers the
CPU has (`cpu`) are two things, as in the code: no primitive compares the old head with the new
one. Each decides to switch by the flags that the list functions return (`RemovesHead`,
`AddsHead`, `MergesHead`), combined as that primitive combines them: or-ed in
`up_block_task`, xor-ed in `up_reprioritize_rtr`, alone in the other two. If it switches,
`SwitchTo` loads the registers of the head and writes its priority to the word shared with Linux;
if it does not, both stay as they are. `up_block_task` writes 0 to that word before it looks
for the next task (`up_blocktask.c:103`); Linux can see this 0 while the primitive runs.
The step shows only the word's value at the end, which is 0 if the primitive does not switch.
`DEBUG_ASSERTIONS` is CONFIG_DEBUG_ASSERTIONS: the body of one function is an argument of
DEBUGASSERT.

Abstractions. `sched_mergepending()` resumes its search where the previous
task was inserted; the model searches from the head, which gives the same list
because the pending list is sorted (`PrioritizedListsSorted`). `up_checktasks()`,
called in the primitives, returns at once; `PendingOnlyWhileLocked` depends on this, because
`up_checktasks()` fills the pending list whether or not the lock is held. `nxsched_setpriority()`
refuses a priority out of range with EINVAL: its callers here pass none. `up_exit()` also
takes a task off the list; no task exits here.

### Semaphore

A kernel call is a sequence of steps with at most one scheduler primitive each.
What a context (a task or the interrupt handler) has still to do is its
continuation `kont`. So a task that loses the CPU in the middle of `nxsem_post()`
continues with the remaining steps when it runs again, and the others' steps come
in between. `Current` executes; the handler starts only where interrupts are
enabled. The scheduler's state changes only through the primitives of `Sched`, because the
steps are written with them.

The holder containers are those of the code: `hhead` and `g_freeholders` are the lists, `holder`
is what is in each container. `nxsem_foreachholder` makes one turn of the loop per step. It
reads the next container when it is at this one and calls the handler, which may take the CPU from the
walking task. What remains of the walk is the address of the next container, so the walk goes on with whatever
is there then: another task's container, or a free one. `restoreB`, which ends the walk at the first
match, is a single step.

`held` is the only variable that the code does not have: the counts of a
lock that each task knows it has, used to let tasks post only what they own and to state
the properties. A task may take several counts of a lock; one that has them all does not
wait for another, which only itself could give.

A DEBUGASSERT that fails stops the system, if it is compiled in: the step cannot be taken. The ones that
depend on the modelled state are there: the two tables that overflow, and the counts in
`nxsem_restorebaseprio()` and `nxsem_wait_irq()`. The assertion of `up_unblock_task()` is compiled in
always; it is the step `panic`, so that `NoPanic` can speak of it.

The interrupt handler times out a timed wait, signals a waiting task, and posts
signalling semaphores; tasks wait, try, wait with a timeout, post, `kill()` one another and
set priorities. A handler does not post locks here: `nxsem_restorebaseprio_irq()` is not
modelled. A handler owns no count of a lock, and for signalling semaphores the user guide has priority
inheritance disabled (`Documentation/NuttxUserGuide.html:3614`).

## 3. Runs

| run | instance | question |
|---|---|---|
| `sched` | 3 tasks, 3 priorities, locks nested twice, one sorted and one FIFO wait list, assertions on | do lists, states, the CPU and the published priority stay consistent under every sequence of primitives? |
| `sem` | 3 tasks, a lock and a signalling semaphore, timeouts, signals, kill by the most urgent task; 2 containers, 1 saved priority | are counts and containers conserved, is a lock what `CountingSemaphore` promises? |
| `sem_setparam` | 3 tasks, one lock, priorities set from outside | does a count still go to the most urgent waiter? |
| `sem_counting` | a lock with two counts, signals from a handler | the same with several holders, and tasks that hold both counts |
| `sem_walk` | a lock with two counts, every task calls kill() | where can a walk through the holders be interrupted by a switch, and do the containers survive it? |
| `sem_inherit` | assertions on, timeouts and signals; 4 containers, 2 saved priorities | can a task of a priority in between delay the holder of a lock that a task just blocked for? |
| `sem_live` | 2 tasks, both with timed waits, under fairness | do timed waits end? |
| `sched_noassert` | as `sched`, assertions off (as deployed) | **violated**: the most urgent ready task runs |
| `sem_inversion` | as deployed, waits and posts only | **violated**: no task of a priority in between is ahead of the holder |
| `sem_cancel` | table sizes as deployed, signals | **violated**: a holder keeps the boost of the tasks that still wait |
| `sem_restore` | table sizes as deployed, waits and posts only | **violated**: a task that released its lock is back at its base priority |
| `sem_kill` | table sizes as deployed, any task may call kill() | **violated**: mutual exclusion, when a boosted holder signals a waiter |

Assertions are off where nothing else is said. Deadlock is checked in all runs but two: in
`sem_inherit` an assertion that fails stops the system, and in `sem_walk` so does the assertion of
`up_unblock_task()`, which a wait cancelled twice can reach; and there, without a handler, two tasks with one
count each may both wait for a second one for ever.

*Bounds.* Three priorities and three tasks are the least with which one task waits
while another of a priority in between competes with the holder. Two containers
and one saved priority make both tables overflow with three tasks; the runs that
show violations use the deployed sizes, so that overflow is not their cause. The
nesting bound 2 (`sched`) separates the outer unlock from the inner one; the kernel calls
of `Semaphore` take the lock once. A signalling semaphore counts to 1: a second
count would only repeat the first. In `sem`, only the most urgent task calls
`kill()`; it is never boosted, so it is never switched out while it cancels a wait, which is
the case that `sem_kill` shows to be wrong. In `sem_counting`, `sem_setparam`, `sem_inherit`
and `sem_live` no task calls `kill()`. `sem_walk` has no signalling semaphore and no timeouts: a walk by the
handler keeps the CPU anyway, and the second count of the lock gives a walk two containers.

In `sem_inherit`, four containers are more than three tasks and one lock need, so every count that
`nxsem_wait()` takes is recorded. Two saved priorities are few: a saved priority that no one takes back
(the cause of `sem_restore`) stays, so even waits and posts alone fill any table in the end,
and with assertions on the system then stops. With two, all the behaviours up to that point are covered in which a holder has
one boost saved while another is added.

*Fairness* (`SemFairness`). Weak fairness of the kernel steps of the context that
has the CPU: the CPU executes. Strong fairness of the timeout of each running
watchdog: interrupts are enabled and disabled again and again, and the hardware keeps an
interrupt pending until it is served. No task is assumed to call anything.

*What the violations show.*

* `sched_noassert`: `sched_readytorun_setpriority()` re-inserts the task inside
  `DEBUGASSERT()` only. Without assertions, a ready task that gets a new priority
  keeps its place, and a less urgent task is dispatched first.
* `sem_inversion`: the same cause defeats priority inheritance in its textbook case. t1
  holds the lock, t2 and t3 become ready, t3 runs and waits for the lock. The boost raises t1 to t3's
  priority, which is not above that of the running t3, so t1 stays behind t2; t3 blocks, and t2 runs.
  With assertions compiled in, `sem_inherit` finds no such case.
* `sem_cancel`: with no saved priority, `nxsem_canceled()` drops the holder to its
  base priority although another waiter's boost is the one it has.
* `sem_restore`: with two waiters, the poster drops to the second saved priority,
  its container is freed, and nothing restores it later.
* `sem_kill`: `nxsem_wait_irq()` checks that the task waits, then loses the CPU
  while it restores its own priority, as a boosted holder. Another task signals the same waiter,
  whose wait so ends; the waiter goes on and waits for something else. When the first one runs again it cancels
  the wait a second time and adds a second count to the lock, which another task takes.

`sem_walk` has the same switch in it and shows what it does not break: every container stays in exactly one
list, and this is the only place where a walk is interrupted. In `nxsem_post()` it is
not, because `nxsem_restorebaseprio_task()` leaves the running task to a second pass.

## 4. Theorems

`SchedProofs` proves for any finite set of tasks and any bounds:

* `SchedInvariant`: the inductive invariant `SchedInv`, from which the others follow;
* `SchedTypeCorrect`, `TaskListsConsistent`, `NoForgottenWakeup`, `WaitListsSorted`;
* `PriorityScheduling`: the running task is the most urgent one, assuming
  `DEBUG_ASSERTIONS` (run `sched_noassert` shows that the assumption is needed);
* `HeadRuns`: the CPU executes the head of the ready-to-run list, that is, the flags by which
  the primitives decide to switch are right;
* `LockHolderKeepsCPU` and `StaleWordInPlace`, about steps: the latter says that the word that Linux
  reads differs from the priority of the task on the CPU only from a change in place to the next
  switch.

The assumptions are those of `Sched`: finitely many tasks, the idle task is not
one of them, at least one priority, and a list of inactive tasks.

*Argument.* "Each task is in the list that its state names" is not inductive alone.
`SchedInv` adds: the runnable lists are disjoint, without repetition, and end
in the idle task, which alone has priority 0 (so removing any other task from the
ready-to-run list leaves a head); the pending list is not empty only while the running
task holds the lock; the pending list and the prioritized wait lists are sorted; and the CPU
has the head of the list (`HeadHasCPU`). With assertions the ready-to-run list is
sorted too. `SchedLists` has what insertion, removal and merging do to the
elements, the order and the ends of a list; merging is by induction on the number of
merged tasks, done with a least counterexample. `SchedQueues` lifts these
facts to the record of lists (`RemoveReadyToRun`, `AddReadyToRun`, the merge), `SchedSteps` has one
lemma per primitive, and `SchedProofs` composes them.

For `HeadHasCPU`, each primitive needs that its flag is true just when the head changes, or that the switch
is to the task that is on the CPU already. `sched_mergepending()` returns true if
any of the pending tasks was inserted at the head, even if a later one replaced it; the head
changes just in that case (`MergedList`). In `up_reprioritize_rtr()` the xor is false when the task was the head
and is the head again, or neither, and the lemma `SwitchFlag` shows that this is when the head
is the same task as before. `StaleWordInPlace` goes through the primitives: one that switches publishes a priority that is up to date,
one that does not leaves `cpu` and the word alone, `up_block_task` always switches, and
`SwitchFlag` rules out that a running task put back in its list with another priority keeps the CPU.

## 5. Only model-checked

Everything about `Semaphore`. Liveness stays with TLC in any case: the prover does
not do fairness. So do results of recursive definitions for all inputs, which need induction
principles the prover cannot instantiate.

## 6. Not modelled, and the plan

Within the semaphores: `sem_reset`, `sem_recover`, `sem_destroy`, holders that have
exited, posts of locks by a handler. Task exit, round-robin, SMP and sporadic scheduling (not configured).

In order:

1. `ShadowProc`: the rings, the connection states and `up_checktasks()`, with Linux as an
   environment that answers late, in any order, and restarts; then its composition with `Sched`.
   Properties: a descriptor is owned by one side, an answer reaches the task that asked, a pending task
   is merged. Abstract specification: a remote call per task.
2. `Futex`: table, wait, wake, requeue over an abstract semaphore. Properties: a waiter can be found by
   a wake, slots are reused. Abstract specification: a set of waiters per address.
3. `TuxShm`, `TuxSem`, `TuxProc`: life cycles against abstract maps.
4. `TuxMM` with the granule allocator: regions are disjoint, pages are conserved.
5. Watchdogs, work queues, message queues, signals, condition variables, timers; task exit with
   `sem_recover`.
6. Proofs: conservation of counts without kill(); disjointness of containers and of descriptors.

Left out: device drivers, file systems, network stack, C library, ELF loading, page-table
encoding and register-level context switching (I/O or sequential code without a state machine of interest).
