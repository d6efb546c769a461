------------------------- MODULE CountingSemaphore -------------------------
(***************************************************************************)
(* What a semaphore used for locking promises to its users, whatever the   *)
(* scheduler does: a fixed number of counts, each of them available or     *)
(* owned by a task; a task waits only while none is available; a released  *)
(* count goes to a waiting task of the highest priority.                   *)
(***************************************************************************)
EXTENDS Integers

CONSTANT Tasks

VARIABLES avail,     \* the counts that no task owns
          owned,     \* the counts that each task owns
          waiting,   \* the tasks that wait for a count
          prio       \* the priority of each task, changed by others

semaphore == <<avail, owned, waiting>>

Init(counts) ==
    /\ avail = counts
    /\ owned = [t \in Tasks |-> 0]
    /\ waiting = {}

\* Nobody who waits is overtaken.
Acquire(t) ==
    /\ avail > 0 /\ waiting = {}
    /\ avail' = avail - 1
    /\ owned' = [owned EXCEPT ![t] = @ + 1]
    /\ UNCHANGED waiting

Wait(t) ==
    /\ avail = 0 /\ t \notin waiting
    /\ waiting' = waiting \cup {t}
    /\ UNCHANGED <<avail, owned>>

Release(t) ==
    /\ owned[t] > 0
    /\ avail' = avail + 1
    /\ owned' = [owned EXCEPT ![t] = @ - 1]
    /\ UNCHANGED waiting

\* The count goes to a waiting task of the highest priority.
Grant(t) ==
    /\ avail > 0 /\ t \in waiting
    /\ \A u \in waiting : prio[u] <= prio[t]
    /\ avail' = avail - 1
    /\ owned' = [owned EXCEPT ![t] = @ + 1]
    /\ waiting' = waiting \ {t}

\* A signal or a timeout ends the wait.
GiveUp(t) ==
    /\ t \in waiting
    /\ waiting' = waiting \ {t}
    /\ UNCHANGED <<avail, owned>>

Next == \E t \in Tasks : \/ Acquire(t) \/ Wait(t) \/ Release(t)
                         \/ Grant(t) \/ GiveUp(t)

Spec(counts) == Init(counts) /\ [][Next]_semaphore
=============================================================================
