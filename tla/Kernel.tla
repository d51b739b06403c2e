-------------------------------- MODULE Kernel --------------------------------
(***************************************************************************)
(* The part of FreeRTOS (tasks.c, queue.c, list.c) the program's threads   *)
(* are built on: preemptive scheduling by priority, mutexes with priority  *)
(* inheritance (std::mutex), binary semaphores that are used as locks      *)
(* without it (the list of a std::condition_variable), task notifications  *)
(* and delays.                                                             *)
(*                                                                         *)
(* The kernel changes its state in critical sections, each of which is one *)
(* step here.  Locks are waited for without a timeout, as the program      *)
(* does.  A task that was woken is not given the lock: it has to try       *)
(* again, and may find that another task was faster.                       *)
(*                                                                         *)
(* The modules of the program's threads use the operations; Spec lets the  *)
(* tasks use them in any order.                                            *)
(***************************************************************************)
EXTENDS Integers, Sequences, Functions

CONSTANTS
  Tasks,
  Locks,        \* mutexes and binary semaphores
  Mutexes,      \* the locks whose holder inherits priorities
  BasePriority, \* uxBasePriority of each task
  Nobody

ASSUME KernelAssumption ==
  /\ Mutexes \subseteq Locks
  /\ BasePriority \in [Tasks -> Nat]
  /\ Nobody \notin Tasks
  /\ {"none", "notification", "delay"} \cap Locks = {}

VARIABLES
  priority, \* uxPriority of each task
  owner,    \* who has taken the lock (xMutexHolder for a mutex)
  waiting,  \* xTasksWaitingToReceive of each lock
  blocked,  \* the tasks that are not ready
  call,     \* what a task has called that has not returned: the lock it wants,
            \* "notification", "delay" or "none"
  notified  \* is ulNotifiedValue of the task greater than zero

kernelVars == <<priority, owner, waiting, blocked, call, notified>>

-----------------------------------------------------------------------------
(* Scheduling *)

\* vTaskSwitchContext: a ready task of the highest priority runs; tasks of the same
\* priority share the processor
Runs(t) ==
  /\ t \notin blocked
  /\ \A u \in Tasks \ blocked : priority[u] <= priority[t]

\* a task that does something of its own
Executes(t) == Runs(t) /\ call[t] = "none"

\* a task that begins a call of the kernel, or resumes it
Calls(t, c) == Runs(t) /\ call[t] \in {"none", c}

Held(t) == {m \in Mutexes : owner[m] = t}

-----------------------------------------------------------------------------
(* Locks *)

\* Mutant: the list is not ordered by priority.
BugEnqueued(s, t) == Append(s, t)

\* vListInsert: behind the tasks of the same priority
Enqueued(s, t) ==
  LET k == CHOOSE i \in 1 .. Len(s) + 1 :
             /\ i <= Len(s) => priority[s[i]] < priority[t]
             /\ \A j \in 1 .. i - 1 : priority[s[j]] >= priority[t]
  IN [i \in 1 .. Len(s) + 1 |->
        IF i < k THEN s[i] ELSE IF i = k THEN t ELSE s[i - 1]]

\* xTaskPriorityInherit
Inherited(t, l) ==
  IF l \in Mutexes /\ priority[owner[l]] < priority[t]
  THEN [priority EXCEPT ![owner[l]] = priority[t]]
  ELSE priority

\* Mutant: the mutexes held are compared with zero before they are counted down.
BugDisinherited(t, l) ==
  IF l \in Mutexes /\ Held(t) = {}
  THEN [priority EXCEPT ![t] = BasePriority[t]]
  ELSE priority

\* xTaskPriorityDisinherit: not before the last mutex is given back
Disinherited(t, l) ==
  IF l \in Mutexes /\ Held(t) = {l}
  THEN [priority EXCEPT ![t] = BasePriority[t]]
  ELSE priority

\* xQueueSemaphoreTake, first critical section: the lock is free
Take(t, l) ==
  /\ Calls(t, l) /\ owner[l] = Nobody
  /\ owner' = [owner EXCEPT ![l] = t]
  /\ call' = [call EXCEPT ![t] = "none"]
  /\ UNCHANGED <<priority, waiting, blocked, notified>>

\* Mutant: nothing is inherited.
BugWait(t, l) ==
  /\ Calls(t, l) /\ owner[l] # Nobody
  /\ waiting' = [waiting EXCEPT ![l] = Enqueued(@, t)]
  /\ blocked' = blocked \cup {t}
  /\ call' = [call EXCEPT ![t] = l]
  /\ UNCHANGED <<priority, owner, notified>>

\* xQueueSemaphoreTake, second part: the task goes to sleep
Wait(t, l) ==
  /\ Calls(t, l) /\ owner[l] # Nobody
  /\ priority' = Inherited(t, l)
  /\ waiting' = [waiting EXCEPT ![l] = Enqueued(@, t)]
  /\ blocked' = blocked \cup {t}
  /\ call' = [call EXCEPT ![t] = l]
  /\ UNCHANGED <<owner, notified>>

\* xQueueGenericSend with prvCopyDataToQueue and xTaskRemoveFromEventList: the first
\* task that waits is made ready
Give(t, l) ==
  /\ Executes(t) /\ owner[l] = t
  /\ owner' = [owner EXCEPT ![l] = Nobody]
  /\ priority' = Disinherited(t, l)
  /\ IF waiting[l] = << >>
     THEN UNCHANGED <<waiting, blocked>>
     ELSE /\ waiting' = [waiting EXCEPT ![l] = Tail(@)]
          /\ blocked' = blocked \ {Head(waiting[l])}
  /\ UNCHANGED <<call, notified>>

-----------------------------------------------------------------------------
(* Notifications and delays *)

\* Mutant: the value is counted, and the task left asleep.
BugNotifyGive(t, u) ==
  /\ Executes(t)
  /\ notified' = [notified EXCEPT ![u] = TRUE]
  /\ UNCHANGED <<priority, owner, waiting, call, blocked>>

\* xTaskNotifyGive: makes the task ready if it waits for a notification
NotifyGive(t, u) ==
  /\ Executes(t)
  /\ notified' = [notified EXCEPT ![u] = TRUE]
  /\ blocked' = IF call[u] = "notification" THEN blocked \ {u} ELSE blocked
  /\ UNCHANGED <<priority, owner, waiting, call>>

\* ulTaskNotifyTake, first critical section: blocks if nothing is pending
Await(t) ==
  /\ Executes(t)
  /\ call' = [call EXCEPT ![t] = "notification"]
  /\ blocked' = IF notified[t] THEN blocked ELSE blocked \cup {t}
  /\ UNCHANGED <<priority, owner, waiting, notified>>

\* second critical section: returns whether there was a notification, and clears it
Awake(t) ==
  /\ Runs(t) /\ call[t] = "notification"
  /\ call' = [call EXCEPT ![t] = "none"]
  /\ notified' = [notified EXCEPT ![t] = FALSE]
  /\ UNCHANGED <<priority, owner, waiting, blocked>>

\* vTaskDelay
Delay(t) ==
  /\ Executes(t)
  /\ call' = [call EXCEPT ![t] = "delay"]
  /\ blocked' = blocked \cup {t}
  /\ UNCHANGED <<priority, owner, waiting, notified>>

Resume(t) ==
  /\ Runs(t) /\ call[t] = "delay"
  /\ call' = [call EXCEPT ![t] = "none"]
  /\ UNCHANGED <<priority, owner, waiting, blocked, notified>>

\* xTaskIncrementTick: the time of a delay, or of the wait for a notification, is over
Expire(t) ==
  /\ t \in blocked /\ call[t] \in {"notification", "delay"}
  /\ blocked' = blocked \ {t}
  /\ UNCHANGED <<priority, owner, waiting, call, notified>>

-----------------------------------------------------------------------------
KernelInit ==
  /\ priority = BasePriority
  /\ owner = [l \in Locks |-> Nobody]
  /\ waiting = [l \in Locks |-> << >>]
  /\ blocked = {}
  /\ call = [t \in Tasks |-> "none"]
  /\ notified = [t \in Tasks |-> FALSE]

KernelNext ==
  \E t \in Tasks :
    \/ \E l \in Locks : Take(t, l)
    \/ \E l \in Locks : Wait(t, l)
    \/ \E l \in Locks : Give(t, l)
    \/ \E u \in Tasks : NotifyGive(t, u)
    \/ Await(t)
    \/ Awake(t)
    \/ Delay(t)
    \/ Resume(t)
    \/ Expire(t)

KernelSpec == KernelInit /\ [][KernelNext]_kernelVars

-----------------------------------------------------------------------------
(* Properties *)

KernelTypeOK ==
  /\ priority \in [Tasks -> Nat]
  /\ owner \in [Locks -> Tasks \cup {Nobody}]
  /\ waiting \in [Locks -> Seq(Tasks)]
  /\ blocked \subseteq Tasks
  /\ call \in [Tasks -> Locks \cup {"none", "notification", "delay"}]
  /\ notified \in [Tasks -> BOOLEAN]

\* A task has a priority that is not its own only as long as it holds a mutex.
RaisedByMutexOnly == \A t \in Tasks : priority[t] # BasePriority[t] => Held(t) # {}

\* Priority inversion is bounded: while the holder of a mutex can run, nothing runs that
\* has a lower priority than a task that waits for it, if that task holds no mutex
\* itself (what it inherits in its sleep it does not pass on).
InversionIsBounded ==
  \A l \in Mutexes, w \in Tasks :
    /\ w \in Range(waiting[l]) /\ Held(w) = {}
    /\ owner[l] \in Tasks \ blocked
    => \A t \in Tasks : Runs(t) => priority[t] >= priority[w]

\* No wakeup is lost: a lock that is free while tasks wait for it is wanted by one that
\* is ready, and no other that waits (and holds no mutex) has a higher priority.
NoLostWakeup ==
  \A l \in Locks :
    owner[l] = Nobody /\ waiting[l] # << >> =>
      \E t \in Tasks \ blocked :
        /\ call[t] = l
        /\ \A w \in Range(waiting[l]) : Held(w) = {} => priority[w] <= priority[t]

\* A task does not sleep on a notification it has got, nor without a call.
SleepsForAReason ==
  \A t \in blocked :
    /\ call[t] # "none"
    /\ call[t] = "notification" => ~ notified[t]
    /\ call[t] \in Locks => t \in Range(waiting[call[t]])

=============================================================================
