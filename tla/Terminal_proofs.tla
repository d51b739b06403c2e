---------------------------- MODULE Terminal_proofs ----------------------------
(***************************************************************************)
(* Proofs about the kernel, the UART driver and the console, and the       *)
(* threads that share the UART: for any number of tasks, locks and         *)
(* priorities; for any size of the receive buffer and any number of        *)
(* characters; for any number of threads that log, any texts, and any size *)
(* of the trace buffer.  Each of the three parts rests on the one before.  *)
(***************************************************************************)
EXTENDS Terminal, SequenceTheorems, WellFoundedInduction, TLAPS

(***************************************************************************)
(* The kernel, whatever calls the tasks make.                              *)
(***************************************************************************)
(* The inductive invariant *)

\* A task that is in a list sleeps, in a call for this lock, and is there only once.
WaitersSleep ==
  \A l \in Locks :
    /\ \A i \in DOMAIN waiting[l] : waiting[l][i] \in blocked /\ call[waiting[l][i]] = l
    /\ \A i, j \in DOMAIN waiting[l] : waiting[l][i] = waiting[l][j] => i = j

\* The lists are ordered by priority, but for the tasks that hold a mutex: they may have
\* inherited a higher one since.
Sorted ==
  \A l \in Locks : \A i, j \in DOMAIN waiting[l] :
    i < j /\ Held(waiting[l][j]) = {} => priority[waiting[l][i]] >= priority[waiting[l][j]]

\* The holder of a mutex has inherited the priority of those that wait.
Boosted ==
  \A l \in Mutexes : owner[l] \in Tasks =>
    \A w \in Range(waiting[l]) : Held(w) = {} => priority[w] <= priority[owner[l]]

KInv ==
  /\ KernelTypeOK /\ RaisedByMutexOnly /\ WaitersSleep /\ SleepsForAReason
  /\ Sorted /\ Boosted /\ NoLostWakeup

-----------------------------------------------------------------------------
(* The list of the tasks that wait *)

\* Where a task is inserted: at the first place behind which a lower priority follows.
LEMMA PlaceExists ==
  ASSUME KernelTypeOK, NEW s \in Seq(Tasks), NEW t \in Tasks
  PROVE  \E k \in 1 .. Len(s) + 1 :
           /\ k <= Len(s) => priority[s[k]] < priority[t]
           /\ \A j \in 1 .. k - 1 : priority[s[j]] >= priority[t]
<1> DEFINE R == {p \in Nat \X Nat : p[1] < p[2]}
           T == {i \in 1 .. Len(s) + 1 : i <= Len(s) => priority[s[i]] < priority[t]}
<1>1. Len(s) \in Nat /\ s \in [1 .. Len(s) -> Tasks]
  BY LenProperties
<1>2. IsWellFoundedOn(R, Nat)
  BY NatLessThanWellFounded DEF OpToRel
<1>3. T \subseteq Nat /\ Len(s) + 1 \in T
  BY <1>1
<1>4. PICK k \in T : \A j \in T : <<j, k>> \notin R
  <2> HIDE DEF T, R
  <2> QED BY <1>2, <1>3, WFMin
<1>5. k \in 1 .. Len(s) + 1 /\ (k <= Len(s) => priority[s[k]] < priority[t])
  BY <1>4
<1>6. ASSUME NEW j \in 1 .. k - 1 PROVE priority[s[j]] >= priority[t]
  <2>1. j \in Nat /\ k \in Nat /\ j < k /\ j \in 1 .. Len(s)
    BY <1>1, <1>5
  <2>2. <<j, k>> \in R
    BY <2>1
  <2>3. j \notin T
    BY <1>4, <2>2
  <2>4. ~ (priority[s[j]] < priority[t])
    BY <1>1, <2>1, <2>3
  <2>5. priority[s[j]] \in Nat /\ priority[t] \in Nat
    BY <1>1, <2>1 DEF KernelTypeOK
  <2> QED BY <2>4, <2>5
<1> QED BY <1>5, <1>6

\* What vListInsert makes of the list.
LEMMA EnqueuedProperties ==
  ASSUME KernelTypeOK, NEW s \in Seq(Tasks), NEW t \in Tasks
  PROVE  \E k \in 1 .. Len(s) + 1 :
           /\ k <= Len(s) => priority[s[k]] < priority[t]
           /\ \A j \in 1 .. k - 1 : priority[s[j]] >= priority[t]
           /\ Enqueued(s, t) = [i \in 1 .. Len(s) + 1 |->
                IF i < k THEN s[i] ELSE IF i = k THEN t ELSE s[i - 1]]
<1> DEFINE P(k) == /\ k <= Len(s) => priority[s[k]] < priority[t]
                   /\ \A j \in 1 .. k - 1 : priority[s[j]] >= priority[t]
<1>1. \E k \in 1 .. Len(s) + 1 : P(k)
  BY PlaceExists
<1> DEFINE k0 == CHOOSE k \in 1 .. Len(s) + 1 : P(k)
<1>2. k0 \in 1 .. Len(s) + 1 /\ P(k0)
  BY <1>1
<1>3. Enqueued(s, t) = [i \in 1 .. Len(s) + 1 |->
         IF i < k0 THEN s[i] ELSE IF i = k0 THEN t ELSE s[i - 1]]
  BY DEF Enqueued
<1> QED BY <1>2, <1>3

\* The list with a task inserted is a list of tasks again, with this one more.
LEMMA EnqueuedType ==
  ASSUME KernelTypeOK, NEW s \in Seq(Tasks), NEW t \in Tasks
  PROVE  /\ Enqueued(s, t) \in Seq(Tasks)
         /\ DOMAIN Enqueued(s, t) = 1 .. Len(s) + 1
         /\ Range(Enqueued(s, t)) = Range(s) \cup {t}
<1> DEFINE e == Enqueued(s, t)
<1>1. Len(s) \in Nat /\ s \in [1 .. Len(s) -> Tasks]
  BY LenProperties
<1>2. PICK k \in 1 .. Len(s) + 1 : e = [i \in 1 .. Len(s) + 1 |->
         IF i < k THEN s[i] ELSE IF i = k THEN t ELSE s[i - 1]]
  BY EnqueuedProperties
<1> HIDE DEF e
<1>3. e \in [1 .. Len(s) + 1 -> Tasks]
  BY <1>1, <1>2
<1>4. e \in Seq(Tasks) /\ DOMAIN e = 1 .. Len(s) + 1
  BY <1>1, <1>3, SeqDef
<1>5. Range(e) \subseteq Range(s) \cup {t}
  <2> SUFFICES ASSUME NEW i \in 1 .. Len(s) + 1, e[i] # t PROVE e[i] \in Range(s)
    BY <1>4 DEF Range
  <2>1. i - 1 \in Nat /\ (i < k => i \in 1 .. Len(s)) /\ (i > k => i - 1 \in 1 .. Len(s))
    BY <1>1
  <2>2. i # k /\ e[i] = IF i < k THEN s[i] ELSE s[i - 1]
    BY <1>2
  <2>3. \A j \in 1 .. Len(s) : s[j] \in Range(s)
    BY <1>1 DEF Range
  <2>4. i < k \/ i > k
    BY <1>1, <2>2
  <2> QED BY <2>1, <2>2, <2>3, <2>4
<1>6. Range(s) \cup {t} \subseteq Range(e)
  <2>1. t \in Range(e)
    BY <1>1, <1>2, <1>4 DEF Range
  <2>2. ASSUME NEW i \in 1 .. Len(s) PROVE s[i] \in Range(e)
    <3>1. CASE i < k
      <4>1. i \in 1 .. Len(s) + 1 /\ e[i] = s[i]
        BY <1>1, <1>2, <3>1
      <4> QED BY <1>4, <4>1 DEF Range
    <3>2. CASE i >= k
      <4>1. i + 1 \in 1 .. Len(s) + 1 /\ e[i + 1] = s[i]
        BY <1>1, <1>2, <3>2
      <4> QED BY <1>4, <4>1 DEF Range
    <3> QED BY <1>1, <3>1, <3>2
  <2> QED BY <1>1, <2>1, <2>2 DEF Range
<1> QED BY <1>4, <1>5, <1>6 DEF e

-----------------------------------------------------------------------------
(* Notifications and delays *)

\* What nobody waits for and nobody holds at the start satisfies the invariant.
LEMMA InvariantHoldsAtFirst == KernelInit => KInv
<1> SUFFICES ASSUME KernelInit PROVE KInv
  OBVIOUS
<1> USE DEF KernelInit
<1>1. \A l \in Locks : waiting[l] = << >> /\ DOMAIN waiting[l] = {} /\ Range(waiting[l]) = {}
  BY EmptySeq DEF Range
<1>2. KernelTypeOK
  BY KernelAssumption, EmptySeq DEF KernelTypeOK
<1>3. RaisedByMutexOnly /\ WaitersSleep /\ SleepsForAReason /\ Sorted
  BY <1>1 DEF RaisedByMutexOnly, WaitersSleep, SleepsForAReason, Sorted
<1>4. Boosted
  BY <1>1, KernelAssumption DEF Boosted
<1>5. NoLostWakeup
  BY <1>1 DEF NoLostWakeup
<1> QED BY <1>2, <1>3, <1>4, <1>5 DEF KInv

\* Steps that leave alone the locks and the tasks that want one.
LEMMA LocksUntouched ==
  ASSUME KInv, UNCHANGED <<priority, owner, waiting>>,
         blocked' \subseteq Tasks,
         call' \in [Tasks -> Locks \cup {"none", "notification", "delay"}],
         notified' \in [Tasks -> BOOLEAN],
         SleepsForAReason',
         \A u \in Tasks : call[u] \in Locks =>
           call'[u] = call[u] /\ (u \in blocked' <=> u \in blocked)
  PROVE  KInv'
<1>1. KernelTypeOK'
  BY DEF KInv, KernelTypeOK
<1>2. \A t : Held(t)' = Held(t)
  BY DEF Held
<1>3. RaisedByMutexOnly' /\ Sorted' /\ Boosted'
  BY <1>2 DEF KInv, RaisedByMutexOnly, Sorted, Boosted
<1>4. \A l \in Locks : \A i \in DOMAIN waiting[l] : waiting[l][i] \in Tasks
  BY LenProperties, ElementOfSeq DEF KInv, KernelTypeOK
<1>5. WaitersSleep'
  BY <1>4 DEF KInv, WaitersSleep
<1>6. NoLostWakeup'
  BY <1>2 DEF KInv, NoLostWakeup
<1> QED BY <1>1, <1>3, <1>5, <1>6 DEF KInv

\* Notifications.
LEMMA NotifyKeeps ==
  ASSUME KInv, NEW t \in Tasks, NEW u \in Tasks, NotifyGive(t, u)
  PROVE  KInv'
<1> USE DEF NotifyGive
<1>1. KernelTypeOK /\ SleepsForAReason
  BY DEF KInv
<1>2. blocked' \subseteq Tasks /\ notified' \in [Tasks -> BOOLEAN]
  BY <1>1 DEF KernelTypeOK
<1>3. SleepsForAReason'
  BY <1>1 DEF SleepsForAReason, KernelTypeOK
<1>4. \A v \in Tasks : call[v] \in Locks => (v \in blocked' <=> v \in blocked)
  BY KernelAssumption
<1>5. call' \in [Tasks -> Locks \cup {"none", "notification", "delay"}]
  BY <1>1 DEF KernelTypeOK
<1> QED BY <1>2, <1>3, <1>4, <1>5, LocksUntouched

\* A task that calls for a notification or a delay, and a task whose call returns.
LEMMA SleepKeeps ==
  ASSUME KInv, NEW t \in Tasks, NEW reason \in {"none", "notification", "delay"},
         call[t] \in {"none", "notification", "delay"},
         call' = [call EXCEPT ![t] = reason],
         \/ blocked' = blocked /\ t \notin blocked
         \/ blocked' = blocked \cup {t} /\ reason # "none" /\ ~ (reason = "notification" /\ notified[t]),
         UNCHANGED <<priority, owner, waiting>>,
         notified' = notified \/ (notified' = [notified EXCEPT ![t] = FALSE] /\ t \notin blocked')
  PROVE  KInv'
<1>1. KernelTypeOK /\ SleepsForAReason
  BY DEF KInv
<1>2. blocked' \subseteq Tasks /\ notified' \in [Tasks -> BOOLEAN]
  BY <1>1 DEF KernelTypeOK
<1>3. call' \in [Tasks -> Locks \cup {"none", "notification", "delay"}]
  BY <1>1 DEF KernelTypeOK
<1>4. SleepsForAReason'
  <2> SUFFICES ASSUME NEW u \in blocked'
               PROVE  /\ call'[u] # "none"
                      /\ call'[u] = "notification" => ~ notified'[u]
                      /\ call'[u] \in Locks => u \in Range(waiting[call'[u]])
    BY DEF SleepsForAReason
  <2>1. CASE u = t
    BY <1>1, <2>1, KernelAssumption DEF KernelTypeOK
  <2>2. CASE u # t
    BY <1>1, <2>2 DEF KernelTypeOK, SleepsForAReason
  <2> QED BY <2>1, <2>2
<1>5. \A v \in Tasks : call[v] \in Locks =>
        call'[v] = call[v] /\ (v \in blocked' <=> v \in blocked)
  BY <1>1, KernelAssumption DEF KernelTypeOK
<1> QED BY <1>2, <1>3, <1>4, <1>5, LocksUntouched

\* The end of a delay, or of the wait for a notification.
LEMMA ExpireKeeps ==
  ASSUME KInv, NEW t \in Tasks, Expire(t)
  PROVE  KInv'
<1> USE DEF Expire
<1>1. KernelTypeOK /\ SleepsForAReason
  BY DEF KInv
<1>2. /\ blocked' \subseteq Tasks /\ notified' \in [Tasks -> BOOLEAN]
      /\ call' \in [Tasks -> Locks \cup {"none", "notification", "delay"}]
  BY <1>1 DEF KernelTypeOK
<1>3. SleepsForAReason'
  BY <1>1 DEF SleepsForAReason
<1>4. \A v \in Tasks : call[v] \in Locks => (v \in blocked' <=> v \in blocked)
  BY KernelAssumption
<1> QED BY <1>2, <1>3, <1>4, LocksUntouched

-----------------------------------------------------------------------------
(* Locks *)

\* The tasks in a list are asleep, and want this lock.
LEMMA WaitersProperties ==
  ASSUME KInv, NEW l \in Locks
  PROVE  /\ waiting[l] \in Seq(Tasks)
         /\ Range(waiting[l]) \subseteq blocked \cap Tasks
         /\ \A w \in Range(waiting[l]) : call[w] = l
<1>1. waiting[l] \in Seq(Tasks)
  BY DEF KInv, KernelTypeOK
<1> QED BY <1>1 DEF KInv, KernelTypeOK, WaitersSleep, Range

\* Who takes a free lock is as urgent as those that still wait for it.
LEMMA TakerIsUrgent ==
  ASSUME KInv, NEW t \in Tasks, NEW l \in Locks, Take(t, l),
         NEW w \in Range(waiting[l]), Held(w) = {}
  PROVE  priority[w] <= priority[t]
<1>1. waiting[l] # << >>
  BY DEF Range
<1>2. PICK h \in Tasks \ blocked : priority[w] <= priority[h]
  BY <1>1 DEF KInv, NoLostWakeup, Take
<1>3. priority[h] <= priority[t]
  BY DEF Take, Calls, Runs
<1>4. priority[w] \in Nat /\ priority[h] \in Nat /\ priority[t] \in Nat
  BY WaitersProperties DEF KInv, KernelTypeOK
<1> QED BY <1>2, <1>3, <1>4

\* Taking a lock.
LEMMA TakeKeeps ==
  ASSUME KInv, NEW t \in Tasks, NEW l \in Locks, Take(t, l)
  PROVE  KInv'
<1> USE DEF Take, Calls
<1>1. /\ KernelTypeOK /\ RaisedByMutexOnly /\ WaitersSleep /\ SleepsForAReason
      /\ Sorted /\ Boosted /\ NoLostWakeup
  BY DEF KInv
<1>2. t \notin blocked
  BY DEF Runs
<1>3. \A m \in Locks : t \notin Range(waiting[m])
  BY <1>2, WaitersProperties
<1>4. /\ \A u \in Tasks : u # t => Held(u)' = Held(u)
      /\ Held(t) \subseteq Held(t)'
  BY <1>1, KernelAssumption DEF Held, KernelTypeOK
<1>5. KernelTypeOK'
  BY <1>1 DEF KernelTypeOK
<1>6. RaisedByMutexOnly'
  BY <1>1, <1>4 DEF RaisedByMutexOnly
<1>7. \A u \in Tasks : u # t => call'[u] = call[u]
  BY <1>1 DEF KernelTypeOK
<1>8. \A m \in Locks : \A i \in DOMAIN waiting[m] :
        waiting[m][i] \in Tasks /\ waiting[m][i] # t
  BY <1>3, WaitersProperties DEF Range
<1>9. WaitersSleep'
  BY <1>1, <1>7, <1>8 DEF WaitersSleep
<1>10. SleepsForAReason'
  BY <1>1, <1>2, <1>7 DEF SleepsForAReason, KernelTypeOK
<1>11. Sorted'
  BY <1>1, <1>4, <1>8 DEF Sorted
<1>12. Boosted'
  <2> SUFFICES ASSUME NEW m \in Mutexes, owner'[m] \in Tasks,
                      NEW w \in Range(waiting[m]), Held(w)' = {}
               PROVE  priority[w] <= priority[owner'[m]]
    BY DEF Boosted
  <2>1. m \in Locks
    BY KernelAssumption
  <2>2. w \in Tasks /\ w # t
    BY <1>3, <2>1, WaitersProperties
  <2>3. Held(w) = {}
    BY <1>4, <2>2
  <2>4. CASE m = l
    <3>1. owner'[m] = t
      BY <1>1, <2>4 DEF KernelTypeOK
    <3> QED BY <2>3, <2>4, <3>1, TakerIsUrgent
  <2>5. CASE m # l
    <3>1. owner'[m] = owner[m]
      BY <1>1, <2>1, <2>5 DEF KernelTypeOK
    <3> QED BY <1>1, <2>3, <3>1 DEF Boosted
  <2> QED BY <2>4, <2>5
<1>13. NoLostWakeup'
  <2> SUFFICES ASSUME NEW m \in Locks, owner'[m] = Nobody, waiting[m] # << >>
               PROVE  \E h \in Tasks \ blocked :
                        /\ call'[h] = m
                        /\ \A w \in Range(waiting[m]) : Held(w)' = {} => priority[w] <= priority[h]
    BY DEF NoLostWakeup
  <2>1. m # l /\ owner[m] = Nobody
    BY <1>1, KernelAssumption DEF KernelTypeOK
  <2>2. PICK h \in Tasks \ blocked :
          /\ call[h] = m
          /\ \A w \in Range(waiting[m]) : Held(w) = {} => priority[w] <= priority[h]
    BY <1>1, <2>1 DEF NoLostWakeup
  <2>3. h # t
    BY <2>1, <2>2, KernelAssumption
  <2>4. \A w \in Range(waiting[m]) : Held(w)' = Held(w)
    BY <1>3, <1>4, WaitersProperties
  <2> QED BY <1>7, <2>2, <2>3, <2>4
<1> QED BY <1>5, <1>6, <1>9, <1>10, <1>11, <1>12, <1>13 DEF KInv

\* A list is ordered, but for those who hold a mutex.
Ordered(s, p) ==
  \A i, j \in DOMAIN s : i < j /\ Held(s[j]) = {} => p[s[i]] >= p[s[j]]

Injective(s) == \A i, j \in DOMAIN s : s[i] = s[j] => i = j

\* vListInsert keeps the order of the list.
LEMMA EnqueuedOrdered ==
  ASSUME KernelTypeOK, NEW s \in Seq(Tasks), NEW t \in Tasks, Ordered(s, priority)
  PROVE  Ordered(Enqueued(s, t), priority)
<1> DEFINE e == Enqueued(s, t)
<1>1. Len(s) \in Nat /\ s \in [1 .. Len(s) -> Tasks]
  BY LenProperties
<1>2. PICK k \in 1 .. Len(s) + 1 :
           /\ k <= Len(s) => priority[s[k]] < priority[t]
           /\ \A j \in 1 .. k - 1 : priority[s[j]] >= priority[t]
           /\ e = [i \in 1 .. Len(s) + 1 |->
                IF i < k THEN s[i] ELSE IF i = k THEN t ELSE s[i - 1]]
  BY EnqueuedProperties
<1> HIDE DEF e
<1>3. DOMAIN e = 1 .. Len(s) + 1
  BY <1>2
<1>4. priority[t] \in Nat /\ \A i \in 1 .. Len(s) : priority[s[i]] \in Nat
  BY <1>1 DEF KernelTypeOK
<1>5. \A i, j \in 1 .. Len(s) :
        i < j /\ Held(s[j]) = {} => priority[s[i]] >= priority[s[j]]
  BY <1>1 DEF Ordered
<1> SUFFICES ASSUME NEW i \in 1 .. Len(s) + 1, NEW j \in 1 .. Len(s) + 1,
                    i < j, Held(e[j]) = {}
             PROVE  priority[e[i]] >= priority[e[j]]
  BY <1>3 DEF Ordered, e
<1>6. i \in Nat /\ j \in Nat /\ k \in Nat
  BY <1>1
<1>7. CASE j < k
  <2>1. e[i] = s[i] /\ e[j] = s[j] /\ i \in 1 .. Len(s) /\ j \in 1 .. Len(s)
    BY <1>1, <1>2, <1>6, <1>7
  <2> QED BY <1>5, <2>1
<1>8. CASE j = k
  <2>1. e[i] = s[i] /\ e[j] = t /\ i \in 1 .. k - 1
    BY <1>1, <1>2, <1>6, <1>8
  <2> QED BY <1>2, <2>1
<1>9. CASE j > k
  <2>1. e[j] = s[j - 1] /\ j - 1 \in 1 .. Len(s) /\ k \in 1 .. Len(s)
    BY <1>1, <1>2, <1>6, <1>9
  <2>2. CASE i < k
    <3>1. e[i] = s[i] /\ i \in 1 .. Len(s) /\ i < j - 1
      BY <1>1, <1>2, <1>6, <1>9, <2>2
    <3> QED BY <1>5, <2>1, <3>1
  <2>3. CASE i = k
    <3>1. e[i] = t /\ priority[s[k]] < priority[t]
      BY <1>2, <2>1, <2>3
    <3>2. k = j - 1 \/ k < j - 1
      BY <1>6, <1>9
    <3>3. priority[s[k]] >= priority[s[j - 1]]
      BY <1>4, <1>5, <2>1, <3>2
    <3> QED BY <1>4, <2>1, <3>1, <3>3
  <2>4. CASE i > k
    <3>1. e[i] = s[i - 1] /\ i - 1 \in 1 .. Len(s) /\ i - 1 < j - 1
      BY <1>1, <1>2, <1>6, <2>4
    <3> QED BY <1>5, <2>1, <3>1
  <2> QED BY <1>6, <2>2, <2>3, <2>4
<1> QED BY <1>6, <1>7, <1>8, <1>9

\* A task that is not in the list is in it once afterwards, and the others remain.
LEMMA EnqueuedInjective ==
  ASSUME KernelTypeOK, NEW s \in Seq(Tasks), NEW t \in Tasks,
         Injective(s), t \notin Range(s)
  PROVE  Injective(Enqueued(s, t))
<1> DEFINE e == Enqueued(s, t)
<1>1. Len(s) \in Nat /\ s \in [1 .. Len(s) -> Tasks]
  BY LenProperties
<1>2. PICK k \in 1 .. Len(s) + 1 : e = [i \in 1 .. Len(s) + 1 |->
         IF i < k THEN s[i] ELSE IF i = k THEN t ELSE s[i - 1]]
  BY EnqueuedProperties
<1> HIDE DEF e
<1>3. \A i \in 1 .. Len(s) : s[i] # t
  BY <1>1 DEF Range
<1>4. \A i, j \in 1 .. Len(s) : s[i] = s[j] => i = j
  BY <1>1 DEF Injective
<1>5. \A i, j \in 1 .. Len(s) + 1 : e[i] = e[j] => i = j
  <2> SUFFICES ASSUME NEW i \in 1 .. Len(s) + 1, NEW j \in 1 .. Len(s) + 1, e[i] = e[j]
               PROVE  i = j
    OBVIOUS
  <2>1. i \in Nat /\ j \in Nat /\ k \in Nat
    BY <1>1
  <2>2. /\ i < k => i \in 1 .. Len(s) /\ e[i] = s[i]
        /\ i = k => e[i] = t
        /\ i > k => i - 1 \in 1 .. Len(s) /\ e[i] = s[i - 1]
    BY <1>1, <1>2
  <2>3. /\ j < k => j \in 1 .. Len(s) /\ e[j] = s[j]
        /\ j = k => e[j] = t
        /\ j > k => j - 1 \in 1 .. Len(s) /\ e[j] = s[j - 1]
    BY <1>1, <1>2
  <2>4. CASE i = k \/ j = k
    BY <1>3, <2>1, <2>2, <2>3, <2>4
  <2>5. CASE i # k /\ j # k
    <3>1. CASE i < k /\ j < k
      BY <1>4, <2>2, <2>3, <3>1
    <3>2. CASE i > k /\ j > k
      <4>1. i - 1 = j - 1
        BY <1>4, <2>2, <2>3, <3>2
      <4> QED BY <2>1, <4>1
    <3>3. CASE i < k /\ j > k
      <4>1. i = j - 1
        BY <1>4, <2>2, <2>3, <3>3
      <4> QED BY <2>1, <3>3, <4>1
    <3>4. CASE i > k /\ j < k
      <4>1. i - 1 = j
        BY <1>4, <2>2, <2>3, <3>4
      <4> QED BY <2>1, <3>4, <4>1
    <3> QED BY <2>1, <2>5, <3>1, <3>2, <3>3, <3>4
  <2> QED BY <2>4, <2>5
<1> QED BY <1>2, <1>5 DEF Injective, e

\* What priority inheritance changes: it raises the holder of the mutex.
LEMMA InheritedProperties ==
  ASSUME KInv, NEW t \in Tasks, NEW l \in Locks, owner[l] \in Tasks
  PROVE  /\ Inherited(t, l) \in [Tasks -> Nat]
         /\ \A u \in Tasks : Inherited(t, l)[u] >= priority[u]
         /\ \A u \in Tasks : Inherited(t, l)[u] # priority[u] => Held(u) # {}
         /\ l \in Mutexes => Inherited(t, l)[owner[l]] >= priority[t]
<1>1. priority \in [Tasks -> Nat]
  BY DEF KInv, KernelTypeOK
<1>2. CASE l \in Mutexes /\ priority[owner[l]] < priority[t]
  <2>1. Inherited(t, l) = [priority EXCEPT ![owner[l]] = priority[t]]
    BY <1>2 DEF Inherited
  <2>2. l \in Held(owner[l])
    BY <1>2 DEF Held
  <2> QED BY <1>1, <1>2, <2>1, <2>2
<1>3. CASE ~ (l \in Mutexes /\ priority[owner[l]] < priority[t])
  BY <1>1, <1>3 DEF Inherited
<1> QED BY <1>2, <1>3

\* Waiting for a lock.
LEMMA WaitKeeps ==
  ASSUME KInv, NEW t \in Tasks, NEW l \in Locks, Wait(t, l)
  PROVE  KInv'
<1> USE DEF Wait, Calls
<1>1. /\ KernelTypeOK /\ RaisedByMutexOnly /\ WaitersSleep /\ SleepsForAReason
      /\ Sorted /\ Boosted /\ NoLostWakeup
  BY DEF KInv
<1>2. t \notin blocked /\ owner[l] \in Tasks
  BY <1>1 DEF Runs, KernelTypeOK
<1>3. /\ priority' \in [Tasks -> Nat]
      /\ \A u \in Tasks : priority'[u] >= priority[u]
      /\ \A u \in Tasks : priority'[u] # priority[u] => Held(u) # {}
      /\ l \in Mutexes => priority'[owner[l]] >= priority[t]
  BY <1>2, InheritedProperties
<1>4. \A u : Held(u)' = Held(u)
  BY DEF Held
<1>5. /\ \A m \in Locks : waiting[m] \in Seq(Tasks) /\ t \notin Range(waiting[m])
      /\ \A m \in Locks : m # l => waiting'[m] = waiting[m]
      /\ waiting'[l] = Enqueued(waiting[l], t)
  BY <1>1, <1>2, WaitersProperties DEF KernelTypeOK
<1>6. /\ waiting'[l] \in Seq(Tasks)
      /\ Range(waiting'[l]) = Range(waiting[l]) \cup {t}
  <2>1. KernelTypeOK /\ waiting[l] \in Seq(Tasks)
    BY <1>1, <1>5
  <2>2. /\ Enqueued(waiting[l], t) \in Seq(Tasks)
        /\ Range(Enqueued(waiting[l], t)) = Range(waiting[l]) \cup {t}
    BY ONLY <2>1, t \in Tasks, EnqueuedType
  <2> QED BY ONLY <1>5, <2>2
<1>7. /\ call' \in [Tasks -> Locks \cup {"none", "notification", "delay"}]
      /\ call'[t] = l
      /\ \A u \in Tasks : u # t => call'[u] = call[u]
  BY <1>1 DEF KernelTypeOK
<1>8. KernelTypeOK'
  BY <1>1, <1>3, <1>5, <1>6, <1>7 DEF KernelTypeOK
<1>9. RaisedByMutexOnly'
  BY <1>1, <1>3, <1>4 DEF RaisedByMutexOnly
<1>10. WaitersSleep'
  <2>1. \A m \in Locks : Injective(waiting'[m])
    <3>1. \A m \in Locks : Injective(waiting[m])
      BY <1>1 DEF WaitersSleep, Injective
    <3> QED BY <1>1, <1>5, <3>1, EnqueuedInjective
  <2>2. ASSUME NEW m \in Locks, NEW w \in Range(waiting'[m])
        PROVE  w \in blocked' /\ call'[w] = m
    <3>1. CASE w \in Range(waiting[m])
      <4>1. w \in blocked /\ w \in Tasks /\ call[w] = m /\ w # t
        BY <1>5, <3>1, WaitersProperties
      <4> QED BY <1>7, <4>1
    <3>2. CASE w \notin Range(waiting[m])
      BY <1>5, <1>6, <1>7, <2>2, <3>2
    <3> QED BY <3>1, <3>2
  <2>3. \A m \in Locks : \A i \in DOMAIN waiting'[m] :
          waiting'[m][i] \in blocked' /\ call'[waiting'[m][i]] = m
    BY <2>2 DEF Range
  <2> QED BY <2>1, <2>3 DEF WaitersSleep, Injective
<1>11. SleepsForAReason'
  <2> SUFFICES ASSUME NEW u \in blocked'
               PROVE  /\ call'[u] # "none"
                      /\ call'[u] = "notification" => ~ notified'[u]
                      /\ call'[u] \in Locks => u \in Range(waiting'[call'[u]])
    BY DEF SleepsForAReason
  <2>1. CASE u = t
    BY <1>6, <1>7, <2>1, KernelAssumption
  <2>2. CASE u # t
    <3>1. u \in blocked /\ u \in Tasks /\ call'[u] = call[u]
      BY <1>1, <1>7, <2>2 DEF KernelTypeOK
    <3> QED BY <1>1, <1>5, <1>6, <3>1 DEF SleepsForAReason
  <2> QED BY <2>1, <2>2
<1>12. Sorted'
  <2>1. \A m \in Locks : Ordered(waiting'[m], priority)
    <3>1. \A m \in Locks : Ordered(waiting[m], priority)
      BY <1>1 DEF Sorted, Ordered
    <3> QED BY <1>1, <1>5, <3>1, EnqueuedOrdered
  <2> SUFFICES ASSUME NEW m \in Locks, NEW i \in DOMAIN waiting'[m],
                      NEW j \in DOMAIN waiting'[m], i < j, Held(waiting'[m][j]) = {}
               PROVE  priority'[waiting'[m][i]] >= priority'[waiting'[m][j]]
    BY <1>4 DEF Sorted
  <2> DEFINE a == waiting'[m][i]
             b == waiting'[m][j]
  <2>2. a \in Tasks /\ b \in Tasks
    BY <1>8, LenProperties, ElementOfSeq DEF KernelTypeOK
  <2>3. priority[a] >= priority[b]
    BY <2>1 DEF Ordered
  <2>4. priority'[b] = priority[b] /\ priority'[a] >= priority[a]
    BY <1>3, <2>2
  <2> HIDE DEF a, b
  <2>5. priority[a] \in Nat /\ priority[b] \in Nat /\ priority'[a] \in Nat
    BY <1>1, <1>3, <2>2 DEF KernelTypeOK
  <2>6. priority'[a] >= priority'[b]
    BY <2>3, <2>4, <2>5
  <2> QED BY <2>6 DEF a, b
<1>13. Boosted'
  <2> SUFFICES ASSUME NEW m \in Mutexes, owner[m] \in Tasks,
                      NEW w \in Range(waiting'[m]), Held(w) = {}
               PROVE  priority'[w] <= priority'[owner[m]]
    BY <1>4 DEF Boosted
  <2>1. m \in Locks /\ w \in Tasks
    BY <1>5, <1>6, WaitersProperties, KernelAssumption
  <2>2. priority'[w] = priority[w] /\ priority'[owner[m]] >= priority[owner[m]]
    BY <1>3, <2>1
  <2>3. CASE w \in Range(waiting[m])
    <3>1. priority[w] <= priority[owner[m]]
      BY <1>1, <2>3 DEF Boosted
    <3>2. priority[w] \in Nat /\ priority[owner[m]] \in Nat /\ priority'[owner[m]] \in Nat
      BY <1>1, <1>3, <2>1 DEF KernelTypeOK
    <3> QED BY <2>2, <3>1, <3>2
  <2>4. CASE w \notin Range(waiting[m])
    <3>1. m = l /\ w = t
      BY <1>5, <1>6, <2>1, <2>4
    <3>2. priority[t] \in Nat /\ priority'[owner[m]] \in Nat
      BY <1>1, <1>3 DEF KernelTypeOK
    <3> QED BY <1>3, <2>2, <3>1, <3>2
  <2> QED BY <2>3, <2>4
<1>14. NoLostWakeup'
  <2> SUFFICES ASSUME NEW m \in Locks, owner[m] = Nobody, waiting'[m] # << >>
               PROVE  \E h \in Tasks \ blocked' :
                        /\ call'[h] = m
                        /\ \A w \in Range(waiting'[m]) :
                             Held(w) = {} => priority'[w] <= priority'[h]
    BY <1>4 DEF NoLostWakeup
  <2>1. m # l /\ waiting'[m] = waiting[m]
    BY <1>5
  <2>2. PICK h \in Tasks \ blocked :
          /\ call[h] = m
          /\ \A w \in Range(waiting[m]) : Held(w) = {} => priority[w] <= priority[h]
    BY <1>1, <2>1 DEF NoLostWakeup
  <2>3. h # t
    BY <2>1, <2>2, KernelAssumption
  <2>4. ASSUME NEW w \in Range(waiting[m]), Held(w) = {}
        PROVE  priority'[w] <= priority'[h]
    <3>1. w \in Tasks /\ priority[w] <= priority[h]
      BY <2>2, <2>4, WaitersProperties
    <3>2. priority'[w] = priority[w] /\ priority'[h] >= priority[h]
      BY <1>3, <2>4, <3>1
    <3>3. priority[w] \in Nat /\ priority[h] \in Nat /\ priority'[h] \in Nat
      BY <1>1, <1>3, <3>1 DEF KernelTypeOK
    <3> QED BY <3>1, <3>2, <3>3
  <2> QED BY <1>7, <2>1, <2>2, <2>3, <2>4
<1> QED BY <1>8, <1>9, <1>10, <1>11, <1>12, <1>13, <1>14 DEF KInv

\* The list without its first task.
LEMMA TailOfList ==
  ASSUME NEW s \in Seq(Tasks), s # << >>, NEW p \in [Tasks -> Nat],
         Ordered(s, p), Injective(s)
  PROVE  /\ Tail(s) \in Seq(Tasks) /\ Ordered(Tail(s), p) /\ Injective(Tail(s))
         /\ Head(s) \in Tasks /\ Range(s) = {Head(s)} \cup Range(Tail(s))
         /\ Head(s) \notin Range(Tail(s))
         /\ \A w \in Range(Tail(s)) : Held(w) = {} => p[w] <= p[Head(s)]
<1> DEFINE t == Tail(s)
           n == Len(s)
<1>1. n \in Nat \ {0} /\ DOMAIN s = 1 .. n /\ \A i \in 1 .. n : s[i] \in Tasks
  BY EmptySeq, LenProperties, ElementOfSeq
<1>2. /\ t \in Seq(Tasks) /\ Len(t) = n - 1 /\ Head(s) = s[1]
      /\ \A i \in 1 .. Len(t) : t[i] = s[i + 1]
  BY HeadTailProperties
<1> HIDE DEF t, n
<1>3. DOMAIN t = 1 .. n - 1 /\ \A i \in 1 .. n - 1 : t[i] = s[i + 1] /\ i + 1 \in 1 .. n
  BY <1>1, <1>2, LenProperties
<1>4. Ordered(t, p)
  <2> SUFFICES ASSUME NEW i \in 1 .. n - 1, NEW j \in 1 .. n - 1, i < j, Held(t[j]) = {}
               PROVE  p[t[i]] >= p[t[j]]
    BY <1>3 DEF Ordered
  <2>1. i + 1 < j + 1
    BY <1>1
  <2> QED BY <1>1, <1>3, <2>1 DEF Ordered
<1>5. Injective(t)
  <2> SUFFICES ASSUME NEW i \in 1 .. n - 1, NEW j \in 1 .. n - 1, t[i] = t[j]
               PROVE  i = j
    BY <1>3 DEF Injective
  <2>1. i + 1 = j + 1
    BY <1>1, <1>3 DEF Injective
  <2> QED BY <1>1, <2>1
<1>6. 1 \in 1 .. n /\ Head(s) \in Tasks
  BY <1>1, <1>2
<1>7. Range(s) = {Head(s)} \cup Range(t)
  <2>1. ASSUME NEW i \in 1 .. n, i # 1 PROVE s[i] \in Range(t)
    <3>1. i - 1 \in 1 .. n - 1 /\ (i - 1) + 1 = i
      BY <1>1, <2>1
    <3>2. t[i - 1] = s[i]
      BY <1>3, <3>1
    <3> QED BY <1>3, <3>1, <3>2 DEF Range
  <2> QED BY <1>1, <1>2, <1>3, <1>6, <2>1 DEF Range
<1>8. ASSUME NEW w \in Range(t)
      PROVE  w # Head(s) /\ (Held(w) = {} => p[w] <= p[Head(s)])
  <2>1. PICK i \in 1 .. n - 1 : w = t[i]
    BY <1>3 DEF Range
  <2>2. w = s[i + 1] /\ i + 1 \in 1 .. n /\ 1 < i + 1
    BY <1>1, <1>3, <2>1
  <2>3. w # s[1]
    BY <1>1, <1>6, <2>2 DEF Injective
  <2>4. Held(w) = {} => p[s[1]] >= p[w]
    BY <1>1, <1>6, <2>2 DEF Ordered
  <2>5. p[s[1]] \in Nat /\ p[w] \in Nat
    BY <1>1, <1>6, <2>2
  <2> QED BY <1>2, <2>3, <2>4, <2>5
<1> QED BY <1>2, <1>4, <1>5, <1>6, <1>7, <1>8 DEF t

\* What giving a lock back changes in its list.
LEMMA GivenProperties ==
  ASSUME KInv, NEW t \in Tasks, NEW l \in Locks, Give(t, l)
  PROVE  /\ waiting' \in [Locks -> Seq(Tasks)]
         /\ \A m \in Locks : /\ Range(waiting'[m]) \subseteq Range(waiting[m]) \cap blocked'
                             /\ Ordered(waiting'[m], priority) /\ Injective(waiting'[m])
                             /\ m # l => waiting'[m] = waiting[m]
         /\ blocked' \subseteq blocked
         /\ \A u \in blocked' : call[u] \in Locks => u \in Range(waiting'[call[u]])
         /\ waiting'[l] # << >> =>
              \E h \in Tasks \ blocked' :
                /\ h # t /\ call[h] = l
                /\ \A w \in Range(waiting'[l]) : Held(w) = {} => priority[w] <= priority[h]
<1>1. \A m \in Locks : /\ waiting[m] \in Seq(Tasks)
                       /\ Range(waiting[m]) \subseteq blocked \cap Tasks
                       /\ \A w \in Range(waiting[m]) : call[w] = m
                       /\ Ordered(waiting[m], priority) /\ Injective(waiting[m])
  BY WaitersProperties DEF KInv, WaitersSleep, Sorted, Ordered, Injective
<1>2. /\ waiting \in [Locks -> Seq(Tasks)] /\ priority \in [Tasks -> Nat]
      /\ \A u \in blocked : call[u] \in Locks => u \in Range(waiting[call[u]])
      /\ t \notin blocked
  BY DEF KInv, KernelTypeOK, SleepsForAReason, Give, Executes, Runs
<1>3. CASE waiting[l] = << >>
  BY <1>1, <1>2, <1>3 DEF Give
<1>4. CASE waiting[l] # << >>
  <2> DEFINE s == waiting[l]
             h == Head(s)
             r == Tail(s)
  <2>1. /\ r \in Seq(Tasks) /\ Ordered(r, priority) /\ Injective(r)
        /\ h \in Tasks /\ Range(s) = {h} \cup Range(r) /\ h \notin Range(r)
        /\ \A w \in Range(r) : Held(w) = {} => priority[w] <= priority[h]
    BY <1>1, <1>2, <1>4, TailOfList
  <2>2. waiting' = [waiting EXCEPT ![l] = r] /\ blocked' = blocked \ {h}
    BY <1>4 DEF Give
  <2>3. h \in blocked /\ call[h] = l /\ h # t
    BY <1>1, <1>2, <2>1
  <2> HIDE DEF h, r
  <2>4. /\ waiting'[l] = r
        /\ \A m \in Locks : m # l => waiting'[m] = waiting[m]
        /\ waiting' \in [Locks -> Seq(Tasks)]
    BY <1>2, <2>1, <2>2
  <2>5. ASSUME NEW m \in Locks
        PROVE  /\ Range(waiting'[m]) \subseteq Range(waiting[m]) \cap blocked'
               /\ Ordered(waiting'[m], priority) /\ Injective(waiting'[m])
    <3>1. CASE m = l
      BY <1>1, <2>1, <2>2, <2>4, <3>1
    <3>2. CASE m # l
      BY <1>1, <2>2, <2>3, <2>4, <3>2
    <3> QED BY <3>1, <3>2
  <2>6. ASSUME NEW u \in blocked', call[u] \in Locks
        PROVE  u \in Range(waiting'[call[u]])
    <3>1. u \in Range(waiting[call[u]]) /\ u # h
      BY <1>2, <2>2, <2>6
    <3> QED BY <2>1, <2>4, <2>6, <3>1
  <2> QED BY <2>1, <2>2, <2>3, <2>4, <2>5, <2>6
<1> QED BY <1>3, <1>4

\* What giving a lock back changes for the task that gives it.
LEMMA DisinheritedProperties ==
  ASSUME KInv, NEW t \in Tasks, NEW l \in Locks, Give(t, l)
  PROVE  /\ priority' \in [Tasks -> Nat]
         /\ \A u \in Tasks : u # t => priority'[u] = priority[u] /\ Held(u)' = Held(u)
         /\ Held(t)' = Held(t) \ {l}
         /\ (\E m \in Held(t) : m # l) => priority' = priority
         /\ priority'[t] # BasePriority[t] => Held(t)' # {}
<1>1. /\ priority \in [Tasks -> Nat] /\ owner \in [Locks -> Tasks \cup {Nobody}]
      /\ priority[t] # BasePriority[t] => Held(t) # {}
  BY DEF KInv, KernelTypeOK, RaisedByMutexOnly
<1>2. owner[l] = t /\ owner' = [owner EXCEPT ![l] = Nobody] /\ priority' = Disinherited(t, l)
  BY DEF Give
<1>3. /\ \A u \in Tasks : u # t => Held(u)' = Held(u)
      /\ Held(t)' = Held(t) \ {l}
  BY <1>1, <1>2, KernelAssumption DEF Held
<1>4. CASE l \in Mutexes /\ Held(t) = {l}
  BY <1>1, <1>2, <1>3, <1>4, KernelAssumption DEF Disinherited
<1>5. CASE ~ (l \in Mutexes /\ Held(t) = {l})
  <2>1. priority' = priority
    BY <1>2, <1>5 DEF Disinherited
  <2>2. l \in Mutexes => l \in Held(t)
    BY <1>2 DEF Held
  <2>3. l \notin Mutexes => l \notin Held(t)
    BY DEF Held
  <2> QED BY <1>1, <1>3, <1>5, <2>1, <2>2, <2>3
<1> QED BY <1>4, <1>5

\* Giving a lock back.
LEMMA GiveKeeps ==
  ASSUME KInv, NEW t \in Tasks, NEW l \in Locks, Give(t, l)
  PROVE  KInv'
<1>1. /\ KernelTypeOK /\ RaisedByMutexOnly /\ WaitersSleep /\ SleepsForAReason
      /\ Sorted /\ Boosted /\ NoLostWakeup
  BY DEF KInv
<1>2. /\ t \notin blocked /\ call[t] = "none" /\ call' = call /\ notified' = notified
      /\ owner[l] = t /\ owner' = [owner EXCEPT ![l] = Nobody]
  BY DEF Give, Executes, Runs
<1>3. /\ waiting' \in [Locks -> Seq(Tasks)]
      /\ \A m \in Locks : /\ Range(waiting'[m]) \subseteq Range(waiting[m]) \cap blocked'
                          /\ Ordered(waiting'[m], priority) /\ Injective(waiting'[m])
                          /\ m # l => waiting'[m] = waiting[m]
      /\ blocked' \subseteq blocked
      /\ \A u \in blocked' : call[u] \in Locks => u \in Range(waiting'[call[u]])
      /\ waiting'[l] # << >> =>
           \E h \in Tasks \ blocked' :
             /\ h # t /\ call[h] = l
             /\ \A w \in Range(waiting'[l]) : Held(w) = {} => priority[w] <= priority[h]
  BY GivenProperties
<1>4. /\ priority' \in [Tasks -> Nat]
      /\ \A u \in Tasks : u # t => priority'[u] = priority[u] /\ Held(u)' = Held(u)
      /\ (\E m \in Held(t) : m # l) => priority' = priority
      /\ priority'[t] # BasePriority[t] => Held(t)' # {}
  BY DisinheritedProperties
<1>5. \A m \in Locks : \A w \in Range(waiting'[m]) :
        /\ w \in Range(waiting[m]) /\ w \in blocked' /\ w \in Tasks /\ w # t
        /\ call[w] = m /\ Held(w)' = Held(w) /\ priority'[w] = priority[w]
  BY <1>2, <1>3, <1>4, WaitersProperties
<1>6. KernelTypeOK'
  BY <1>1, <1>2, <1>3, <1>4 DEF KernelTypeOK
<1>7. RaisedByMutexOnly'
  BY <1>1, <1>4 DEF RaisedByMutexOnly
<1>8. WaitersSleep'
  BY <1>2, <1>3, <1>5 DEF WaitersSleep, Injective, Range
<1>9. SleepsForAReason'
  BY <1>1, <1>2, <1>3 DEF SleepsForAReason
<1>10. Sorted'
  <2> SUFFICES ASSUME NEW m \in Locks, NEW i \in DOMAIN waiting'[m],
                      NEW j \in DOMAIN waiting'[m], i < j, Held(waiting[m][j])' = {}
               PROVE  priority'[waiting'[m][i]] >= priority'[waiting'[m][j]]
    BY DEF Sorted
  <2> DEFINE a == waiting'[m][i]
             b == waiting'[m][j]
  <2>1. a \in Range(waiting'[m]) /\ b \in Range(waiting'[m])
    BY DEF Range
  <2>2. /\ a \in Tasks /\ a # t /\ b \in Tasks /\ b # t
        /\ priority'[a] = priority[a] /\ priority'[b] = priority[b]
    BY <1>5, <2>1
  <2>3. Held(b) = {}
    <3>1. \A m2 \in Mutexes : owner'[m2] # b
      BY DEF Held
    <3>2. \A m2 \in Mutexes : owner[m2] # b
      BY <1>1, <1>2, <2>2, <3>1, KernelAssumption DEF KernelTypeOK
    <3> QED BY <3>2 DEF Held
  <2>4. priority[a] >= priority[b]
    BY <1>3, <2>3 DEF Ordered
  <2> QED BY <2>2, <2>4
<1>11. Boosted'
  <2> SUFFICES ASSUME NEW m \in Mutexes, owner'[m] \in Tasks,
                      NEW w \in Range(waiting'[m]), Held(w)' = {}
               PROVE  priority'[w] <= priority'[owner'[m]]
    BY DEF Boosted
  <2>1. m \in Locks /\ m # l /\ owner'[m] = owner[m]
    BY <1>1, <1>2, KernelAssumption DEF KernelTypeOK
  <2>2. priority'[w] = priority[w] /\ priority[w] <= priority[owner[m]]
    BY <1>1, <1>5, <2>1 DEF Boosted
  <2>3. CASE owner[m] = t
    <3>1. m \in Held(t) /\ m # l
      BY <2>1, <2>3 DEF Held
    <3> QED BY <1>4, <2>1, <2>2, <3>1
  <2>4. CASE owner[m] # t
    BY <1>4, <2>1, <2>2, <2>4
  <2> QED BY <2>3, <2>4
<1>12. NoLostWakeup'
  <2> SUFFICES ASSUME NEW m \in Locks, owner'[m] = Nobody, waiting'[m] # << >>
               PROVE  \E h \in Tasks \ blocked' :
                        /\ call'[h] = m
                        /\ \A w \in Range(waiting'[m]) :
                             Held(w)' = {} => priority'[w] <= priority'[h]
    BY DEF NoLostWakeup
  <2>1. PICK h \in Tasks \ blocked' :
          /\ h # t /\ call[h] = m
          /\ \A w \in Range(waiting'[m]) : Held(w) = {} => priority[w] <= priority[h]
    <3>1. CASE m = l
      BY <1>3, <3>1
    <3>2. CASE m # l
      <4>1. owner[m] = Nobody /\ waiting'[m] = waiting[m]
        BY <1>1, <1>2, <1>3, <3>2 DEF KernelTypeOK
      <4>2. PICK h \in Tasks \ blocked :
              /\ call[h] = m
              /\ \A w \in Range(waiting[m]) : Held(w) = {} => priority[w] <= priority[h]
        BY <1>1, <4>1 DEF NoLostWakeup
      <4>3. h # t
        BY <1>2, <4>2, KernelAssumption
      <4> QED BY <1>3, <4>1, <4>2, <4>3
    <3> QED BY <3>1, <3>2
  <2> QED BY <1>2, <1>4, <1>5, <2>1
<1> QED BY <1>6, <1>7, <1>8, <1>9, <1>10, <1>11, <1>12 DEF KInv

-----------------------------------------------------------------------------
(* The theorems *)

\* Every step of the kernel keeps the invariant.
LEMMA InvariantKept == KInv /\ [KernelNext]_kernelVars => KInv'
<1> SUFFICES ASSUME KInv, [KernelNext]_kernelVars PROVE KInv'
  OBVIOUS
<1>1. ASSUME NEW t \in Tasks, NEW l \in Locks, Take(t, l) \/ Wait(t, l) \/ Give(t, l)
      PROVE  KInv'
  BY <1>1, TakeKeeps, WaitKeeps, GiveKeeps
<1>2. ASSUME NEW t \in Tasks, NEW u \in Tasks, NotifyGive(t, u) PROVE KInv'
  BY <1>2, NotifyKeeps
<1>3. ASSUME NEW t \in Tasks, Await(t) PROVE KInv'
  BY <1>3, SleepKeeps DEF Await, Executes, Runs
<1>4. ASSUME NEW t \in Tasks, Awake(t) PROVE KInv'
  BY <1>4, SleepKeeps DEF Awake, Runs
<1>5. ASSUME NEW t \in Tasks, Delay(t) PROVE KInv'
  BY <1>5, SleepKeeps DEF Delay, Executes, Runs
<1>6. ASSUME NEW t \in Tasks, Resume(t) PROVE KInv'
  BY <1>6, SleepKeeps DEF Resume, Runs
<1>7. ASSUME NEW t \in Tasks, Expire(t) PROVE KInv'
  BY <1>7, ExpireKeeps
<1>8. CASE UNCHANGED kernelVars
  BY <1>8 DEF kernelVars, KInv, KernelTypeOK, RaisedByMutexOnly, WaitersSleep,
     SleepsForAReason, Sorted, Boosted, NoLostWakeup, Held
<1> QED BY <1>1, <1>2, <1>3, <1>4, <1>5, <1>6, <1>7, <1>8 DEF KernelNext

\* The invariant, of every behaviour of the kernel.
THEOREM InvariantHolds == KernelSpec => []KInv
  BY InvariantHoldsAtFirst, InvariantKept, PTL DEF KernelSpec

\* Type correctness of the kernel.
THEOREM TypeCorrect == KernelSpec => []KernelTypeOK
<1>1. KInv => KernelTypeOK
  BY DEF KInv
<1> QED BY <1>1, InvariantHolds, PTL

\* A task that has given back its last mutex has its own priority again.
THEOREM PriorityReturns == KernelSpec => []RaisedByMutexOnly
<1>1. KInv => RaisedByMutexOnly
  BY DEF KInv
<1> QED BY <1>1, InvariantHolds, PTL

\* A lock that is given back wakes the most urgent of the tasks that wait for it.
THEOREM WakeupsArrive == KernelSpec => []NoLostWakeup
<1>1. KInv => NoLostWakeup
  BY DEF KInv
<1> QED BY <1>1, InvariantHolds, PTL

\* Nobody sleeps who could run.
THEOREM SleepersHaveReasons == KernelSpec => []SleepsForAReason
<1>1. KInv => SleepsForAReason
  BY DEF KInv
<1> QED BY <1>1, InvariantHolds, PTL

\* Nothing less urgent runs in front of a mutex whose holder could run.
THEOREM InversionBounded == KernelSpec => []InversionIsBounded
<1>1. KInv => InversionIsBounded
  <2> SUFFICES ASSUME KInv, NEW l \in Mutexes, NEW w \in Tasks,
                      w \in Range(waiting[l]), Held(w) = {}, owner[l] \in Tasks \ blocked,
                      NEW t \in Tasks, Runs(t)
               PROVE  priority[t] >= priority[w]
    BY DEF InversionIsBounded
  <2>1. priority[w] <= priority[owner[l]]
    BY DEF KInv, Boosted
  <2>2. priority[owner[l]] <= priority[t]
    BY DEF Runs
  <2>3. priority[w] \in Nat /\ priority[owner[l]] \in Nat /\ priority[t] \in Nat
    BY DEF KInv, KernelTypeOK
  <2> QED BY <2>1, <2>2, <2>3
<1> QED BY <1>1, InvariantHolds, PTL
-----------------------------------------------------------------------------
(***************************************************************************)
(* The UART driver and the console.                                        *)
(***************************************************************************)
(* The threads use the kernel by its operations only *)

\* The locks the driver uses are locks.
LEMMA LocksOfTheDriver ==
  "uart" \in Locks /\ "cond" \in Locks /\ "uart" \in Mutexes /\ "cond" \notin Mutexes
BY UartAssumption, KernelAssumption

\* Steps of the kernel.
LEMMA KernelStep ==
  ASSUME NEW t \in Tasks,
         \/ \E l \in Locks : Take(t, l) \/ Wait(t, l) \/ Give(t, l)
         \/ \E u \in Tasks : NotifyGive(t, u)
         \/ Await(t) \/ Awake(t) \/ Delay(t) \/ Resume(t) \/ Expire(t)
         \/ UNCHANGED kernelVars
  PROVE  [KernelNext]_kernelVars
BY DEF KernelNext

\* The driver.
LEMMA DriverUsesKernel ==
  ASSUME listeners \in Seq({Main}), NEW t \in Tasks, InDriver(t)
  PROVE  [KernelNext]_kernelVars
<1> USE LocksOfTheDriver
<1>1. CASE LockUart(t) \/ LockForInput(t) \/ LockListeners(t)
  BY <1>1, KernelStep DEF LockUart, LockForInput, LockListeners, Locking
<1>2. CASE Transmit(t) \/ Sent(t) \/ Receive(t) \/ Put(t) \/ Count(t)
  BY <1>2, KernelStep DEF Transmit, Sent, Receive, Put, Count, Does
<1>3. CASE UnlockUart(t) \/ UnlockInput(t)
  BY <1>3, KernelStep DEF UnlockUart, UnlockInput
<1>4. CASE Broadcast(t)
  <2>1. listeners # << >> => Head(listeners) \in Tasks
    BY HeadTailProperties, ConsoleAssumption
  <2> QED BY <1>4, <2>1, KernelStep DEF Broadcast
<1> QED BY <1>1, <1>2, <1>3, <1>4 DEF InDriver

\* What the console does where it may print: it goes from one place to another, into the driver
\* or, behind a character, past it.
LEMMA ConsolePrints ==
  ASSUME Prompt \/ Typed \/ Process
  PROVE  /\ at[Main] \in {"prompt", "typed", "process"} /\ driver[Main] = "idle"
         /\ call[Main] = "none"
         /\ \E p \in {"wait", "entered", "process", "pause"} : at' = [at EXCEPT ![Main] = p]
         /\ \/ driver' = [driver EXCEPT ![Main] = "lock"]
            \/ UNCHANGED driver /\ at[Main] = "typed"
         /\ UNCHANGED <<kernelVars, usage, rxBuffer, input, count, listeners, phantom, c>>
<1> DEFINE Goal == \E from \in {"prompt", "typed", "process"} :
                    \E to \in {"wait", "entered", "process", "pause"} :
                      Prints(Main, from, to) \/ (from = "typed" /\ Acts(Main, from, to))
<1>1. Goal
  <2>1. CASE Prompt
    BY <2>1 DEF Prompt
  <2>2. CASE Echo
    BY <2>2 DEF Echo
  <2>3. CASE NothingToErase
    BY <2>3 DEF NothingToErase
  <2>4. CASE EndOfLine
    BY <2>4 DEF EndOfLine
  <2>5. CASE Answer \/ Ask
    BY <2>5 DEF Answer, Ask
  <2> QED BY <2>1, <2>2, <2>3, <2>4, <2>5 DEF Typed, Process
<1>2. UNCHANGED <<c, phantom>>
  BY DEF Prompt, Typed, Echo, NothingToErase, EndOfLine, Process, Answer, Ask, consoleVars
<1>3. PICK from \in {"prompt", "typed", "process"}, to \in {"wait", "entered", "process", "pause"} :
        Prints(Main, from, to) \/ (from = "typed" /\ Acts(Main, from, to))
  BY <1>1
<1>4. CASE Prints(Main, from, to)
  BY <1>2, <1>4 DEF Prints, Goes, Write, Does, Moves, Executes
<1>5. CASE from = "typed" /\ Acts(Main, from, to)
  BY <1>2, <1>5 DEF Acts, Goes, Executes, kernelVars, uartVars
<1> QED BY <1>3, <1>4, <1>5

\* The console and the low-priority thread.
LEMMA ConsoleUsesKernel ==
  ASSUME ConsoleStep \/ LowStep
  PROVE  [KernelNext]_kernelVars
<1> USE LocksOfTheDriver, ConsoleAssumption
<1>1. CASE Run \/ WaitForInput \/ ReadChar \/ Entered \/ Trigger
  BY <1>1 DEF Run, WaitForInput, ReadChar, Entered, Trigger, Acts, kernelVars
<1>2. CASE Prompt \/ Typed \/ Process \/ Poll
  BY <1>2 DEF Prompt, Typed, Echo, NothingToErase, EndOfLine, Process, Answer, Ask, Poll, Prints, Acts, Write,
    BeginCycle, Does, kernelVars
<1>3. CASE LockListening \/ LockGivingUp
  BY <1>3, KernelStep DEF LockListening, LockGivingUp, Acquires
<1>4. CASE Enlist \/ Remove
  BY <1>4, KernelStep DEF Enlist, Remove
<1>5. CASE Doze \/ Woken \/ Pause \/ Rerun
  BY <1>5, KernelStep DEF Doze, Woken, Pause, Rerun, Sleeps, Rises
<1> QED BY <1>1, <1>2, <1>3, <1>4, <1>5 DEF ConsoleStep, LowStep

-----------------------------------------------------------------------------
(* Types *)

DataTypes ==
  /\ at = [t \in Tasks |-> at[t]]
  /\ driver \in [Tasks -> DriverPlaces]
  /\ wire \in Tasks \cup {Nobody}
  /\ rxBuffer \in [1 .. STM32UART_BUFFER_SIZE -> 0 .. MaxInput]
  /\ usage \in 0 .. STM32UART_BUFFER_SIZE
  /\ count \in 0 .. STM32UART_BUFFER_SIZE
  /\ input \in 0 .. MaxInput
  /\ listeners \in Seq({Main})
  /\ c \in 0 .. MaxInput

FlagTypes ==
  /\ UartReady \in BOOLEAN
  /\ m_bo_blocked \in BOOLEAN
  /\ line \in BOOLEAN
  /\ timedOut \in BOOLEAN
  /\ phantom \in BOOLEAN

\* What is proved about numbers and about flags, together.
LEMMA TypesTogether == ConsoleTypeOK <=> KernelTypeOK /\ DataTypes /\ FlagTypes
BY DEF ConsoleTypeOK, DataTypes, FlagTypes

\* read().
LEMMA ReadTypes ==
  ASSUME DataTypes, Read
  PROVE  /\ rxBuffer' \in [1 .. STM32UART_BUFFER_SIZE -> 0 .. MaxInput]
         /\ usage' \in 0 .. STM32UART_BUFFER_SIZE
         /\ Front \in 0 .. MaxInput
<1> USE UartAssumption DEF DataTypes
<1>1. CASE usage > 0
  <2>1. \A i \in 1 .. STM32UART_BUFFER_SIZE : i < usage => i + 1 \in 1 .. STM32UART_BUFFER_SIZE
    OBVIOUS
  <2>2. rxBuffer' \in [1 .. STM32UART_BUFFER_SIZE -> 0 .. MaxInput]
    BY <1>1, <2>1 DEF Read
  <2> QED BY <1>1, <2>2 DEF Read, Front
<1>2. CASE ~ (usage > 0)
  BY <1>2 DEF Read, Front, NoInput
<1> QED BY <1>1, <1>2

\* The driver.
LEMMA DriverTypes ==
  ASSUME DataTypes, NEW t \in Tasks, DriverStep(t)
  PROVE  DataTypes'
<1> USE DEF DataTypes, DriverPlaces, DriverStep, consoleVars
<1>1. CASE LockUart(t) \/ LockForInput(t) \/ LockListeners(t)
  BY <1>1 DEF LockUart, LockForInput, LockListeners, Locking, Moves
<1>2. CASE Transmit(t) \/ Sent(t)
  BY <1>2 DEF Transmit, Sent, Does, Moves
<1>3. CASE Receive(t)
  BY <1>3, UartAssumption DEF Receive, Does, Moves
<1>4. CASE Put(t)
  <2>1. rxBuffer' \in [1 .. STM32UART_BUFFER_SIZE -> 0 .. MaxInput]
    BY <1>4 DEF Put
  <2>2. count' \in 0 .. STM32UART_BUFFER_SIZE
    BY <1>4, UartAssumption DEF Put
  <2> QED BY <1>4, <2>1, <2>2 DEF Put, Does, Moves
<1>5. CASE Count(t)
  BY <1>5 DEF Count, Does, Moves
<1>6. CASE UnlockUart(t) \/ UnlockInput(t)
  BY <1>6 DEF UnlockUart, UnlockInput, Moves
<1>7. CASE Broadcast(t)
  <2>1. listeners # << >> => Tail(listeners) \in Seq({Main})
    BY HeadTailProperties
  <2> QED BY <1>7, <2>1 DEF Broadcast, Moves
<1> QED BY <1>1, <1>2, <1>3, <1>4, <1>5, <1>6, <1>7 DEF InDriver

\* The console and the low-priority thread.
LEMMA ConsoleTypes ==
  ASSUME DataTypes, ConsoleStep \/ LowStep
  PROVE  DataTypes'
<1> USE ConsoleAssumption DEF DataTypes, DriverPlaces, consoleVars, uartVars, Goes
<1>1. CASE Run \/ WaitForInput \/ Entered \/ Trigger
  BY <1>1 DEF Run, WaitForInput, Entered, Trigger, Acts
<1>2. CASE Prompt \/ Typed \/ Process \/ Poll
  BY <1>2 DEF Prompt, Typed, Echo, NothingToErase, EndOfLine, Process, Answer, Ask, Poll, Prints, Acts, Write,
    BeginCycle, Does, Moves
<1>3. CASE LockListening \/ LockGivingUp
  BY <1>3 DEF LockListening, LockGivingUp, Acquires
<1>4. CASE Enlist
  <2>1. Append(listeners, Main) \in Seq({Main})
    BY AppendProperties
  <2> QED BY <1>4, <2>1 DEF Enlist
<1>5. CASE Remove
  <2>1. << >> \in Seq({Main})
    BY EmptySeq
  <2> QED BY <1>5, <2>1 DEF Remove
<1>6. CASE ReadChar
  BY <1>6, ReadTypes DEF ReadChar, Read
<1>7. CASE Doze \/ Woken \/ Pause \/ Rerun
  BY <1>7 DEF Doze, Woken, Pause, Rerun, Sleeps, Rises
<1> QED BY <1>1, <1>2, <1>3, <1>4, <1>5, <1>6, <1>7 DEF ConsoleStep, LowStep

\* The flags.
LEMMA FlagsKept ==
  ASSUME FlagTypes, NEW t \in Tasks, ConsoleStep \/ LowStep \/ DriverStep(t) \/ Interrupt
  PROVE  FlagTypes'
<1> USE DEF FlagTypes, consoleVars, uartVars
<1>1. CASE ConsoleStep
  BY <1>1, Zenon DEF ConsoleStep, Run, Prompt, WaitForInput, LockListening, Enlist, Doze, Woken,
    LockGivingUp, Remove, ReadChar, Typed, Echo, NothingToErase, EndOfLine, Entered, Process, Answer, Ask,
    Pause, Rerun, Acts, Prints, Write,
    Acquires, Sleeps, Rises, Read
<1>2. CASE LowStep
  BY <1>2 DEF LowStep, Poll, BeginCycle, Trigger, Acts
<1>3. CASE DriverStep(t)
  BY <1>3 DEF DriverStep, InDriver, LockUart, LockForInput, LockListeners, Transmit, Sent, Receive, Put,
    Count, UnlockUart, UnlockInput, Broadcast
<1>4. CASE Interrupt
  BY <1>4 DEF Interrupt, TxCplt
<1> QED BY <1>1, <1>2, <1>3, <1>4

-----------------------------------------------------------------------------
(* One text at a time *)

\* In these places a task holds the mutex of the driver.
HoldingPlaces == DriverPlaces \ {"idle", "lock", "poll"}

UartHeld == \A t \in Tasks : driver[t] \in HoldingPlaces => owner["uart"] = t

\* The flag belongs to the text that is on its way: it is not left over from an earlier one.
FlagIsFresh ==
  /\ wire # Nobody => ~ UartReady
  /\ UartReady => \E t \in Tasks : driver[t] = "sending"

DriverInv == KernelTypeOK /\ DataTypes /\ UartHeld /\ FlagIsFresh /\ WritesAreWhole

\* what a step outside the driver leaves alone
DriverAlone == UNCHANGED <<driver, wire, UartReady>> /\ owner'["uart"] = owner["uart"]

LEMMA AloneKeeps ==
  ASSUME DriverInv, DriverAlone
  PROVE  UartHeld' /\ FlagIsFresh' /\ WritesAreWhole'
BY DEF DriverInv, DriverAlone, UartHeld, FlagIsFresh, WritesAreWhole

\* A task enters the driver.
LEMMA EntryKeeps ==
  ASSUME DriverInv, NEW t \in Tasks, Write(t) \/ BeginCycle(t)
  PROVE  UartHeld' /\ FlagIsFresh' /\ WritesAreWhole'
<1> USE DEF DriverInv, DataTypes, UartHeld, FlagIsFresh, WritesAreWhole, HoldingPlaces, DriverPlaces
<1>1. CASE Write(t)
  BY <1>1 DEF Write, Does, Moves, kernelVars
<1>2. CASE BeginCycle(t)
  BY <1>2 DEF BeginCycle, Does, Moves, kernelVars
<1> QED BY <1>1, <1>2

\* What the following lemmas need of the types.
LEMMA DriverFacts ==
  ASSUME DriverInv
  PROVE  /\ owner \in [Locks -> Tasks \cup {Nobody}]
         /\ driver \in [Tasks -> DriverPlaces]
         /\ wire \in Tasks \cup {Nobody}
         /\ UartHeld /\ FlagIsFresh /\ WritesAreWhole
BY DEF DriverInv, KernelTypeOK, DataTypes

\* It takes the mutex, or waits for it.
LEMMA LockingKeeps ==
  ASSUME DriverInv, NEW t \in Tasks, LockUart(t) \/ LockForInput(t) \/ LockListeners(t)
  PROVE  UartHeld' /\ FlagIsFresh' /\ WritesAreWhole'
<1> USE LocksOfTheDriver, KernelAssumption, DriverFacts
    DEF UartHeld, FlagIsFresh, WritesAreWhole, HoldingPlaces, DriverPlaces, Moves
<1>1. CASE LockUart(t) \/ LockForInput(t)
  <2>1. UNCHANGED <<wire, UartReady>>
    BY <1>1 DEF LockUart, LockForInput
  <2>2. ASSUME Take(t, "uart"), NEW p \in {"transmit", "receive"},
               driver[t] \in {"lock", "poll"}, driver' = [driver EXCEPT ![t] = p]
        PROVE  UartHeld' /\ FlagIsFresh' /\ WritesAreWhole'
    <3>1. owner["uart"] = Nobody /\ owner' = [owner EXCEPT !["uart"] = t]
      BY <2>2 DEF Take
    <3>2. \A u \in Tasks : driver[u] \notin HoldingPlaces
      BY <3>1
    <3>3. wire = Nobody /\ ~ UartReady
      BY <3>2
    <3> QED BY <2>1, <2>2, <3>1, <3>2, <3>3
  <2>3. ASSUME Wait(t, "uart"), UNCHANGED driver
        PROVE  UartHeld' /\ FlagIsFresh' /\ WritesAreWhole'
    BY <2>1, <2>3 DEF Wait
  <2> QED BY <1>1, <2>2, <2>3 DEF LockUart, LockForInput, Locking
<1>2. CASE LockListeners(t)
  <2>1. UNCHANGED <<wire, UartReady>> /\ owner'["uart"] = owner["uart"]
    BY <1>2 DEF LockListeners, Locking, Take, Wait
  <2>2. CASE driver[t] = "notify" /\ driver' = [driver EXCEPT ![t] = "broadcast"]
    BY <2>1, <2>2
  <2>3. CASE UNCHANGED driver
    BY <2>1, <2>3
  <2> QED BY <1>2, <2>2, <2>3 DEF LockListeners, Locking
<1> QED BY <1>1, <1>2

\* It sends a text.
LEMMA SendingKeeps ==
  ASSUME DriverInv, NEW t \in Tasks, Transmit(t) \/ Sent(t)
  PROVE  UartHeld' /\ FlagIsFresh' /\ WritesAreWhole'
<1> USE KernelAssumption, DriverFacts
    DEF UartHeld, FlagIsFresh, WritesAreWhole, HoldingPlaces, DriverPlaces, Does, Moves, kernelVars
<1>1. CASE Transmit(t)
  BY <1>1 DEF Transmit
<1>2. CASE Sent(t)
  BY <1>2 DEF Sent
<1> QED BY <1>1, <1>2

\* It gives back the mutex.
LEMMA UnlockingKeeps ==
  ASSUME DriverInv, NEW t \in Tasks, UnlockUart(t) \/ UnlockInput(t)
  PROVE  UartHeld' /\ FlagIsFresh' /\ WritesAreWhole'
<1> USE LocksOfTheDriver, KernelAssumption, DriverFacts
    DEF UartHeld, FlagIsFresh, WritesAreWhole, HoldingPlaces, DriverPlaces
<1>1. /\ owner["uart"] = t /\ UNCHANGED <<wire, UartReady>>
      /\ \E p \in {"idle", "poll"} : driver' = [driver EXCEPT ![t] = p]
      /\ driver[t] \in {"unlock", "next", "leave"}
  BY DEF UnlockUart, UnlockInput, Give, Moves
<1>2. \A u \in Tasks \ {t} : driver[u] \notin HoldingPlaces
  BY <1>1
<1>3. wire = Nobody /\ ~ UartReady
  BY <1>1, <1>2
<1> QED BY <1>1, <1>2, <1>3

\* It receives.
LEMMA ReceivingKeeps ==
  ASSUME DriverInv, NEW t \in Tasks, Receive(t) \/ Put(t) \/ Count(t) \/ Broadcast(t)
  PROVE  UartHeld' /\ FlagIsFresh' /\ WritesAreWhole'
<1> USE DriverFacts
    DEF UartHeld, FlagIsFresh, WritesAreWhole, HoldingPlaces, DriverPlaces, Moves
<1>1. UNCHANGED <<wire, UartReady>> /\ owner'["uart"] = owner["uart"]
  BY LocksOfTheDriver DEF Receive, Put, Count, Broadcast, Does, NotifyGive, Give, kernelVars
<1>2. \/ UNCHANGED driver
      \/ /\ driver[t] \in {"receive", "put", "count", "broadcast"}
         /\ \E p \in {"put", "leave", "count", "next", "notify"} : driver' = [driver EXCEPT ![t] = p]
  BY DEF Receive, Put, Count, Broadcast, Does
<1>3. CASE UNCHANGED driver
  BY <1>1, <1>3
<1>4. CASE /\ driver[t] \in {"receive", "put", "count", "broadcast"}
           /\ \E p \in {"put", "leave", "count", "next", "notify"} : driver' = [driver EXCEPT ![t] = p]
  BY <1>1, <1>4
<1> QED BY <1>2, <1>3, <1>4

\* The driver as a whole, and the interrupt.
LEMMA DriverKeeps ==
  ASSUME DriverInv, NEW t \in Tasks, DriverStep(t) \/ Interrupt
  PROVE  UartHeld' /\ FlagIsFresh' /\ WritesAreWhole'
<1>1. CASE InDriver(t)
  BY <1>1, LockingKeeps, SendingKeeps, UnlockingKeeps, ReceivingKeeps DEF InDriver
<1>2. CASE Interrupt
  BY <1>2, KernelAssumption DEF Interrupt, TxCplt, DriverInv, DataTypes, UartHeld, FlagIsFresh,
    WritesAreWhole, HoldingPlaces, DriverPlaces, kernelVars
<1> QED BY <1>1, <1>2 DEF DriverStep

\* The console and the low-priority thread leave it alone, or enter it.
LEMMA ConsoleEnters ==
  ASSUME DriverInv, ConsoleStep \/ LowStep
  PROVE  DriverAlone \/ Write(Main) \/ BeginCycle(Low)
<1> USE LocksOfTheDriver, ConsoleAssumption DEF DriverInv, KernelTypeOK, DriverAlone, uartVars, kernelVars
<1>1. CASE Run \/ WaitForInput \/ Entered \/ Trigger
  BY <1>1 DEF Run, WaitForInput, Entered, Trigger, Acts
<1>2. CASE Prompt \/ Typed \/ Process \/ Poll
  BY <1>2 DEF Prompt, Typed, Echo, NothingToErase, EndOfLine, Process, Answer, Ask, Poll, Prints, Acts
<1>3. CASE LockListening \/ LockGivingUp
  BY <1>3 DEF LockListening, LockGivingUp, Acquires, Take, Wait
<1>4. CASE Enlist \/ Remove
  BY <1>4 DEF Enlist, Remove, Give
<1>5. CASE ReadChar
  BY <1>5 DEF ReadChar, Read
<1>6. CASE Doze \/ Woken \/ Pause \/ Rerun
  BY <1>6 DEF Doze, Woken, Pause, Rerun, Sleeps, Rises, Await, Awake, Delay, Resume
<1> QED BY <1>1, <1>2, <1>3, <1>4, <1>5, <1>6 DEF ConsoleStep, LowStep

\* Timers.
LEMMA TimersLeaveAlone ==
  ASSUME NEW t \in Tasks, TimeIsOver(t) \/ TimeOut
  PROVE  /\ [KernelNext]_kernelVars /\ DriverAlone
         /\ UNCHANGED <<at, uartVars, consoleVars>>
<1>1. CASE TimeIsOver(t)
  BY <1>1, KernelStep DEF TimeIsOver, Expire, DriverAlone, uartVars
<1>2. CASE TimeOut
  BY <1>2, KernelStep, ConsoleAssumption DEF TimeOut, Expire, DriverAlone, uartVars
<1> QED BY <1>1, <1>2

-----------------------------------------------------------------------------
(* The invariant *)

ConsoleInv ==
  KInv /\ DataTypes /\ FlagTypes /\ UartHeld /\ FlagIsFresh /\ WritesAreWhole

LEMMA DriverPart == ConsoleInv => DriverInv
BY DEF ConsoleInv, DriverInv, KInv

\* At the start.
LEMMA ConsoleStarts ==
  ASSUME UartInit, at = [t \in Tasks |-> at[t]], m_bo_blocked = FALSE, line = FALSE,
         c = NoInput, timedOut = FALSE, phantom = FALSE
  PROVE  ConsoleInv
<1>1. KInv
  BY InvariantHoldsAtFirst DEF UartInit
<1>2. DataTypes
  BY UartAssumption, EmptySeq DEF UartInit, DataTypes, DriverPlaces, NoInput
<1>3. FlagTypes
  BY DEF UartInit, FlagTypes
<1>4. UartHeld /\ FlagIsFresh /\ WritesAreWhole
  BY KernelAssumption DEF UartInit, UartHeld, FlagIsFresh, WritesAreWhole, HoldingPlaces
<1> QED BY <1>1, <1>2, <1>3, <1>4 DEF ConsoleInv

\* Every step of the two threads, of the timers and of the interrupt keeps it.
LEMMA ConsoleKeeps ==
  ASSUME ConsoleInv, NEW t \in Tasks, Thread(t) \/ TimeIsOver(t) \/ TimeOut \/ Interrupt
  PROVE  ConsoleInv'
<1> USE DriverPart
<1>1. CASE ConsoleStep \/ LowStep
  <2>1. KInv'
    BY <1>1, ConsoleUsesKernel, InvariantKept DEF ConsoleInv
  <2>2. DataTypes' /\ FlagTypes'
    BY <1>1, ConsoleTypes, FlagsKept DEF ConsoleInv
  <2>3. UartHeld' /\ FlagIsFresh' /\ WritesAreWhole'
    BY <1>1, ConsoleEnters, AloneKeeps, EntryKeeps, ConsoleAssumption
  <2> QED BY <2>1, <2>2, <2>3 DEF ConsoleInv
<1>2. CASE DriverStep(t)
  <2>1. KInv'
    BY <1>2, DriverUsesKernel, InvariantKept DEF ConsoleInv, DataTypes, DriverStep
  <2>2. DataTypes' /\ FlagTypes'
    BY <1>2, DriverTypes, FlagsKept DEF ConsoleInv
  <2>3. UartHeld' /\ FlagIsFresh' /\ WritesAreWhole'
    BY <1>2, DriverKeeps
  <2> QED BY <2>1, <2>2, <2>3 DEF ConsoleInv
<1>3. CASE TimeIsOver(t) \/ TimeOut
  <2>1. KInv'
    BY <1>3, TimersLeaveAlone, InvariantKept DEF ConsoleInv
  <2>2. DataTypes' /\ FlagTypes'
    BY <1>3, TimersLeaveAlone DEF ConsoleInv, DataTypes, FlagTypes, uartVars, consoleVars
  <2>3. UartHeld' /\ FlagIsFresh' /\ WritesAreWhole'
    BY <1>3, TimersLeaveAlone, AloneKeeps
  <2> QED BY <2>1, <2>2, <2>3 DEF ConsoleInv
<1>4. CASE Interrupt
  <2>1. KInv'
    BY <1>4, InvariantKept DEF ConsoleInv, Interrupt
  <2>2. DataTypes' /\ FlagTypes'
    BY <1>4, FlagsKept DEF ConsoleInv, Interrupt, TxCplt, DataTypes, consoleVars
  <2>3. UartHeld' /\ FlagIsFresh' /\ WritesAreWhole'
    BY <1>4, DriverKeeps
  <2> QED BY <2>1, <2>2, <2>3 DEF ConsoleInv
<1> QED BY <1>1, <1>2, <1>3, <1>4 DEF Thread

THEOREM ConsoleInvHolds == ConsoleSpec => []ConsoleInv
<1>1. ConsoleInit => ConsoleInv
  <2> SUFFICES ASSUME ConsoleInit PROVE ConsoleInv
    OBVIOUS
  <2>1. at = [t \in Tasks |-> at[t]]
    BY DEF ConsoleInit
  <2> QED BY <2>1, ConsoleStarts DEF ConsoleInit
<1>2. ConsoleInv /\ [ConsoleNext]_terminalVars => ConsoleInv'
  <2> SUFFICES ASSUME ConsoleInv, [ConsoleNext]_terminalVars PROVE ConsoleInv'
    OBVIOUS
  <2>1. CASE ConsoleNext
    BY <2>1, ConsoleKeeps, ConsoleAssumption DEF ConsoleNext
  <2>2. CASE UNCHANGED terminalVars
    <3>1. KInv'
      BY <2>2, InvariantKept DEF ConsoleInv, terminalVars
    <3>2. DataTypes' /\ FlagTypes'
      BY <2>2 DEF ConsoleInv, terminalVars, uartVars, consoleVars, DataTypes, FlagTypes
    <3>3. UartHeld' /\ FlagIsFresh' /\ WritesAreWhole'
      BY <2>2, AloneKeeps, DriverPart DEF terminalVars, kernelVars, uartVars, DriverAlone
    <3> QED BY <3>1, <3>2, <3>3 DEF ConsoleInv
  <2> QED BY <2>1, <2>2
<1> QED BY <1>1, <1>2, PTL DEF ConsoleSpec

\* Type correctness of the driver and of the console.
THEOREM ConsoleTypeCorrect == ConsoleSpec => []ConsoleTypeOK
<1>1. ConsoleInv => ConsoleTypeOK
  BY TypesTogether DEF ConsoleInv, KInv
<1> QED BY <1>1, ConsoleInvHolds, PTL

-----------------------------------------------------------------------------
(* The two threads and their priorities *)

\* Only the console and the low-priority thread use locks; the console waits on whatever it
\* needs, the other one on the mutex of the driver only.
LocksInUse ==
  /\ \A m \in Mutexes \ {"uart"} : owner[m] = Nobody
  /\ owner["uart"] \in {Main, Low, Nobody}
  /\ owner["cond"] \in {Main, Low, Nobody}
  /\ \A t \in Tasks \ {Main} : call[t] \in {"none", "uart"}

\* The console has its own priority, and nobody has a higher one than his own but the thread
\* that holds the mutex of the driver while the console waits for it.
Priorities ==
  /\ priority[Main] = BasePriority[Main]
  /\ \A t \in Tasks \ {Main} :
       priority[t] # BasePriority[t] => owner["uart"] = t /\ call[Main] = "uart"

KernelPart == LocksInUse /\ Priorities

\* what the lemmas need of the types
KernelFacts ==
  /\ priority \in [Tasks -> Nat]
  /\ owner \in [Locks -> Tasks \cup {Nobody}]
  /\ call \in [Tasks -> Locks \cup {"none", "notification", "delay"}]
  /\ notified \in [Tasks -> BOOLEAN]
  /\ BasePriority \in [Tasks -> Nat]
  /\ Main \in Tasks /\ Low \in Tasks /\ Main # Low /\ Nobody \notin Tasks
  /\ \A t \in Tasks \ {Main} : BasePriority[t] < BasePriority[Main]

LEMMA KernelFactsHold == ConsoleInv => KernelFacts
BY KernelAssumption, ConsoleAssumption DEF ConsoleInv, KInv, KernelTypeOK, KernelFacts

\* Taking a lock.
LEMMA TakeKeepsPart ==
  ASSUME KernelFacts, KernelPart, NEW t \in {Main, Low}, NEW l \in {"uart", "cond"}, Take(t, l)
  PROVE  KernelPart'
<1> USE LocksOfTheDriver DEF KernelFacts, KernelPart, Take, Calls
<1>1. LocksInUse'
  BY DEF LocksInUse
<1>2. Priorities'
  <2>1. CASE l = "uart"
    <3>1. \A u \in Tasks \ {Main} : priority[u] = BasePriority[u]
      BY <2>1 DEF Priorities
    <3> QED BY <3>1 DEF Priorities
  <2>2. CASE l = "cond"
    BY <2>2 DEF Priorities
  <2> QED BY <2>1, <2>2
<1> QED BY <1>1, <1>2

\* Waiting for one.
LEMMA WaitKeepsPart ==
  ASSUME KernelFacts, KernelPart, NEW t \in {Main, Low}, NEW l \in {"uart", "cond"}, Wait(t, l),
         t = Low => l = "uart"
  PROVE  KernelPart'
<1> USE LocksOfTheDriver DEF KernelFacts, KernelPart, Wait, Calls
<1>1. LocksInUse'
  BY DEF LocksInUse
<1>2. Priorities'
  <2>1. CASE l = "cond"
    BY <2>1 DEF Priorities, Inherited
  <2>2. CASE l = "uart" /\ t = Main
    <3>1. owner["uart"] \in {Main, Low}
      BY <2>2 DEF LocksInUse
    <3>2. call'[Main] = "uart" /\ owner' = owner
      BY <2>2
    <3>3. \A u \in Tasks \ {owner["uart"]} : priority'[u] = priority[u]
      BY <2>2, <3>1 DEF Inherited
    <3>4. priority'[Main] = priority[Main]
      BY <2>2, <3>1, <3>3 DEF Inherited
    <3> QED BY <3>1, <3>2, <3>3, <3>4 DEF Priorities
  <2>3. CASE l = "uart" /\ t = Low
    <3>1. owner["uart"] \in {Main, Low}
      BY <2>3 DEF LocksInUse
    <3>2. ~ (priority[owner["uart"]] < priority[Low])
      <4>1. CASE owner["uart"] = Low
        BY <4>1
      <4>2. CASE owner["uart"] = Main
        <5>1. priority[Low] = BasePriority[Low] /\ priority[Main] = BasePriority[Main]
          BY <4>2 DEF Priorities
        <5> QED BY <4>2, <5>1
      <4> QED BY <3>1, <4>1, <4>2
    <3>3. priority' = priority /\ owner' = owner /\ call'[Main] = call[Main]
      BY <2>3, <3>2 DEF Inherited
    <3> QED BY <3>3 DEF Priorities
  <2> QED BY <2>1, <2>2, <2>3
<1> QED BY <1>1, <1>2

\* Giving one back.
LEMMA GiveKeepsPart ==
  ASSUME KernelFacts, KernelPart, NEW t \in {Main, Low}, NEW l \in {"uart", "cond"}, Give(t, l)
  PROVE  KernelPart'
<1> USE LocksOfTheDriver DEF KernelFacts, KernelPart, Give
<1>1. LocksInUse'
  BY DEF LocksInUse
<1>2. Priorities'
  <2>1. CASE l = "cond"
    BY <2>1 DEF Priorities, Disinherited
  <2>2. CASE l = "uart"
    <3>1. Held(t) = {"uart"}
      BY <2>2 DEF Held, LocksInUse
    <3>2. priority' = [priority EXCEPT ![t] = BasePriority[t]]
      BY <2>2, <3>1 DEF Disinherited
    <3>3. \A u \in Tasks \ {Main} : u # t => priority[u] = BasePriority[u]
      BY <2>2 DEF Priorities
    <3> QED BY <3>2, <3>3 DEF Priorities
  <2> QED BY <2>1, <2>2
<1> QED BY <1>1, <1>2

\* Everything else.
LEMMA SleepKeepsPart ==
  ASSUME KernelFacts, KernelPart,
         \/ NotifyGive(Low, Main)
         \/ Await(Main) \/ Awake(Main) \/ Delay(Main) \/ Resume(Main) \/ Expire(Main)
         \/ UNCHANGED kernelVars
  PROVE  KernelPart'
<1>1. UNCHANGED <<priority, owner>>
  BY DEF NotifyGive, Await, Awake, Delay, Resume, Expire, kernelVars
<1>2. \A t \in Tasks \ {Main} : call'[t] = call[t]
  BY DEF KernelFacts, NotifyGive, Await, Awake, Delay, Resume, Expire, kernelVars
<1>3. call[Main] = "uart" => call'[Main] = "uart"
  BY DEF NotifyGive, Await, Awake, Delay, Resume, Expire, Executes, kernelVars
<1> QED BY <1>1, <1>2, <1>3 DEF KernelPart, LocksInUse, Priorities

-----------------------------------------------------------------------------
(* Where the two threads are *)

\* The console prints, the low-priority thread polls.
Places ==
  /\ driver[Main] \in {"idle", "lock", "transmit", "sending", "unlock"}
  /\ driver[Main] # "idle" => at[Main] \in {"wait", "entered", "process", "pause"}
  /\ driver[Low] \in {"idle", "poll", "receive", "put", "count", "notify", "broadcast", "next", "leave"}
  /\ \A t \in Tasks \ {Main, Low} : driver[t] = "idle"

\* What the console has called.
CallsOfMain ==
  /\ call[Main] \in {"none", "uart", "cond", "notification", "delay"}
  /\ call[Main] = "uart" => driver[Main] = "lock"
  /\ call[Main] = "cond" => at[Main] \in {"listen", "give up"}
  /\ call[Main] = "notification" <=> at[Main] = "woken"
  /\ call[Main] = "delay" <=> at[Main] = "asleep"

\* Who holds the list of the condition variable.
ListHeld ==
  /\ owner["cond"] = Main <=> at[Main] \in {"enlist", "remove"}
  /\ owner["cond"] = Low <=> driver[Low] = "broadcast"

Whereabouts == Places /\ CallsOfMain /\ ListHeld

ControlInv == KernelPart /\ Whereabouts

ControlFacts ==
  /\ KernelFacts /\ UartHeld
  /\ driver \in [Tasks -> DriverPlaces]
  /\ at = [t \in Tasks |-> at[t]]

LEMMA ControlFactsHold == ConsoleInv => ControlFacts
BY KernelFactsHold DEF ConsoleInv, DataTypes, ControlFacts

\* Where the console is while the low-priority thread runs: it waits for the mutex of the driver
\* or for the list, it sleeps, or it waits for a notification that has not come.
MainRests ==
  \/ driver[Main] = "lock"
  \/ driver[Main] = "idle" /\ at[Main] = "asleep"
  \/ driver[Main] = "idle" /\ at[Main] = "woken" /\ ~ notified[Main]
  \/ driver[Main] = "idle" /\ at[Main] \in {"listen", "give up"} /\ driver[Low] = "broadcast"

LEMMA LowRuns ==
  ASSUME ConsoleInv, ControlInv, Runs(Low)
  PROVE  MainRests /\ call[Main] # "none"
<1> USE KernelFactsHold
<1>1. CASE Main \notin blocked
  <2>1. priority[Main] <= priority[Low]
    BY <1>1 DEF Runs, KernelFacts
  <2>2. priority[Low] # BasePriority[Low]
    BY <2>1 DEF KernelFacts, ControlInv, KernelPart, Priorities
  <2>3. call[Main] = "uart"
    BY <2>2 DEF KernelFacts, ControlInv, KernelPart, Priorities
  <2> QED BY <2>3 DEF ControlInv, Whereabouts, CallsOfMain, MainRests
<1>2. CASE Main \in blocked
  <2>1. /\ call[Main] # "none"
        /\ call[Main] = "notification" => ~ notified[Main]
        /\ call[Main] = "cond" => Main \in Range(waiting["cond"])
    BY <1>2, LocksOfTheDriver DEF ConsoleInv, KInv, SleepsForAReason
  <2>2. CASE call[Main] = "cond"
    <3>1. waiting["cond"] # << >>
      BY <2>1, <2>2 DEF Range
    <3>2. owner["cond"] # Nobody
      <4> SUFFICES ASSUME owner["cond"] = Nobody PROVE FALSE
        OBVIOUS
      <4>1. PICK t \in Tasks \ blocked : call[t] = "cond"
        BY <3>1, LocksOfTheDriver DEF ConsoleInv, KInv, NoLostWakeup
      <4> QED BY <1>2, <4>1 DEF ControlInv, KernelPart, LocksInUse
    <3>3. at[Main] \in {"listen", "give up"} /\ driver[Main] = "idle"
      BY <2>2 DEF ControlInv, Whereabouts, CallsOfMain, Places
    <3>4. driver[Low] = "broadcast"
      BY <3>2, <3>3 DEF ControlInv, KernelPart, LocksInUse, Whereabouts, ListHeld
    <3> QED BY <2>1, <3>3, <3>4 DEF MainRests
  <2>3. CASE call[Main] # "cond"
    BY <2>1, <2>3 DEF ControlInv, Whereabouts, CallsOfMain, Places, MainRests
  <2> QED BY <2>2, <2>3
<1> QED BY <1>1, <1>2

\* In the driver only the two threads move.
LEMMA OnlyTheTwo ==
  ASSUME ControlInv, NEW t \in Tasks, InDriver(t)
  PROVE  /\ t \in {Main, Low} /\ driver[t] # "idle"
         /\ t = Main => LockUart(t) \/ Transmit(t) \/ Sent(t) \/ UnlockUart(t)
         /\ t = Low => \/ LockForInput(t) \/ Receive(t) \/ Put(t) \/ Count(t)
                       \/ LockListeners(t) \/ Broadcast(t) \/ UnlockInput(t)
<1>1. driver[t] # "idle"
  BY DEF InDriver, LockUart, Transmit, Sent, UnlockUart, LockForInput, Receive, Put, Count,
    LockListeners, Broadcast, UnlockInput, Locking, Does, Moves
<1>2. t \in {Main, Low}
  BY <1>1 DEF ControlInv, Whereabouts, Places
<1>3. ASSUME t = Main
      PROVE  LockUart(t) \/ Transmit(t) \/ Sent(t) \/ UnlockUart(t)
  <2>1. driver[t] \in {"lock", "transmit", "sending", "unlock"}
    BY <1>1, <1>3 DEF ControlInv, Whereabouts, Places
  <2> QED BY <2>1 DEF InDriver, LockForInput, Receive, Put, Count, LockListeners, Broadcast,
    UnlockInput, Locking, Does, Moves
<1>4. ASSUME t = Low
      PROVE  \/ LockForInput(t) \/ Receive(t) \/ Put(t) \/ Count(t)
             \/ LockListeners(t) \/ Broadcast(t) \/ UnlockInput(t)
  <2>1. driver[t] \in {"poll", "receive", "put", "count", "notify", "broadcast", "next", "leave"}
    BY <1>1, <1>4 DEF ControlInv, Whereabouts, Places
  <2> QED BY <2>1 DEF InDriver, LockUart, Transmit, Sent, UnlockUart, Locking, Does, Moves
<1> QED BY <1>1, <1>2, <1>3, <1>4

\* Neither they nor the timers change the locks and the priorities in another way.
LEMMA PartKept ==
  ASSUME ConsoleInv, ControlInv, NEW t \in Tasks,
         Thread(t) \/ TimeIsOver(t) \/ TimeOut \/ Interrupt
  PROVE  KernelPart'
<1> USE KernelFactsHold DEF ControlInv
<1>1. CASE ConsoleStep \/ LowStep
  <2>1. \/ Take(Main, "cond") \/ Wait(Main, "cond") \/ Give(Main, "cond")
        \/ Await(Main) \/ Awake(Main) \/ Delay(Main) \/ Resume(Main)
        \/ UNCHANGED kernelVars
    <3>1. CASE Run \/ WaitForInput \/ ReadChar \/ Entered \/ LowStep
      BY <3>1 DEF Run, WaitForInput, ReadChar, Entered, LowStep, Trigger, Poll, BeginCycle, Acts, Does
    <3>2. CASE Prompt \/ Typed \/ Process
      BY ONLY <3>2, ConsolePrints
    <3>3. CASE LockListening \/ LockGivingUp \/ Enlist \/ Remove
      BY <3>3 DEF LockListening, LockGivingUp, Acquires, Enlist, Remove
    <3>4. CASE Doze \/ Woken \/ Pause \/ Rerun
      BY <3>4 DEF Doze, Woken, Pause, Rerun, Sleeps, Rises
    <3> QED BY <1>1, <3>1, <3>2, <3>3, <3>4 DEF ConsoleStep
  <2>2. CASE Take(Main, "cond") \/ Wait(Main, "cond") \/ Give(Main, "cond")
    BY <2>2, ConsoleAssumption, TakeKeepsPart, WaitKeepsPart, GiveKeepsPart
  <2>3. CASE \/ Await(Main) \/ Awake(Main) \/ Delay(Main) \/ Resume(Main)
             \/ UNCHANGED kernelVars
    BY <2>3, SleepKeepsPart
  <2> QED BY <2>1, <2>2, <2>3
<1>2. CASE InDriver(t)
  <2>1. t \in {Main, Low} /\ driver[t] # "idle"
    BY <1>2, OnlyTheTwo
  <2>2. CASE LockUart(t) \/ LockForInput(t)
    <3>1. Take(t, "uart") \/ Wait(t, "uart")
      BY <2>2 DEF LockUart, LockForInput, Locking
    <3> QED BY <2>1, <3>1, TakeKeepsPart, WaitKeepsPart
  <2>3. CASE LockListeners(t)
    <3>1. t = Low /\ driver[Low] = "notify" /\ Runs(Low)
      BY <1>2, <2>1, <2>3, OnlyTheTwo
         DEF LockListeners, LockUart, Transmit, Sent, UnlockUart, Locking, Does, Moves, Take, Wait, Calls
    <3>2. owner["cond"] = Nobody
      <4>1. MainRests
        BY <3>1, LowRuns
      <4>2. at[Main] \notin {"enlist", "remove"}
        BY <3>1, <4>1 DEF MainRests, Whereabouts, Places
      <4> QED BY <3>1, <4>2 DEF KernelPart, LocksInUse, Whereabouts, ListHeld
    <3>3. Take(t, "cond")
      BY <2>3, <3>2 DEF LockListeners, Locking, Wait
    <3> QED BY <2>1, <3>3, TakeKeepsPart
  <2>4. CASE UnlockUart(t) \/ UnlockInput(t)
    <3>1. Give(t, "uart")
      BY <2>4 DEF UnlockUart, UnlockInput
    <3> QED BY <2>1, <3>1, GiveKeepsPart
  <2>5. CASE Broadcast(t)
    <3>1. t = Low
      BY <1>2, <2>1, <2>5, OnlyTheTwo
         DEF Broadcast, LockUart, Transmit, Sent, UnlockUart, Locking, Does, Moves, Take, Wait, Calls
    <3>2. listeners # << >> => Head(listeners) = Main
      BY HeadTailProperties DEF ConsoleInv, DataTypes
    <3>3. NotifyGive(Low, Main) \/ Give(Low, "cond")
      BY <2>5, <3>1, <3>2 DEF Broadcast
    <3> QED BY <3>3, GiveKeepsPart, SleepKeepsPart
  <2>6. CASE Transmit(t) \/ Sent(t) \/ Receive(t) \/ Put(t) \/ Count(t)
    <3>1. UNCHANGED kernelVars
      BY <2>6 DEF Transmit, Sent, Receive, Put, Count, Does
    <3> QED BY <3>1, SleepKeepsPart
  <2> QED BY <1>2, <2>2, <2>3, <2>4, <2>5, <2>6 DEF InDriver
<1>3. CASE TimeIsOver(t)
  <2>1. t = Main
    BY <1>3 DEF TimeIsOver, KernelPart, LocksInUse
  <2> QED BY <1>3, <2>1, SleepKeepsPart DEF TimeIsOver
<1>4. CASE TimeOut \/ Interrupt
  BY <1>4, SleepKeepsPart DEF TimeOut, Interrupt
<1> QED BY <1>1, <1>2, <1>3, <1>4 DEF Thread, DriverStep

\* The console goes from place to place.
LEMMA ConsoleKeepsPlaces ==
  ASSUME ControlFacts, KernelPart, Whereabouts, ConsoleStep
  PROVE  Whereabouts'
<1> USE LocksOfTheDriver DEF ControlFacts, KernelFacts, Goes
<1>1. CASE Run \/ WaitForInput \/ ReadChar \/ Entered
  <2>1. /\ call[Main] = "none" /\ driver[Main] = "idle" /\ UNCHANGED <<driver, owner, call>>
        /\ at[Main] \in {"run", "wait", "read", "entered"}
        /\ \E p \in {"prompt", "pause", "read", "listen", "typed", "process"} :
             at' = [at EXCEPT ![Main] = p]
    BY <1>1 DEF Run, WaitForInput, ReadChar, Entered, Acts, Executes, Read, kernelVars, uartVars
  <2>2. at'[Main] \in {"prompt", "pause", "read", "listen", "typed", "process"}
    BY <2>1
  <2> QED BY <2>1, <2>2 DEF Whereabouts, Places, CallsOfMain, ListHeld
<1>2. CASE Prompt \/ Typed \/ Process
  <2>1. /\ call[Main] = "none" /\ driver[Main] = "idle" /\ UNCHANGED <<owner, call>>
        /\ at[Main] \in {"prompt", "typed", "process"}
        /\ \E p \in {"wait", "entered", "process", "pause"} : at' = [at EXCEPT ![Main] = p]
        /\ driver' = [driver EXCEPT ![Main] = "lock"] \/ UNCHANGED driver
    BY ONLY <1>2, ConsolePrints DEF kernelVars
  <2>2. at'[Main] \in {"wait", "entered", "process", "pause"} /\ driver'[Main] \in {"idle", "lock"}
    BY <2>1
  <2>3. \A t \in Tasks \ {Main} : driver'[t] = driver[t]
    BY <2>1
  <2> QED BY <2>1, <2>2, <2>3 DEF Whereabouts, Places, CallsOfMain, ListHeld
<1>3. CASE LockListening \/ LockGivingUp
  <2>1. /\ driver[Main] = "idle" /\ UNCHANGED driver
        /\ \/ Wait(Main, "cond") /\ UNCHANGED at /\ at[Main] \in {"listen", "give up"}
           \/ /\ Take(Main, "cond") /\ at[Main] \in {"listen", "give up"}
              /\ \E p \in {"enlist", "remove"} : at' = [at EXCEPT ![Main] = p]
    BY <1>3 DEF LockListening, LockGivingUp, Acquires, uartVars
  <2>2. CASE Wait(Main, "cond") /\ UNCHANGED at /\ at[Main] \in {"listen", "give up"}
    <3>1. call'[Main] = "cond" /\ UNCHANGED owner
      BY <2>2 DEF Wait
    <3> QED BY <2>1, <2>2, <3>1 DEF Whereabouts, Places, CallsOfMain, ListHeld
  <2>3. CASE /\ Take(Main, "cond") /\ at[Main] \in {"listen", "give up"}
             /\ \E p \in {"enlist", "remove"} : at' = [at EXCEPT ![Main] = p]
    <3>1. call'[Main] = "none" /\ owner["cond"] = Nobody /\ owner'["cond"] = Main
      BY <2>3 DEF Take
    <3>2. at'[Main] \in {"enlist", "remove"}
      BY <2>3
    <3> QED BY <2>1, <3>1, <3>2 DEF Whereabouts, Places, CallsOfMain, ListHeld
  <2> QED BY <2>1, <2>2, <2>3
<1>4. CASE Enlist \/ Remove
  <2>1. /\ call[Main] = "none" /\ call' = call /\ driver[Main] = "idle" /\ UNCHANGED driver
        /\ owner["cond"] = Main /\ owner'["cond"] = Nobody
        /\ \E p \in {"doze", "read"} : at' = [at EXCEPT ![Main] = p]
    BY <1>4 DEF Enlist, Remove, Give, Executes
  <2>2. at'[Main] \in {"doze", "read"}
    BY <2>1
  <2> QED BY <2>1, <2>2 DEF Whereabouts, Places, CallsOfMain, ListHeld
<1>5. CASE Doze \/ Pause
  <2>1. /\ driver[Main] = "idle" /\ UNCHANGED <<driver, owner>>
        /\ at[Main] \in {"doze", "pause"}
        /\ \/ at' = [at EXCEPT ![Main] = "woken"] /\ call' = [call EXCEPT ![Main] = "notification"]
           \/ at' = [at EXCEPT ![Main] = "asleep"] /\ call' = [call EXCEPT ![Main] = "delay"]
    BY <1>5 DEF Doze, Pause, Sleeps, Await, Delay, uartVars
  <2>2. \/ at'[Main] = "woken" /\ call'[Main] = "notification"
        \/ at'[Main] = "asleep" /\ call'[Main] = "delay"
    BY <2>1
  <2> QED BY <2>1, <2>2 DEF Whereabouts, Places, CallsOfMain, ListHeld
<1>6. CASE Woken \/ Rerun
  <2>1. /\ driver[Main] = "idle" /\ UNCHANGED <<driver, owner>>
        /\ at[Main] \in {"woken", "asleep"}
        /\ \E p \in {"read", "give up", "run"} : at' = [at EXCEPT ![Main] = p]
        /\ call' = [call EXCEPT ![Main] = "none"]
    BY <1>6 DEF Woken, Rerun, Rises, Awake, Resume, uartVars
  <2>2. at'[Main] \in {"read", "give up", "run"} /\ call'[Main] = "none"
    BY <2>1
  <2> QED BY <2>1, <2>2 DEF Whereabouts, Places, CallsOfMain, ListHeld
<1> QED BY <1>1, <1>2, <1>3, <1>4, <1>5, <1>6 DEF ConsoleStep

\* The console in the driver.
LEMMA WritingKeepsPlaces ==
  ASSUME ControlFacts, KernelPart, Whereabouts, UNCHANGED at,
         LockUart(Main) \/ Transmit(Main) \/ Sent(Main) \/ UnlockUart(Main)
  PROVE  Whereabouts'
<1> USE LocksOfTheDriver DEF ControlFacts, KernelFacts
<1>1. CASE LockUart(Main)
  <2>1. /\ driver[Main] = "lock" /\ owner'["cond"] = owner["cond"]
        /\ \/ driver' = [driver EXCEPT ![Main] = "transmit"] /\ call' = [call EXCEPT ![Main] = "none"]
           \/ UNCHANGED driver /\ call' = [call EXCEPT ![Main] = "uart"]
        /\ call[Main] \in {"none", "uart"}
    BY <1>1 DEF LockUart, Locking, Moves, Take, Wait, Calls
  <2>2. /\ \A t \in Tasks \ {Main} : driver'[t] = driver[t]
        /\ \/ driver'[Main] = "transmit" /\ call'[Main] = "none"
           \/ driver'[Main] = "lock" /\ call'[Main] = "uart"
    BY <2>1
  <2> QED BY <2>1, <2>2 DEF Whereabouts, Places, CallsOfMain, ListHeld
<1>2. CASE Transmit(Main) \/ Sent(Main) \/ UnlockUart(Main)
  <2>1. /\ driver[Main] # "idle" /\ call[Main] = "none" /\ UNCHANGED call
        /\ owner'["cond"] = owner["cond"]
        /\ \E p \in {"sending", "unlock", "idle"} : driver' = [driver EXCEPT ![Main] = p]
    BY <1>2 DEF Transmit, Sent, UnlockUart, Does, Moves, Give, Executes, kernelVars
  <2>2. /\ \A t \in Tasks \ {Main} : driver'[t] = driver[t]
        /\ driver'[Main] \in {"sending", "unlock", "idle"}
    BY <2>1
  <2> QED BY <2>1, <2>2 DEF Whereabouts, Places, CallsOfMain, ListHeld
<1> QED BY <1>1, <1>2

\* The low-priority thread.
LEMMA LowKeepsPlaces ==
  ASSUME ConsoleInv, ControlInv, ControlFacts,
         \/ LowStep
         \/ UNCHANGED at /\ \/ LockForInput(Low) \/ Receive(Low) \/ Put(Low) \/ Count(Low)
                            \/ LockListeners(Low) \/ Broadcast(Low) \/ UnlockInput(Low)
  PROVE  Whereabouts'
<1> USE LocksOfTheDriver DEF ControlInv, ControlFacts, KernelFacts
<1>2. CASE LowStep
  <2>1. UNCHANGED <<owner, call>>
    BY <1>2 DEF LowStep, Poll, Trigger, Acts, BeginCycle, Does, kernelVars
  <2>2. /\ driver[Low] = "idle"
        /\ driver' = [driver EXCEPT ![Low] = "poll"] \/ UNCHANGED driver
        /\ \A t \in Tasks \ {Low} : at'[t] = at[t]
    BY <1>2 DEF LowStep, Poll, Trigger, Acts, BeginCycle, Does, Moves, Goes, uartVars
  <2>3. /\ \A t \in Tasks \ {Low} : driver'[t] = driver[t]
        /\ driver'[Low] \in {"idle", "poll"}
    BY <2>2
  <2> QED BY <2>1, <2>2, <2>3 DEF Whereabouts, Places, CallsOfMain, ListHeld
<1>3. CASE UNCHANGED at /\ (LockForInput(Low) \/ Receive(Low) \/ Put(Low) \/ Count(Low) \/ UnlockInput(Low))
  <2>1. /\ driver[Low] \in {"poll", "receive", "put", "count", "next", "leave"}
        /\ owner'["cond"] = owner["cond"] /\ call'[Main] = call[Main]
    BY <1>3 DEF LockForInput, Receive, Put, Count, UnlockInput, Locking, Does, Moves, Take, Wait, Give,
      kernelVars
  <2>2. \/ UNCHANGED driver
        \/ \E p \in {"receive", "put", "leave", "count", "next", "notify", "poll", "idle"} :
             driver' = [driver EXCEPT ![Low] = p]
    BY <1>3 DEF LockForInput, Receive, Put, Count, UnlockInput, Locking, Does, Moves
  <2>3. \A t \in Tasks \ {Low} : driver'[t] = driver[t]
    BY <2>2
  <2>4. driver'[Low] \in {"poll", "receive", "put", "leave", "count", "next", "notify", "idle"}
    BY <2>1, <2>2
  <2> QED BY <1>3, <2>1, <2>3, <2>4 DEF Whereabouts, Places, CallsOfMain, ListHeld
<1>4. CASE UNCHANGED at /\ LockListeners(Low)
  <2>1. Runs(Low) /\ driver[Low] = "notify"
    BY <1>4 DEF LockListeners, Locking, Moves, Take, Wait, Calls
  <2>2. owner["cond"] = Nobody
    <3>1. at[Main] \notin {"enlist", "remove"}
      BY <2>1, LowRuns DEF MainRests, Whereabouts, Places
    <3> QED BY <2>1, <3>1 DEF KernelPart, LocksInUse, Whereabouts, ListHeld
  <2>3. /\ owner'["cond"] = Low /\ call'[Main] = call[Main]
        /\ driver' = [driver EXCEPT ![Low] = "broadcast"]
    BY <1>4, <2>2 DEF LockListeners, Locking, Moves, Take, Wait
  <2>4. /\ \A t \in Tasks \ {Low} : driver'[t] = driver[t]
        /\ driver'[Low] = "broadcast"
    BY <2>3
  <2> QED BY <1>4, <2>1, <2>2, <2>3, <2>4 DEF Whereabouts, Places, CallsOfMain, ListHeld
<1>5. CASE UNCHANGED at /\ Broadcast(Low)
  <2>1. CASE UNCHANGED <<owner, call, driver>>
    BY <1>5, <2>1 DEF Whereabouts, Places, CallsOfMain, ListHeld
  <2>2. CASE /\ owner["cond"] = Low /\ owner'["cond"] = Nobody /\ UNCHANGED call
             /\ driver' = [driver EXCEPT ![Low] = "next"]
    <3>1. /\ \A t \in Tasks \ {Low} : driver'[t] = driver[t]
          /\ driver'[Low] = "next"
      BY <2>2
    <3> QED BY <1>5, <2>2, <3>1 DEF Whereabouts, Places, CallsOfMain, ListHeld
  <2> QED BY <1>5, <2>1, <2>2 DEF Broadcast, NotifyGive, Give, Moves
<1> QED BY <1>2, <1>3, <1>4, <1>5

\* Together.
LEMMA ControlKept ==
  ASSUME ConsoleInv, ControlInv, NEW t \in Tasks,
         Thread(t) \/ TimeIsOver(t) \/ TimeOut \/ Interrupt
  PROVE  ControlInv'
<1>1. KernelPart'
  BY PartKept
<1>2. Whereabouts'
  <2> USE ControlFactsHold DEF ControlInv
  <2>1. CASE ConsoleStep
    BY <2>1, ConsoleKeepsPlaces
  <2>2. CASE LowStep
    BY <2>2, LowKeepsPlaces
  <2>3. CASE DriverStep(t)
    <3>1. InDriver(t) /\ UNCHANGED at
      BY <2>3 DEF DriverStep
    <3>2. CASE t = Main
      BY <3>1, <3>2, OnlyTheTwo, WritingKeepsPlaces
    <3>3. CASE t = Low
      BY <3>1, <3>3, OnlyTheTwo, LowKeepsPlaces
    <3> QED BY <3>1, <3>2, <3>3, OnlyTheTwo
  <2>4. CASE TimeIsOver(t) \/ TimeOut \/ Interrupt
    <3>1. UNCHANGED <<at, driver, owner, call>>
      BY <2>4 DEF TimeIsOver, TimeOut, Interrupt, TxCplt, Expire, uartVars, kernelVars
    <3> QED BY <3>1 DEF Whereabouts, Places, CallsOfMain, ListHeld
  <2> QED BY <2>1, <2>2, <2>3, <2>4 DEF Thread
<1> QED BY <1>1, <1>2 DEF ControlInv

-----------------------------------------------------------------------------
(* The receive buffer *)

\* x was received before y, as far as the numbers tell
Before(x, y) == x < y \/ (x = MaxInput /\ y = MaxInput)

Older == c <= input /\ \A i \in 1 .. usage : rxBuffer[i] <= input

\* The buffer is in order, and the character read last is older than all of it.
InOrder ==
  /\ \A i \in 1 .. usage : Before(c, rxBuffer[i])
  /\ \A i, j \in 1 .. usage : i < j => Before(rxBuffer[i], rxBuffer[j])

\* The character that is being put into the buffer is newer than all of it.
Fresh ==
  driver[Low] \in {"put", "count"} =>
    /\ Before(NoInput, input) /\ Before(c, input)
    /\ \A i \in 1 .. usage : Before(rxBuffer[i], input)

\* in these places the console may read before the low-priority thread goes on
MayRead ==
  /\ driver[Main] = "idle"
  /\ at[Main] \in {"wait", "listen", "enlist", "doze", "woken", "give up", "remove", "read", "typed"}

\* While the sum is not written back, the console finds the buffer empty, if it finds it at all.
Counting ==
  driver[Low] = "count" =>
    /\ usage < STM32UART_BUFFER_SIZE /\ count = usage + 1 /\ rxBuffer[usage + 1] = input
    /\ MayRead => usage = 0

\* The console goes to sleep on an empty buffer, and is told of what comes later.
Listening ==
  /\ at[Main] \in {"listen", "enlist", "doze"} => usage = 0
  /\ at[Main] = "woken" /\ usage > 0 => notified[Main] \/ driver[Low] \in {"notify", "broadcast"}
  /\ at[Main] \in {"doze", "woken"} => listeners # << >> \/ notified[Main]

BufferInv == Older /\ InOrder /\ Fresh /\ Counting /\ Listening

BufferFacts ==
  /\ ControlFacts
  /\ rxBuffer \in [1 .. STM32UART_BUFFER_SIZE -> 0 .. MaxInput]
  /\ usage \in 0 .. STM32UART_BUFFER_SIZE
  /\ count \in 0 .. STM32UART_BUFFER_SIZE
  /\ input \in 0 .. MaxInput /\ c \in 0 .. MaxInput
  /\ listeners \in Seq({Main})
  /\ STM32UART_BUFFER_SIZE \in Nat \ {0} /\ MaxInput \in Nat

LEMMA BufferFactsHold == ConsoleInv => BufferFacts
BY ControlFactsHold, UartAssumption DEF BufferFacts, ConsoleInv, DataTypes

BufferAlone == UNCHANGED <<usage, rxBuffer, input, count, c>> /\ driver'[Low] = driver[Low]

LEMMA BufferAloneKeeps ==
  ASSUME BufferInv, BufferAlone, Listening', MayRead' => MayRead \/ driver[Low] # "count"
  PROVE  BufferInv'
BY DEF BufferInv, BufferAlone, Older, InOrder, Fresh, Counting

\* The console, but for read().
LEMMA ConsoleKeepsBuffer ==
  ASSUME BufferFacts, ControlInv, BufferInv, ConsoleStep, ~ ReadChar
  PROVE  BufferInv'
<1> USE DEF BufferFacts, ControlFacts, KernelFacts, Goes
<1>1. driver[Main] = "idle"
  BY DEF ConsoleStep, Run, Prompt, WaitForInput, LockListening, Enlist, Doze, Woken, LockGivingUp, Remove,
    Typed, Echo, NothingToErase, EndOfLine, Entered, Process, Answer, Ask, Pause, Rerun, Acts, Prints,
    Acquires, Sleeps, Rises
<1>2. CASE Run \/ Entered \/ Pause \/ Rerun
  <2>1. /\ BufferAlone /\ at[Main] \in {"run", "entered", "pause", "asleep"}
        /\ \E p \in {"prompt", "pause", "process", "asleep", "run"} : at' = [at EXCEPT ![Main] = p]
    BY <1>2 DEF Run, Entered, Pause, Rerun, Acts, Sleeps, Rises, BufferAlone, uartVars, consoleVars
  <2>2. at'[Main] \in {"prompt", "pause", "process", "asleep", "run"}
    BY <2>1
  <2> QED BY <2>1, <2>2, BufferAloneKeeps DEF Listening, MayRead
<1>3. CASE Prompt \/ Typed \/ Process
  <2>1. /\ at[Main] \in {"prompt", "typed", "process"}
        /\ \E p \in {"wait", "entered", "process", "pause"} : at' = [at EXCEPT ![Main] = p]
        /\ \/ driver' = [driver EXCEPT ![Main] = "lock"]
           \/ UNCHANGED driver /\ at[Main] = "typed"
        /\ UNCHANGED <<usage, rxBuffer, input, count, c>>
    BY ONLY <1>3, ConsolePrints
  <2>2. /\ at'[Main] \in {"wait", "entered", "process", "pause"} /\ driver'[Low] = driver[Low]
        /\ driver'[Main] = "lock" \/ (driver'[Main] = "idle" /\ at[Main] = "typed")
    <3>1. at'[Main] \in {"wait", "entered", "process", "pause"}
      BY <2>1
    <3>2. ASSUME driver' = [driver EXCEPT ![Main] = "lock"]
          PROVE  driver'[Low] = driver[Low] /\ driver'[Main] = "lock"
      BY <3>2
    <3>3. ASSUME UNCHANGED driver
          PROVE  driver'[Low] = driver[Low] /\ driver'[Main] = "idle"
      BY <1>1, <3>3
    <3>4. driver' = [driver EXCEPT ![Main] = "lock"] \/ (UNCHANGED driver /\ at[Main] = "typed")
      BY <2>1
    <3> QED BY ONLY <3>1, <3>2, <3>3, <3>4
  <2>3. BufferAlone
    BY <2>1, <2>2 DEF BufferAlone
  <2>4. MayRead' => MayRead
    BY <1>1, <2>2 DEF MayRead
  <2> QED BY <2>2, <2>3, <2>4, BufferAloneKeeps DEF Listening
<1>4. CASE WaitForInput
  <2>1. /\ BufferAlone /\ at[Main] = "wait"
        /\ \/ usage = 0 /\ at' = [at EXCEPT ![Main] = "listen"]
           \/ at' = [at EXCEPT ![Main] = "read"]
    BY <1>4 DEF WaitForInput, Acts, BufferAlone, uartVars, consoleVars
  <2>2. (usage = 0 /\ at'[Main] = "listen") \/ at'[Main] = "read"
    BY <2>1
  <2> QED BY <1>1, <2>1, <2>2, BufferAloneKeeps DEF Listening, MayRead, BufferAlone
<1>5. CASE LockListening \/ LockGivingUp
  <2>1. /\ BufferAlone
        /\ \/ UNCHANGED at
           \/ at[Main] = "listen" /\ at' = [at EXCEPT ![Main] = "enlist"]
           \/ at[Main] = "give up" /\ at' = [at EXCEPT ![Main] = "remove"]
        /\ at[Main] \in {"listen", "give up"}
    BY <1>5 DEF LockListening, LockGivingUp, Acquires, BufferAlone, uartVars, consoleVars
  <2>2. \/ at[Main] = "listen" /\ at'[Main] \in {"listen", "enlist"}
        \/ at[Main] = "give up" /\ at'[Main] \in {"give up", "remove"}
    BY <2>1
  <2> QED BY <1>1, <2>1, <2>2, BufferAloneKeeps DEF BufferInv, Listening, MayRead, BufferAlone
<1>6. CASE Enlist
  <2>1. /\ BufferAlone /\ at[Main] = "enlist" /\ at' = [at EXCEPT ![Main] = "doze"]
        /\ listeners' # << >>
    BY <1>6, AppendProperties DEF Enlist, BufferAlone, consoleVars
  <2>2. at'[Main] = "doze"
    BY <2>1
  <2> QED BY <1>1, <2>1, <2>2, BufferAloneKeeps DEF BufferInv, Listening, MayRead, BufferAlone
<1>7. CASE Remove
  <2>1. /\ BufferAlone /\ at[Main] = "remove" /\ at' = [at EXCEPT ![Main] = "read"]
    BY <1>7 DEF Remove, BufferAlone, consoleVars
  <2>2. at'[Main] = "read"
    BY <2>1
  <2> QED BY <1>1, <2>1, <2>2, BufferAloneKeeps DEF Listening, MayRead
<1>8. CASE Doze
  <2>1. /\ BufferAlone /\ at[Main] = "doze" /\ at' = [at EXCEPT ![Main] = "woken"]
        /\ UNCHANGED listeners /\ UNCHANGED notified
    BY <1>8 DEF Doze, Await, BufferAlone, uartVars, consoleVars
  <2>2. at'[Main] = "woken"
    BY <2>1
  <2> QED BY <1>1, <2>1, <2>2, BufferAloneKeeps DEF BufferInv, Listening, MayRead, BufferAlone
<1>9. CASE Woken
  <2>1. /\ BufferAlone /\ at[Main] = "woken"
        /\ \E p \in {"read", "give up"} : at' = [at EXCEPT ![Main] = p]
    BY <1>9 DEF Woken, BufferAlone, uartVars
  <2>2. at'[Main] \in {"read", "give up"}
    BY <2>1
  <2> QED BY <1>1, <2>1, <2>2, BufferAloneKeeps DEF Listening, MayRead
<1> QED BY <1>2, <1>3, <1>4, <1>5, <1>6, <1>7, <1>8, <1>9 DEF ConsoleStep

\* read() moves the buffer: the low-priority thread has no sum to write back then, or the buffer
\* is empty.
LEMMA ReadKeepsBuffer ==
  ASSUME BufferFacts, ControlInv, BufferInv, ReadChar
  PROVE  BufferInv'
<1> USE DEF BufferFacts
<1>1. /\ at[Main] = "read" /\ driver[Main] = "idle" /\ at'[Main] = "typed"
      /\ UNCHANGED <<driver, input, count, listeners>>
  BY DEF ReadChar, Read, Goes, ControlFacts, KernelFacts
<1>2. Listening'
  BY <1>1 DEF Listening
<1>3. CASE usage = 0
  <2>1. UNCHANGED <<usage, rxBuffer>> /\ c' = NoInput
    BY <1>3 DEF ReadChar, Read, Front
  <2> QED BY <1>1, <1>2, <1>3, <2>1 DEF BufferInv, Older, InOrder, Fresh, Counting, MayRead, NoInput
<1>4. CASE usage > 0
  <2>1. /\ usage' = usage - 1 /\ c' = rxBuffer[1]
        /\ \A i \in 1 .. usage - 1 : rxBuffer'[i] = rxBuffer[i + 1]
    BY <1>4 DEF ReadChar, Read, Front
  <2>2. driver[Low] # "count"
    BY <1>1, <1>4 DEF BufferInv, Counting, MayRead
  <2>3. \A i \in 1 .. usage - 1 : i \in 1 .. usage /\ i + 1 \in 1 .. usage
    OBVIOUS
  <2>4. Older'
    BY <1>1, <1>4, <2>1, <2>3 DEF BufferInv, Older
  <2>5. InOrder'
    BY <1>4, <2>1, <2>3 DEF BufferInv, InOrder
  <2>6. Fresh'
    BY <1>1, <1>4, <2>1, <2>3 DEF BufferInv, Fresh, Before
  <2> QED BY <1>1, <1>2, <2>2, <2>4, <2>5, <2>6 DEF BufferInv, Counting
<1> QED BY <1>3, <1>4

\* The console in the driver: when it comes back, it has held the mutex, and the other has not.
LEMMA WritingKeepsBuffer ==
  ASSUME BufferFacts, ControlInv, BufferInv, UNCHANGED <<at, consoleVars>>,
         LockUart(Main) \/ Transmit(Main) \/ Sent(Main) \/ UnlockUart(Main)
  PROVE  BufferInv'
<1> USE DEF BufferFacts, ControlFacts, KernelFacts
<1>1. /\ driver[Main] # "idle" /\ UNCHANGED <<usage, rxBuffer, input, count, listeners>>
      /\ \/ UNCHANGED driver
         \/ \E p \in {"transmit", "sending", "unlock"} : driver' = [driver EXCEPT ![Main] = p]
         \/ driver[Main] = "unlock" /\ driver' = [driver EXCEPT ![Main] = "idle"]
  BY DEF LockUart, Transmit, Sent, UnlockUart, Locking, Does, Moves
<1>2. /\ driver'[Low] = driver[Low]
      /\ driver'[Main] # "idle" \/ driver[Main] = "unlock"
  <2>1. CASE UNCHANGED driver
    BY <1>1, <2>1
  <2>2. CASE \E p \in {"transmit", "sending", "unlock"} : driver' = [driver EXCEPT ![Main] = p]
    BY <2>2
  <2>3. CASE driver[Main] = "unlock" /\ driver' = [driver EXCEPT ![Main] = "idle"]
    BY <2>3
  <2> QED BY <1>1, <2>1, <2>2, <2>3
<1>3. at'[Main] = at[Main] /\ at[Main] \in {"wait", "entered", "process", "pause"}
  BY <1>1 DEF ControlInv, Whereabouts, Places
<1>4. driver[Main] = "unlock" => driver[Low] # "count"
  BY DEF UartHeld, HoldingPlaces, DriverPlaces
<1>5. BufferAlone
  BY <1>1, <1>2 DEF BufferAlone, consoleVars
<1>6. Listening'
  BY <1>3 DEF Listening
<1>7. MayRead' => driver[Low] # "count"
  BY <1>2, <1>4 DEF MayRead
<1> QED BY <1>5, <1>6, <1>7, BufferAloneKeeps

LEMMA UpToNext ==
  ASSUME NEW n \in Nat
  PROVE  \A i, j \in 1 .. n + 1 : i < j => i \in 1 .. n /\ (j \in 1 .. n \/ j = n + 1)
OBVIOUS

\* The low-priority thread receives.
LEMMA LowKeepsBuffer ==
  ASSUME ConsoleInv, BufferFacts, ControlInv, BufferInv,
         \/ LowStep
         \/ UNCHANGED <<at, consoleVars>> /\
              \/ LockForInput(Low) \/ Receive(Low) \/ Put(Low) \/ Count(Low)
              \/ LockListeners(Low) \/ Broadcast(Low) \/ UnlockInput(Low)
  PROVE  BufferInv'
<1> USE DEF BufferFacts, ControlFacts, KernelFacts
<1>1. Runs(Low) /\ MainRests
  <2>1. Runs(Low)
    BY DEF LowStep, Poll, Trigger, Acts, BeginCycle, LockForInput, Receive, Put, Count,
      LockListeners, Broadcast, UnlockInput, Locking, Does, Moves, Take, Wait, Give, NotifyGive,
      Executes, Calls
  <2> QED BY <2>1, LowRuns
<1>2. driver'[Main] = driver[Main] /\ at'[Main] = at[Main] /\ UNCHANGED c
  <2>1. UNCHANGED driver \/ \E p : driver' = [driver EXCEPT ![Low] = p]
    BY DEF LowStep, Poll, Trigger, Acts, BeginCycle, LockForInput, Receive, Put, Count,
      LockListeners, Broadcast, UnlockInput, Locking, Does, Moves, uartVars
  <2>2. UNCHANGED at \/ \E p : at' = [at EXCEPT ![Low] = p]
    BY DEF LowStep, Poll, Trigger, Acts, Goes
  <2>3. UNCHANGED c
    BY DEF LowStep, Poll, Trigger, consoleVars
  <2> QED BY <2>1, <2>2, <2>3
<1>3. MayRead' <=> MayRead
  BY <1>2 DEF MayRead
<1>4. CASE LowStep \/ LockForInput(Low) \/ UnlockInput(Low) \/ LockListeners(Low)
  <2>1. UNCHANGED <<usage, rxBuffer, input, count, c, listeners, notified>>
    BY <1>2, <1>4 DEF LowStep, Poll, Trigger, Acts, BeginCycle, LockForInput, LockListeners, UnlockInput,
      Locking, Does, Take, Wait, Give, kernelVars, uartVars
  <2>2. /\ driver'[Low] \notin {"put", "count"}
        /\ driver[Low] \in {"notify", "broadcast"} => driver'[Low] \in {"notify", "broadcast"}
    <3>1. CASE LowStep
      <4>1. driver[Low] = "idle" /\ (UNCHANGED driver \/ driver' = [driver EXCEPT ![Low] = "poll"])
        BY <3>1 DEF LowStep, Poll, Trigger, Acts, Goes, BeginCycle, Does, Moves, uartVars
      <4> QED BY <4>1
    <3>2. CASE LockForInput(Low)
      <4>1. driver[Low] = "poll" /\ (UNCHANGED driver \/ driver' = [driver EXCEPT ![Low] = "receive"])
        BY <3>2 DEF LockForInput, Locking, Moves
      <4> QED BY <4>1
    <3>3. CASE UnlockInput(Low)
      <4>1. /\ driver[Low] \in {"next", "leave"}
            /\ \E p \in {"poll", "idle"} : driver' = [driver EXCEPT ![Low] = p]
        BY <3>3 DEF UnlockInput, Moves
      <4> QED BY <4>1
    <3>4. CASE LockListeners(Low)
      <4>1. /\ driver[Low] = "notify"
            /\ \/ UNCHANGED driver
               \/ driver' = [driver EXCEPT ![Low] = "broadcast"]
        BY <3>4 DEF LockListeners, Locking, Moves
      <4> QED BY <4>1
    <3> QED BY <1>4, <3>1, <3>2, <3>3, <3>4
  <2> QED BY <1>2, <2>1, <2>2 DEF BufferInv, Older, InOrder, Fresh, Counting, Listening
<1>5. CASE Receive(Low)
  <2>1. /\ UNCHANGED <<usage, rxBuffer, count, listeners, notified>> /\ driver[Low] = "receive"
        /\ \/ /\ driver'[Low] = "put"
              /\ input' = IF input < MaxInput THEN input + 1 ELSE input
           \/ driver'[Low] = "leave" /\ UNCHANGED input
    BY <1>5 DEF Receive, Does, Moves, kernelVars
  <2>2. Listening'
    BY <1>2, <2>1 DEF BufferInv, Listening
  <2>3. InOrder' /\ Counting'
    BY <1>2, <2>1 DEF BufferInv, InOrder, Counting
  <2>4. Older'
    BY <1>2, <2>1 DEF BufferInv, Older
  <2>5. Fresh'
    <3>1. CASE driver'[Low] = "put" /\ input' = IF input < MaxInput THEN input + 1 ELSE input
      <4>1. \A x \in 0 .. MaxInput : x <= input => Before(x, input')
        BY <3>1 DEF Before
      <4>2. \A i \in 1 .. usage : rxBuffer[i] \in 0 .. MaxInput
        OBVIOUS
      <4>3. UNCHANGED <<usage, rxBuffer, c>>
        BY <1>2, <2>1
      <4>4. Before(NoInput, input') /\ Before(c, input')
        <5>1. NoInput \in 0 .. MaxInput /\ NoInput <= input /\ c <= input
          BY DEF BufferInv, Older, NoInput
        <5> QED BY <4>1, <5>1
      <4>5. \A i \in 1 .. usage : Before(rxBuffer[i], input')
        BY <4>1, <4>2 DEF BufferInv, Older
      <4> HIDE DEF Before
      <4> QED BY <4>3, <4>4, <4>5 DEF Fresh, NoInput
    <3>2. CASE driver'[Low] = "leave"
      BY <3>2 DEF Fresh
    <3> QED BY <2>1, <3>1, <3>2
  <2> QED BY <2>2, <2>3, <2>4, <2>5 DEF BufferInv
<1>6. CASE Put(Low)
  <2>1. driver[Low] = "put" /\ UNCHANGED <<usage, input, listeners, notified>>
    BY <1>6 DEF Put, Does, Moves, kernelVars
  <2>2. MayRead => usage = 0
    <3>1. MayRead => at[Main] = "woken" /\ ~ notified[Main]
      BY <1>1, <2>1 DEF MainRests, MayRead
    <3>2. at[Main] = "woken" /\ ~ notified[Main] => ~ (usage > 0)
      BY <2>1 DEF BufferInv, Listening
    <3> QED BY <3>1, <3>2
  <2>3. Listening'
    BY <1>2, <2>1 DEF BufferInv, Listening
  <2>4. CASE usage < STM32UART_BUFFER_SIZE
    <3>1. /\ rxBuffer' = [rxBuffer EXCEPT ![usage + 1] = input] /\ count' = usage + 1
          /\ driver'[Low] = "count"
      BY <1>6, <2>4 DEF Put, Does, Moves
    <3>2. rxBuffer'[usage + 1] = input /\ \A i \in 1 .. usage : rxBuffer'[i] = rxBuffer[i]
      BY <2>4, <3>1
    <3>3. Older' /\ InOrder'
      BY <1>2, <2>1, <3>2 DEF BufferInv, Older, InOrder
    <3>4. Fresh'
      BY <1>2, <2>1, <3>2 DEF BufferInv, Fresh, NoInput
    <3>5. Counting'
      BY <1>3, <2>1, <2>2, <2>4, <3>1, <3>2 DEF Counting
    <3> QED BY <2>3, <3>3, <3>4, <3>5 DEF BufferInv
  <2>5. CASE ~ (usage < STM32UART_BUFFER_SIZE)
    <3>1. UNCHANGED <<rxBuffer, count>> /\ driver'[Low] = "next"
      BY <1>6, <2>5 DEF Put, Does, Moves
    <3> QED BY <1>2, <2>1, <2>3, <3>1 DEF BufferInv, Older, InOrder, Fresh, Counting
  <2> QED BY <2>4, <2>5
<1>7. CASE Count(Low)
  <2>1. /\ driver[Low] = "count" /\ driver'[Low] = "notify" /\ usage' = count
        /\ UNCHANGED <<rxBuffer, count, input, listeners, notified>>
    BY <1>7 DEF Count, Does, Moves, kernelVars
  <2>2. /\ usage' = usage + 1 /\ rxBuffer[usage + 1] = input
        /\ Before(c, input) /\ \A i \in 1 .. usage : Before(rxBuffer[i], input)
    BY <2>1 DEF BufferInv, Counting, Fresh
  <2>3. \A i \in 1 .. usage + 1 : i \in 1 .. usage \/ i = usage + 1
    OBVIOUS
  <2>4. Older'
    BY <1>2, <2>1, <2>2, <2>3 DEF BufferInv, Older
  <2>5. InOrder'
    <3>1. \A i \in 1 .. usage + 1 : Before(c, rxBuffer[i])
      BY <2>2, <2>3 DEF BufferInv, InOrder
    <3>2. \A i, j \in 1 .. usage + 1 : i < j => i \in 1 .. usage /\ (j \in 1 .. usage \/ j = usage + 1)
      BY UpToNext
    <3>3. \A i, j \in 1 .. usage + 1 : i < j => Before(rxBuffer[i], rxBuffer[j])
      BY <2>2, <3>2 DEF BufferInv, InOrder
    <3> QED BY <1>2, <2>1, <2>2, <3>1, <3>3 DEF InOrder
  <2>6. at[Main] \notin {"listen", "enlist", "doze"}
    BY <1>1, <2>1 DEF MainRests, ControlInv, Whereabouts, Places
  <2> QED BY <1>2, <2>1, <2>4, <2>5, <2>6 DEF BufferInv, Fresh, Counting, Listening
<1>8. CASE Broadcast(Low)
  <2>1. driver[Low] = "broadcast" /\ UNCHANGED <<usage, rxBuffer, count, input>>
    BY <1>8 DEF Broadcast
  <2>2. CASE listeners # << >>
    <3>1. Head(listeners) = Main
      BY <2>2, HeadTailProperties
    <3>2. notified'[Main] /\ driver' = driver
      BY <1>8, <2>2, <3>1 DEF Broadcast, NotifyGive
    <3> QED BY <1>2, <2>1, <3>2 DEF BufferInv, Older, InOrder, Fresh, Counting, Listening
  <2>3. CASE listeners = << >>
    <3>1. UNCHANGED <<listeners, notified>> /\ driver'[Low] = "next"
      BY <1>8, <2>3 DEF Broadcast, Give, Moves
    <3> QED BY <1>2, <2>1, <2>3, <3>1 DEF BufferInv, Older, InOrder, Fresh, Counting, Listening
  <2> QED BY <2>2, <2>3
<1> QED BY <1>4, <1>5, <1>6, <1>7, <1>8

\* Timers and the interrupt.
LEMMA TimersKeepBuffer ==
  ASSUME BufferInv, NEW t \in Tasks, TimeIsOver(t) \/ TimeOut \/ Interrupt
  PROVE  BufferInv'
<1>1. UNCHANGED <<at, driver, rxBuffer, usage, count, input, listeners, c, notified>>
  BY DEF TimeIsOver, TimeOut, Interrupt, TxCplt, Expire, uartVars, kernelVars, consoleVars
<1> QED BY <1>1 DEF BufferInv, Older, InOrder, Fresh, Counting, MayRead, Listening

LEMMA BufferKept ==
  ASSUME ConsoleInv, ControlInv, BufferInv, NEW t \in Tasks,
         Thread(t) \/ TimeIsOver(t) \/ TimeOut \/ Interrupt
  PROVE  BufferInv'
<1> USE BufferFactsHold
<1>1. CASE ConsoleStep
  BY <1>1, ConsoleKeepsBuffer, ReadKeepsBuffer
<1>2. CASE LowStep
  BY <1>2, LowKeepsBuffer
<1>3. CASE DriverStep(t)
  <2>1. InDriver(t) /\ UNCHANGED <<at, consoleVars>>
    BY <1>3 DEF DriverStep
  <2>2. CASE t = Main
    BY <2>1, <2>2, OnlyTheTwo, WritingKeepsBuffer
  <2>3. CASE t = Low
    BY <2>1, <2>3, OnlyTheTwo, LowKeepsBuffer
  <2> QED BY <2>1, <2>2, <2>3, OnlyTheTwo
<1>4. CASE TimeIsOver(t) \/ TimeOut \/ Interrupt
  BY <1>4, TimersKeepBuffer
<1> QED BY <1>1, <1>2, <1>3, <1>4 DEF Thread

-----------------------------------------------------------------------------
(* Notifications *)

\* As long as no wait was given up, the list holds the console only while it waits, and a
\* notification stands for a character that the console has not read yet.
Told ==
  /\ ~ phantom
  /\ at[Main] \notin {"give up", "remove"}
  /\ at[Main] = "read" => usage > 0
  /\ listeners # << >> => at[Main] \in {"doze", "woken"} /\ ~ notified[Main] /\ listeners = <<Main>>
  /\ notified[Main] => at[Main] = "woken" /\ usage > 0

\* Who is about to tell has something to tell.
Telling ==
  /\ driver[Low] = "notify" =>
       /\ usage > 0
       /\ \/ driver[Main] # "idle"
          \/ at[Main] \in {"run", "prompt", "entered", "process", "pause", "asleep"}
          \/ at[Main] = "woken" /\ ~ notified[Main]
  /\ driver[Low] = "broadcast" /\ listeners # << >> => usage > 0

PatientInv == ~ timedOut => Told /\ Telling

\* The console.
LEMMA ConsoleKeepsPatience ==
  ASSUME BufferFacts, ControlInv, PatientInv, ConsoleStep
  PROVE  PatientInv'
<1> SUFFICES ASSUME ~ timedOut' PROVE Told' /\ Telling'
  BY DEF PatientInv
<1> USE DEF BufferFacts, ControlFacts, KernelFacts, Goes
<1>1. ~ timedOut
  BY DEF ConsoleStep, Run, Prompt, WaitForInput, LockListening, Enlist, Doze, Woken, LockGivingUp, Remove,
    ReadChar, Typed, Echo, NothingToErase, EndOfLine, Entered, Process, Answer, Ask, Pause, Rerun, consoleVars
<1>2. Told /\ Telling
  BY <1>1 DEF PatientInv
<1>3. CASE Run \/ Entered \/ Pause \/ Rerun
  <2>1. /\ at[Main] \in {"run", "entered", "pause", "asleep"}
        /\ \E p \in {"prompt", "pause", "process", "asleep", "run"} : at' = [at EXCEPT ![Main] = p]
        /\ UNCHANGED <<usage, listeners, driver, phantom, notified>>
    BY <1>3 DEF Run, Entered, Pause, Rerun, Acts, Sleeps, Rises, Delay, Resume, kernelVars, uartVars,
      consoleVars
  <2>2. at'[Main] \in {"prompt", "pause", "process", "asleep", "run"}
    BY <2>1
  <2> QED BY <1>2, <2>1, <2>2 DEF Told, Telling
<1>4. CASE Prompt \/ Typed \/ Process
  <2>1. /\ at[Main] \in {"prompt", "typed", "process"} /\ driver[Main] = "idle"
        /\ \E p \in {"wait", "entered", "process", "pause"} : at' = [at EXCEPT ![Main] = p]
        /\ \/ driver' = [driver EXCEPT ![Main] = "lock"]
           \/ UNCHANGED driver /\ at[Main] = "typed"
        /\ UNCHANGED <<usage, listeners, phantom, notified>>
    BY ONLY <1>4, ConsolePrints DEF kernelVars
  <2>2. at'[Main] \in {"wait", "entered", "process", "pause"}
    BY <2>1
  <2>3. Told'
    BY <1>2, <2>1, <2>2 DEF Told
  <2>4. Telling'
    <3>1. CASE driver' = [driver EXCEPT ![Main] = "lock"]
      <4>1. driver'[Main] # "idle" /\ driver'[Low] = driver[Low]
        BY <3>1
      <4> QED BY <1>2, <2>1, <4>1 DEF Telling
    <3>2. CASE UNCHANGED driver /\ at[Main] = "typed"
      BY <1>2, <2>1, <3>2 DEF Telling
    <3> QED BY <2>1, <3>1, <3>2
  <2> QED BY <2>3, <2>4
<1>5. CASE WaitForInput \/ LockListening \/ LockGivingUp
  <2>1. /\ at[Main] \in {"wait", "listen", "give up"} /\ driver[Main] = "idle"
        /\ \/ UNCHANGED at
           \/ usage > 0 /\ at' = [at EXCEPT ![Main] = "read"]
           \/ at[Main] # "give up" /\ at' = [at EXCEPT ![Main] = "listen"]
           \/ at[Main] # "give up" /\ at' = [at EXCEPT ![Main] = "enlist"]
           \/ at[Main] = "give up"
        /\ UNCHANGED <<usage, listeners, driver, phantom, notified>>
    BY <1>5 DEF WaitForInput, LockListening, LockGivingUp, Acts, Acquires, Take, Wait, kernelVars,
      uartVars, consoleVars
  <2>2. \/ at'[Main] = at[Main]
        \/ usage > 0 /\ at'[Main] = "read"
        \/ at'[Main] \in {"listen", "enlist"}
    BY <1>2, <2>1 DEF Told
  <2> QED BY <1>2, <2>1, <2>2 DEF Told, Telling
<1>6. CASE Enlist
  <2>1. /\ at[Main] = "enlist" /\ at' = [at EXCEPT ![Main] = "doze"] /\ driver[Main] = "idle"
        /\ listeners' = Append(listeners, Main) /\ UNCHANGED <<usage, driver, phantom, notified>>
    BY <1>6 DEF Enlist, Give, consoleVars
  <2>2. at'[Main] = "doze"
    BY <2>1
  <2>3. listeners = << >> /\ ~ notified[Main]
    BY <1>2, <2>1 DEF Told
  <2>4. listeners' = <<Main>>
    BY <2>1, <2>3
  <2>5. driver[Low] \notin {"notify", "broadcast"}
    <3>1. driver[Low] # "broadcast"
      BY <2>1 DEF ControlInv, Whereabouts, ListHeld
    <3>2. driver[Low] # "notify"
      BY <1>2, <2>1 DEF Telling
    <3> QED BY <3>1, <3>2
  <2> QED BY <1>2, <2>1, <2>2, <2>3, <2>4, <2>5 DEF Told, Telling
<1>7. CASE Doze
  <2>1. /\ at[Main] = "doze" /\ at' = [at EXCEPT ![Main] = "woken"] /\ driver[Main] = "idle"
        /\ UNCHANGED <<usage, listeners, driver, phantom, notified>>
    BY <1>7 DEF Doze, Await, uartVars, consoleVars
  <2>2. at'[Main] = "woken"
    BY <2>1
  <2> QED BY <1>2, <2>1, <2>2 DEF Told, Telling
<1>8. CASE Woken
  <2>1. /\ at[Main] = "woken" /\ notified[Main] /\ driver[Main] = "idle"
        /\ at' = [at EXCEPT ![Main] = "read"] /\ notified' = [notified EXCEPT ![Main] = FALSE]
        /\ UNCHANGED <<usage, listeners, driver, phantom>>
    BY <1>8 DEF Woken, Awake, uartVars
  <2>2. at'[Main] = "read" /\ ~ notified'[Main]
    BY <2>1
  <2> QED BY <1>2, <2>1, <2>2 DEF Told, Telling
<1>9. CASE Remove
  BY <1>2, <1>9 DEF Remove, Told
<1>10. CASE ReadChar
  <2>1. /\ at[Main] = "read" /\ at' = [at EXCEPT ![Main] = "typed"] /\ driver[Main] = "idle"
        /\ phantom' = (phantom \/ usage = 0) /\ UNCHANGED <<listeners, driver, notified>>
    BY <1>10 DEF ReadChar, Read, kernelVars
  <2>2. at'[Main] = "typed"
    BY <2>1
  <2> QED BY <1>2, <2>1, <2>2 DEF Told, Telling
<1> QED BY <1>3, <1>4, <1>5, <1>6, <1>7, <1>8, <1>9, <1>10 DEF ConsoleStep

\* ... in the driver.
LEMMA WritingKeepsPatience ==
  ASSUME BufferFacts, ControlInv, PatientInv, UNCHANGED <<at, consoleVars>>,
         LockUart(Main) \/ Transmit(Main) \/ Sent(Main) \/ UnlockUart(Main)
  PROVE  PatientInv'
<1> USE LocksOfTheDriver DEF BufferFacts, ControlFacts, KernelFacts
<1>1. /\ UNCHANGED <<usage, listeners, notified, timedOut, phantom, at>>
      /\ \/ driver[Main] = "lock"
         \/ driver[Main] \in {"transmit", "sending", "unlock"}
  BY DEF LockUart, Transmit, Sent, UnlockUart, Locking, Does, Moves, Take, Wait, Give, kernelVars, consoleVars
<1>2. driver'[Low] = driver[Low]
  <2>1. UNCHANGED driver \/ \E p : driver' = [driver EXCEPT ![Main] = p]
    BY DEF LockUart, Transmit, Sent, UnlockUart, Locking, Does, Moves
  <2> QED BY <2>1
<1>3. driver[Low] = "notify" => driver'[Main] # "idle"
  <2> SUFFICES ASSUME driver[Low] = "notify" PROVE driver'[Main] # "idle"
    OBVIOUS
  <2>1. owner["uart"] = Low
    BY DEF UartHeld, HoldingPlaces, DriverPlaces
  <2>2. driver[Main] = "lock"
    BY <1>1, <2>1 DEF UartHeld, HoldingPlaces, DriverPlaces
  <2>3. LockUart(Main)
    BY <2>2 DEF Transmit, Sent, UnlockUart, Does, Moves
  <2>4. UNCHANGED driver
    BY <2>1, <2>3 DEF LockUart, Locking, Take
  <2> QED BY <2>2, <2>4
<1> QED BY <1>1, <1>2, <1>3 DEF PatientInv, Told, Telling

\* The low-priority thread tells the console of a character.
LEMMA LowKeepsPatience ==
  ASSUME ConsoleInv, BufferFacts, ControlInv, BufferInv, PatientInv,
         \/ LowStep
         \/ UNCHANGED <<at, consoleVars>> /\
              \/ LockForInput(Low) \/ Receive(Low) \/ Put(Low) \/ Count(Low)
              \/ LockListeners(Low) \/ Broadcast(Low) \/ UnlockInput(Low)
  PROVE  PatientInv'
<1> USE DEF BufferFacts, ControlFacts, KernelFacts
<1>1. MainRests
  <2>1. Runs(Low)
    BY DEF LowStep, Poll, Trigger, Acts, BeginCycle, LockForInput, Receive, Put, Count,
      LockListeners, Broadcast, UnlockInput, Locking, Does, Moves, Take, Wait, Give, NotifyGive,
      Executes, Calls
  <2> QED BY <2>1, LowRuns
<1>2. driver'[Main] = driver[Main] /\ at'[Main] = at[Main] /\ UNCHANGED <<timedOut, phantom>>
  <2>1. UNCHANGED driver \/ \E p : driver' = [driver EXCEPT ![Low] = p]
    BY DEF LowStep, Poll, Trigger, Acts, BeginCycle, LockForInput, Receive, Put, Count,
      LockListeners, Broadcast, UnlockInput, Locking, Does, Moves, uartVars
  <2>2. UNCHANGED at \/ \E p : at' = [at EXCEPT ![Low] = p]
    BY DEF LowStep, Poll, Trigger, Acts, Goes
  <2>3. UNCHANGED <<timedOut, phantom>>
    BY DEF LowStep, Poll, Trigger, consoleVars
  <2> QED BY <2>1, <2>2, <2>3
<1> SUFFICES ASSUME ~ timedOut, Told, Telling PROVE Told' /\ Telling'
  BY <1>2 DEF PatientInv
<1>3. CASE LowStep \/ LockForInput(Low) \/ Receive(Low) \/ Put(Low) \/ UnlockInput(Low)
  <2>1. UNCHANGED <<usage, listeners, notified>>
    BY <1>3 DEF LowStep, Poll, Trigger, Acts, BeginCycle, LockForInput, Receive, Put, UnlockInput,
      Locking, Does, Take, Wait, Give, kernelVars, uartVars
  <2>2. driver'[Low] \notin {"notify", "broadcast"}
    <3>1. /\ driver[Low] \in {"idle", "poll", "receive", "put", "next", "leave"}
          /\ \/ UNCHANGED driver
             \/ \E p \in {"poll", "receive", "put", "leave", "count", "next", "idle"} :
                  driver' = [driver EXCEPT ![Low] = p]
      BY <1>3 DEF LowStep, Poll, Trigger, Acts, Goes, BeginCycle, LockForInput, Receive, Put, UnlockInput,
        Locking, Does, Moves, uartVars
    <3> QED BY <3>1
  <2> QED BY <1>2, <2>1, <2>2 DEF Told, Telling
<1>4. CASE Count(Low)
  <2>1. /\ driver[Low] = "count" /\ driver'[Low] = "notify" /\ usage' = count
        /\ UNCHANGED <<listeners, notified>>
    BY <1>4 DEF Count, Does, Moves, kernelVars
  <2>2. usage' > 0
    BY <2>1 DEF BufferInv, Counting
  <2>3. \/ driver[Main] # "idle"
        \/ at[Main] = "asleep"
        \/ at[Main] = "woken" /\ ~ notified[Main]
    BY <1>1, <2>1 DEF MainRests
  <2> QED BY <1>2, <2>1, <2>2, <2>3 DEF Told, Telling
<1>5. CASE LockListeners(Low)
  <2>1. /\ driver[Low] = "notify" /\ driver'[Low] \in {"notify", "broadcast"}
        /\ UNCHANGED <<usage, listeners, notified>>
    <3>1. /\ driver[Low] = "notify"
          /\ UNCHANGED driver \/ driver' = [driver EXCEPT ![Low] = "broadcast"]
          /\ UNCHANGED <<usage, listeners, notified>>
      BY <1>5 DEF LockListeners, Locking, Moves, Take, Wait
    <3> QED BY <3>1
  <2> QED BY <1>2, <2>1 DEF Told, Telling
<1>6. CASE Broadcast(Low)
  <2>1. driver[Low] = "broadcast" /\ UNCHANGED usage
    BY <1>6 DEF Broadcast
  <2>2. CASE listeners # << >>
    <3>1. listeners = <<Main>> /\ at[Main] \in {"doze", "woken"} /\ usage > 0
      BY <2>1, <2>2 DEF Told, Telling
    <3>2. at[Main] = "woken"
      BY <1>1, <3>1 DEF MainRests, ControlInv, Whereabouts, Places
    <3>3. /\ listeners' = << >> /\ notified'[Main] /\ driver' = driver
      <4>1. Head(listeners) = Main /\ Tail(listeners) = << >>
        BY <3>1
      <4> QED BY <1>6, <2>2, <4>1 DEF Broadcast, NotifyGive
    <3> QED BY <1>2, <2>1, <3>1, <3>2, <3>3 DEF Told, Telling
  <2>3. CASE listeners = << >>
    <3>1. UNCHANGED <<listeners, notified>> /\ driver'[Low] = "next"
      BY <1>6, <2>3 DEF Broadcast, Give, Moves
    <3> QED BY <1>2, <2>1, <3>1 DEF Told, Telling
  <2> QED BY <2>2, <2>3
<1> QED BY <1>3, <1>4, <1>5, <1>6

LEMMA PatienceKept ==
  ASSUME ConsoleInv, ControlInv, BufferInv, PatientInv, NEW t \in Tasks,
         Thread(t) \/ TimeIsOver(t) \/ TimeOut \/ Interrupt
  PROVE  PatientInv'
<1> USE BufferFactsHold
<1>1. CASE ConsoleStep
  BY <1>1, ConsoleKeepsPatience
<1>2. CASE LowStep
  BY <1>2, LowKeepsPatience
<1>3. CASE DriverStep(t)
  <2>1. InDriver(t) /\ UNCHANGED <<at, consoleVars>>
    BY <1>3 DEF DriverStep
  <2>2. CASE t = Main
    BY <2>1, <2>2, OnlyTheTwo, WritingKeepsPatience
  <2>3. CASE t = Low
    BY <2>1, <2>3, OnlyTheTwo, LowKeepsPatience
  <2> QED BY <2>1, <2>2, <2>3, OnlyTheTwo
<1>4. CASE TimeIsOver(t) \/ TimeOut \/ Interrupt
  <2>1. UNCHANGED <<at, driver, usage, listeners, timedOut, phantom, notified>>
    BY <1>4 DEF TimeIsOver, TimeOut, Interrupt, TxCplt, Expire, uartVars, kernelVars, consoleVars
  <2> QED BY <2>1 DEF PatientInv, Told, Telling
<1> QED BY <1>1, <1>2, <1>3, <1>4 DEF Thread

-----------------------------------------------------------------------------
(* The theorems about the input *)

InputInv == ConsoleInv /\ ControlInv /\ BufferInv /\ PatientInv

LEMMA InputStarts == ConsoleInit => ControlInv /\ BufferInv /\ PatientInv
<1> SUFFICES ASSUME ConsoleInit PROVE ControlInv /\ BufferInv /\ PatientInv
  OBVIOUS
<1> USE LocksOfTheDriver, KernelAssumption, UartAssumption, ConsoleAssumption
    DEF ConsoleInit, UartInit, KernelInit
<1>1. KernelPart
  BY DEF KernelPart, LocksInUse, Priorities
<1>2. Whereabouts
  BY DEF Whereabouts, Places, CallsOfMain, ListHeld
<1>3. BufferInv
  BY DEF BufferInv, Older, InOrder, Fresh, Counting, Listening, NoInput
<1>4. PatientInv
  BY DEF PatientInv, Told, Telling
<1> QED BY <1>1, <1>2, <1>3, <1>4 DEF ControlInv

THEOREM InputInvHolds == ConsoleSpec => []InputInv
<1>1. ConsoleInit => ControlInv /\ BufferInv /\ PatientInv
  BY InputStarts
<1>2. ConsoleInv /\ ControlInv /\ BufferInv /\ PatientInv /\ [ConsoleNext]_terminalVars
      => ControlInv' /\ BufferInv' /\ PatientInv'
  <2> SUFFICES ASSUME ConsoleInv, ControlInv, BufferInv, PatientInv, [ConsoleNext]_terminalVars
               PROVE  ControlInv' /\ BufferInv' /\ PatientInv'
    OBVIOUS
  <2>1. CASE ConsoleNext
    <3>1. PICK t \in Tasks : Thread(t) \/ TimeIsOver(t) \/ TimeOut \/ Interrupt
      BY <2>1, ConsoleAssumption DEF ConsoleNext
    <3> QED BY <3>1, ControlKept, BufferKept, PatienceKept
  <2>2. CASE UNCHANGED terminalVars
    <3>1. UNCHANGED <<priority, owner, call, notified, at, driver, rxBuffer, usage, count, input,
                      listeners, c, timedOut, phantom>>
      BY <2>2 DEF terminalVars, kernelVars, uartVars, consoleVars
    <3>2. ControlInv'
      BY <3>1 DEF ControlInv, KernelPart, LocksInUse, Priorities, Whereabouts, Places, CallsOfMain, ListHeld
    <3>3. BufferInv'
      BY <3>1 DEF BufferInv, Older, InOrder, Fresh, Counting, MayRead, Listening
    <3>4. PatientInv'
      BY <3>1 DEF PatientInv, Told, Telling
    <3> QED BY <3>2, <3>3, <3>4
  <2> QED BY <2>1, <2>2
<1> QED BY <1>1, <1>2, ConsoleInvHolds, PTL DEF ConsoleSpec, InputInv

\* Characters are read in the order of arrival, each of them once, for any size of the buffer:
\* read() needs no lock because its caller has the higher priority, and waits for the mutex
\* of the driver before it comes back to an input that may be half stored.
THEOREM InputStaysInOrder == ConsoleSpec => []InputInOrder
<1>1. InputInv => InputInOrder
  <2> SUFFICES ASSUME InputInv, NEW i \in 0 .. usage, NEW j \in 0 .. usage, i < j
               PROVE  Before(IF i = 0 THEN c ELSE rxBuffer[i], rxBuffer[j])
    BY DEF InputInOrder, Before
  <2>1. usage \in Nat
    BY DEF InputInv, ConsoleInv, DataTypes
  <2>2. j \in 1 .. usage /\ (i = 0 \/ i \in 1 .. usage)
    BY <2>1
  <2> QED BY <2>2 DEF InputInv, BufferInv, InOrder
<1> QED BY <1>1, InputInvHolds, PTL

\* Until a wait for input has been given up, the console reads only what was typed.
THEOREM PhantomsNeedTimeouts == ConsoleSpec => []PhantomsFollowTimeouts
<1>1. InputInv => PhantomsFollowTimeouts
  BY DEF InputInv, ConsoleInv, FlagTypes, PatientInv, Told, PhantomsFollowTimeouts
<1> QED BY <1>1, InputInvHolds, PTL
-----------------------------------------------------------------------------
(***************************************************************************)
(* The threads that share the UART.                                        *)
(***************************************************************************)
(* What the threads do with the kernel and the driver *)

\* The mutex of the buffer is another one than that of the driver.
LEMMA TerminalLocks == "buffer" \in Locks /\ "buffer" \in Mutexes /\ "buffer" # "uart"
BY KernelAssumption, TerminalAssumption

\* What a thread outside the console does: it computes, it prints, it takes or gives back the
\* mutex of the buffer, or it sleeps.
Common(t) ==
  /\ at' = [u \in Tasks |-> at'[u]]
  /\ UNCHANGED consoleVars
  /\ \/ Executes(t) /\ UNCHANGED <<kernelVars, uartVars>>
     \/ driver[t] = "idle" /\ Write(t)
     \/ (Take(t, "buffer") \/ Wait(t, "buffer") \/ Give(t, "buffer")) /\ UNCHANGED uartVars
     \/ (Delay(t) \/ Resume(t)) /\ UNCHANGED uartVars

LEMMA LoggersAreCommon ==
  ASSUME DataTypes, NEW t \in Tasks, LoggerStep(t)
  PROVE  Common(t)
<1> USE DEF Common, DataTypes
<1>1. CASE BeginLog(t)
  BY <1>1 DEF BeginLog, Acquires
<1>2. CASE Store(t)
  BY <1>2 DEF Store, Goes
<1>3. CASE Rest(t) \/ Rework(t)
  BY <1>3 DEF Rest, Rework, Sleeps, Rises, Goes
<1> QED BY <1>1, <1>2, <1>3 DEF LoggerStep

LEMMA TraceIsCommon ==
  ASSUME DataTypes, TraceStep
  PROVE  Common(Tracer)
<1> USE DEF Common, DataTypes
<1>1. CASE Cycle \/ Check \/ Printed \/ Warned
  BY <1>1 DEF Cycle, Check, Printed, Warned, Acts, Goes
<1>2. CASE PrintBuffer \/ Warn
  BY <1>2 DEF PrintBuffer, Warn, Prints, Goes
<1>3. CASE Claim
  BY <1>3 DEF Claim, Acquires
<1>4. CASE Clear \/ Release
  BY <1>4 DEF Clear, Release, Goes
<1>5. CASE TraceRest \/ TraceRework
  BY <1>5 DEF TraceRest, TraceRework, Sleeps, Rises, Goes
<1> QED BY <1>1, <1>2, <1>3, <1>4, <1>5 DEF TraceStep

\* That keeps the invariant of the console.
LEMMA CommonKeeps ==
  ASSUME ConsoleInv, NEW t \in Tasks, Common(t)
  PROVE  ConsoleInv'
<1> USE TerminalAssumption, DriverPart DEF Common
<1>1. KInv'
  BY TerminalLocks, KernelStep, InvariantKept DEF ConsoleInv, Write, Does
<1>2. UNCHANGED uartVars \/ Write(t)
  OBVIOUS
<1>3. DataTypes'
  <2>1. CASE UNCHANGED uartVars
    BY <2>1 DEF ConsoleInv, DataTypes, uartVars, consoleVars
  <2>2. CASE Write(t)
    BY <2>2 DEF ConsoleInv, DataTypes, DriverPlaces, consoleVars, Write, Does, Moves
  <2> QED BY <1>2, <2>1, <2>2
<1>4. FlagTypes'
  BY DEF ConsoleInv, FlagTypes, uartVars, consoleVars, Write
<1>5. UartHeld' /\ FlagIsFresh' /\ WritesAreWhole'
  <2>1. CASE UNCHANGED uartVars
    <3>1. owner'["uart"] = owner["uart"]
      BY <2>1, TerminalLocks, LocksOfTheDriver
         DEF ConsoleInv, KInv, KernelTypeOK, Take, Wait, Give, Delay, Resume, Write, Does, kernelVars
    <3> QED BY <2>1, <3>1, AloneKeeps DEF DriverAlone, uartVars
  <2>2. CASE Write(t)
    BY <2>2, EntryKeeps
  <2> QED BY <1>2, <2>1, <2>2
<1> QED BY <1>1, <1>3, <1>4, <1>5 DEF ConsoleInv

-----------------------------------------------------------------------------
(* The trace buffer *)

\* In these places the trace thread holds the mutex of the buffer.
TraceHolds == {"check", "print", "printed", "warn", "warned", "clear", "release"}

BufferHeld ==
  /\ at[Tracer] \in TraceHolds => owner["buffer"] = Tracer
  /\ \A t \in Loggers : at[t] = "store" => owner["buffer"] = t

\* Threads that log do not print; the trace thread prints the buffer and the warning.
WhoPrints ==
  /\ \A t \in Loggers : driver[t] = "idle"
  /\ driver[Tracer] # "idle" =>
       at[Tracer] \in {"printed", "warned"} /\ driver[Tracer] \in {"lock", "transmit", "sending", "unlock"}

\* What the buffer holds is still to be printed, or being printed.
ToPrint ==
  \/ at[Tracer] \notin {"printed", "warn", "warned", "clear"}
  \/ at[Tracer] = "printed" /\ (driver[Tracer] \in {"lock", "transmit"} \/ wire = Tracer)

Seen == unseen = IF ToPrint THEN m_u_buffer_usage ELSE 0

TraceTypes ==
  /\ m_u_buffer_usage \in 0 .. TRACE_BUFFER_LENGTH - 1
  /\ m_u8_number_of_buffer_overflows \in 0 .. OverflowModulus - 1
  /\ damaged \in BOOLEAN

TraceInv == BufferHeld /\ WhoPrints /\ Seen /\ TraceTypes

TraceParts == TraceInv /\ ConsoleInv

\* A step that leaves alone all that concerns the trace.
LEMMA ElsewhereKeeps ==
  ASSUME TraceInv,
         owner'["buffer"] = owner["buffer"],
         \A u \in Loggers \cup {Tracer} : at'[u] = at[u] /\ driver'[u] = driver[u],
         wire' = Tracer <=> wire = Tracer,
         UNCHANGED traceVars
  PROVE  TraceInv'
BY DEF TraceInv, BufferHeld, WhoPrints, ToPrint, Seen, TraceTypes, traceVars

\* The console and the low-priority thread are elsewhere.
LEMMA ConsoleElsewhere ==
  ASSUME TraceParts, ConsoleStep \/ LowStep, UNCHANGED traceVars
  PROVE  TraceInv'
<1> USE TerminalLocks, UartAssumption
<1>1. /\ owner \in [Locks -> Tasks \cup {Nobody}] /\ driver \in [Tasks -> DriverPlaces]
      /\ at = [t \in Tasks |-> at[t]]
      /\ DriverInv /\ TraceInv
  BY DriverPart DEF TraceParts, ConsoleInv, KInv, KernelTypeOK, DataTypes
<1>2. \A u \in Loggers \cup {Tracer} : u \in Tasks \ {Main, Low}
  BY TerminalAssumption
<1>5. ASSUME NEW t \in {Main, Low}, NEW p, at' = [at EXCEPT ![t] = p]
      PROVE  \A u \in Loggers \cup {Tracer} : at'[u] = at[u]
  BY <1>1, <1>2, <1>5
<1>6. \/ UNCHANGED at
      \/ \E t \in {Main, Low} : \E p : at' = [at EXCEPT ![t] = p]
  <2>1. CASE LowStep
    BY <2>1 DEF LowStep, Poll, Trigger, Acts, Goes
  <2>2. CASE Run \/ Prompt \/ WaitForInput \/ ReadChar \/ Typed \/ Entered \/ Process
    BY <2>2 DEF Run, Prompt, WaitForInput, ReadChar, Typed, Echo, NothingToErase, EndOfLine,
      Entered, Process, Answer, Ask, Acts, Prints, Goes
  <2>3. CASE LockListening \/ Enlist \/ Doze \/ Woken \/ LockGivingUp \/ Remove \/ Pause \/ Rerun
    BY <2>3 DEF LockListening, Enlist, Doze, Woken, LockGivingUp, Remove, Pause, Rerun, Acquires,
      Sleeps, Rises, Goes
  <2> QED BY <2>1, <2>2, <2>3 DEF ConsoleStep
<1>7. \A u \in Loggers \cup {Tracer} : at'[u] = at[u]
  BY <1>5, <1>6
<1>3. owner'["buffer"] = owner["buffer"]
  <2> USE <1>1
  <2>1. CASE Run \/ WaitForInput \/ Entered \/ Trigger
    BY <2>1 DEF Run, WaitForInput, Entered, Trigger, Acts, kernelVars
  <2>2. CASE Prompt \/ Typed \/ Process \/ Poll
    BY <2>2 DEF Prompt, Typed, Echo, NothingToErase, EndOfLine, Process, Answer, Ask, Poll, Prints, Acts,
      Write, BeginCycle, Does, kernelVars
  <2>3. CASE LockListening \/ LockGivingUp
    <3>1. Take(Main, "cond") \/ Wait(Main, "cond")
      BY <2>3 DEF LockListening, LockGivingUp, Acquires
    <3> QED BY <3>1 DEF Take, Wait
  <2>4. CASE Enlist \/ Remove
    <3>1. Give(Main, "cond")
      BY <2>4 DEF Enlist, Remove
    <3> QED BY <3>1 DEF Give
  <2>5. CASE ReadChar
    BY <2>5 DEF ReadChar, kernelVars
  <2>6. CASE Doze \/ Woken \/ Pause \/ Rerun
    BY <2>6 DEF Doze, Woken, Pause, Rerun, Sleeps, Rises, Await, Awake, Delay, Resume
  <2> QED BY <2>1, <2>2, <2>3, <2>4, <2>5, <2>6 DEF ConsoleStep, LowStep
<1>4. /\ \A u \in Loggers \cup {Tracer} : driver'[u] = driver[u]
      /\ wire' = wire
  <2>1. DriverAlone \/ Write(Main) \/ BeginCycle(Low)
    BY <1>1, ConsoleEnters
  <2> QED BY <1>1, <1>2, <2>1 DEF DriverAlone, Write, BeginCycle, Does, Moves
<1> QED BY <1>1, <1>3, <1>4, <1>7, ElsewhereKeeps

\* Task t gets to place p of the driver, and what that does to the wire.
Gets(t, p) ==
  /\ driver' = [driver EXCEPT ![t] = p]
  /\ \/ UNCHANGED wire /\ driver[t] = "lock" /\ p \in {"lock", "transmit"}
     \/ UNCHANGED wire /\ driver[t] = "sending" /\ p = "unlock" /\ UartReady
     \/ UNCHANGED wire /\ driver[t] = "unlock" /\ p = "idle"
     \/ UNCHANGED wire /\ driver[t] = "transmit" /\ p = "unlock" /\ wire # Nobody
     \/ wire = Nobody /\ wire' = t /\ driver[t] = "transmit" /\ p = "sending"
     \/ UNCHANGED wire /\ driver[t] \notin {"idle", "lock", "transmit", "sending", "unlock"}

LEMMA DriverEffect ==
  ASSUME DataTypes, NEW t \in Tasks, InDriver(t)
  PROVE  \E p \in DriverPlaces : Gets(t, p)
<1>1. driver \in [Tasks -> DriverPlaces] /\ driver = [driver EXCEPT ![t] = driver[t]]
  BY DEF DataTypes
<1>2. CASE LockUart(t)
  <2>1. Gets(t, "transmit") \/ Gets(t, "lock")
    BY <1>1, <1>2 DEF LockUart, Locking, Moves, Gets
  <2> QED BY <2>1 DEF DriverPlaces
<1>3. CASE LockForInput(t) \/ LockListeners(t)
  <2>1. Gets(t, "receive") \/ Gets(t, "broadcast") \/ Gets(t, driver[t])
    BY <1>1, <1>3 DEF LockForInput, LockListeners, Locking, Moves, Gets
  <2> QED BY <1>1, <2>1 DEF DriverPlaces
<1>4. CASE Transmit(t) \/ Sent(t)
  <2>1. Gets(t, "sending") \/ Gets(t, "unlock")
    BY <1>4 DEF Transmit, Sent, Does, Moves, Gets
  <2> QED BY <2>1 DEF DriverPlaces
<1>5. CASE Receive(t) \/ Put(t) \/ Count(t)
  <2>1. Gets(t, "put") \/ Gets(t, "leave") \/ Gets(t, "count") \/ Gets(t, "next") \/ Gets(t, "notify")
    BY <1>5 DEF Receive, Put, Count, Does, Moves, Gets
  <2> QED BY <2>1 DEF DriverPlaces
<1>6. CASE UnlockUart(t) \/ UnlockInput(t)
  <2>1. Gets(t, "idle") \/ Gets(t, "poll")
    BY <1>6 DEF UnlockUart, UnlockInput, Moves, Gets
  <2> QED BY <2>1 DEF DriverPlaces
<1>7. CASE Broadcast(t)
  <2>1. Gets(t, driver[t]) \/ Gets(t, "next")
    BY <1>1, <1>7 DEF Broadcast, Moves, Gets
  <2> QED BY <1>1, <2>1 DEF DriverPlaces
<1> QED BY <1>2, <1>3, <1>4, <1>5, <1>6, <1>7 DEF InDriver

\* The driver does not touch the mutex of the buffer.
LEMMA BufferUntouched ==
  ASSUME ConsoleInv, NEW t \in Tasks, InDriver(t)
  PROVE  owner'["buffer"] = owner["buffer"]
<1> USE LocksOfTheDriver, TerminalLocks, TerminalAssumption, UartAssumption
    DEF ConsoleInv, KInv, KernelTypeOK
<1>1. CASE LockUart(t) \/ LockForInput(t) \/ LockListeners(t)
  BY <1>1 DEF LockUart, LockForInput, LockListeners, Locking, Take, Wait
<1>2. CASE Transmit(t) \/ Sent(t) \/ Receive(t) \/ Put(t) \/ Count(t)
  BY <1>2 DEF Transmit, Sent, Receive, Put, Count, Does, kernelVars
<1>3. CASE UnlockUart(t) \/ UnlockInput(t)
  BY <1>3 DEF UnlockUart, UnlockInput, Give
<1>4. CASE Broadcast(t)
  BY <1>4 DEF Broadcast, NotifyGive, Give
<1> QED BY <1>1, <1>2, <1>3, <1>4 DEF InDriver

\* The driver keeps the invariant: what the trace thread prints counts as printed only when
\* it is out.
LEMMA DriverKeepsTrace ==
  ASSUME TraceParts, NEW t \in Tasks, DriverStep(t), UNCHANGED traceVars
  PROVE  TraceInv'
<1>1. DataTypes /\ Tracer \in Tasks /\ Tracer \notin Loggers /\ Loggers \subseteq Tasks /\ Tracer # Nobody
  BY TerminalAssumption, KernelAssumption DEF TraceParts, ConsoleInv
<1>2. PICK p \in DriverPlaces : Gets(t, p)
  BY <1>1, DriverEffect DEF DriverStep
<1>2a. driver[t] # "idle" /\ UNCHANGED at /\ owner'["buffer"] = owner["buffer"]
  BY <1>2, BufferUntouched DEF Gets, DriverStep, TraceParts
<1>3. driver \in [Tasks -> DriverPlaces]
  BY <1>1 DEF DataTypes
<1>4. CASE t # Tracer
  <2>1. t \notin Loggers
    BY <1>2a DEF TraceParts, TraceInv, WhoPrints
  <2>2. \A u \in Loggers \cup {Tracer} : at'[u] = at[u] /\ driver'[u] = driver[u]
    BY <1>1, <1>2, <1>2a, <1>3, <1>4, <2>1 DEF Gets
  <2>3. wire' = Tracer <=> wire = Tracer
    BY <1>1, <1>2, <1>4 DEF Gets
  <2> QED BY <1>2a, <2>2, <2>3, ElsewhereKeeps DEF TraceParts
<1>5. CASE t = Tracer
  <2>1. /\ wire # Nobody => ~ UartReady
        /\ wire # Nobody => driver[wire] = "sending"
        /\ driver[Tracer] = "transmit" => wire = Nobody
    BY <1>1 DEF TraceParts, ConsoleInv, FlagIsFresh, WritesAreWhole
  <2>2. BufferHeld'
    BY <1>2a DEF TraceParts, TraceInv, BufferHeld
  <2>3. driver'[Tracer] = p /\ \A u \in Loggers : driver'[u] = driver[u]
    BY <1>1, <1>2, <1>3, <1>5 DEF Gets
  <2>4. /\ driver[Tracer] \in {"lock", "transmit", "sending", "unlock"}
        /\ at[Tracer] \in {"printed", "warned"}
    BY <1>2a, <1>5 DEF TraceParts, TraceInv, WhoPrints
  <2>5. WhoPrints'
    BY <1>2, <1>2a, <1>5, <2>3, <2>4 DEF TraceParts, TraceInv, WhoPrints, Gets
  <2>6. ToPrint' = ToPrint
    BY <1>1, <1>2, <1>2a, <1>5, <2>1, <2>3, <2>4 DEF ToPrint, Gets
  <2>7. Seen' /\ TraceTypes'
    BY <2>6 DEF TraceParts, TraceInv, Seen, TraceTypes, traceVars
  <2> QED BY <2>2, <2>5, <2>7 DEF TraceInv
<1> QED BY <1>4, <1>5

\* The interrupt.
LEMMA TransmittedKeeps ==
  ASSUME TraceParts, Transmitted
  PROVE  TraceInv'
<1>1. wire # Nobody /\ wire' = Nobody /\ Tracer # Nobody /\ UNCHANGED <<at, driver, owner>>
  BY TerminalAssumption, KernelAssumption DEF Transmitted, Interrupt, TxCplt, kernelVars
<1>2. wire = Tracer => driver[Tracer] = "sending"
  BY <1>1 DEF TraceParts, ConsoleInv, WritesAreWhole
<1>3. BufferHeld' /\ WhoPrints' /\ TraceTypes'
  BY <1>1 DEF TraceParts, TraceInv, BufferHeld, WhoPrints, TraceTypes, Transmitted
<1>4. Seen'
  BY <1>1, <1>2 DEF TraceParts, TraceInv, TraceTypes, Seen, ToPrint, Transmitted
<1> QED BY <1>3, <1>4 DEF TraceInv

\* The minimum of two numbers.
LEMMA MinOfTwo ==
  ASSUME NEW a \in Int, NEW b \in Int
  PROVE  Min({a, b}) = IF a <= b THEN a ELSE b
<1> DEFINE P(x) == x \in {a, b} /\ \A y \in {a, b} : x <= y
           m == IF a <= b THEN a ELSE b
<1>1. P(m) /\ \A x : P(x) => x = m
  OBVIOUS
<1>2. Min({a, b}) = CHOOSE x \in {a, b} : \A y \in {a, b} : x <= y
  BY DEF Min
<1>3. (CHOOSE x : P(x)) = m
  <2> HIDE DEF P, m
  <2> QED BY <1>1
<1> QED BY <1>2, <1>3

\* Logging.
LEMMA StoredFits ==
  ASSUME TraceTypes, NEW len \in TextLengths, PrintFormatted(len) \/ PrintRaw(len)
  PROVE  TraceTypes'
<1> USE TerminalAssumption DEF TraceTypes
<1>1. len \in Nat
  OBVIOUS
<1>5. ASSUME NEW n \in 0 .. TRACE_BUFFER_LENGTH - m_u_buffer_usage - 1, Stored(n)
      PROVE  m_u_buffer_usage' \in 0 .. TRACE_BUFFER_LENGTH - 1
  BY <1>5 DEF Stored
<1>2. CASE PrintRaw(len)
  <2> DEFINE n == Min({len, TRACE_BUFFER_LENGTH - m_u_buffer_usage - 1})
  <2>1. n \in 0 .. TRACE_BUFFER_LENGTH - m_u_buffer_usage - 1
    BY <1>1, MinOfTwo
  <2>2. /\ Stored(n)
        /\ \/ m_u8_number_of_buffer_overflows' \in {m_u8_number_of_buffer_overflows, 0}
           \/ UNCHANGED m_u8_number_of_buffer_overflows
        /\ damaged' \in {damaged, TRUE}
    BY <1>2 DEF PrintRaw
  <2> HIDE DEF n
  <2>3. m_u_buffer_usage' \in 0 .. TRACE_BUFFER_LENGTH - 1
    BY <1>5, <2>1, <2>2
  <2>4. m_u8_number_of_buffer_overflows' \in 0 .. OverflowModulus - 1
    BY <2>2
  <2>5. damaged' \in BOOLEAN
    BY <2>2
  <2> QED BY <2>3, <2>4, <2>5
<1>3. CASE PrintFormatted(len) /\ TRACE_BUFFER_LENGTH # m_u_buffer_usage + 1
  <2> DEFINE n == Min({len, TRACE_BUFFER_LENGTH - m_u_buffer_usage - 2})
  <2>1. n \in 0 .. TRACE_BUFFER_LENGTH - m_u_buffer_usage - 2
    BY <1>1, <1>3, MinOfTwo
  <2>2. Stored(n) /\ UNCHANGED <<m_u8_number_of_buffer_overflows, damaged>>
    BY <1>3 DEF PrintFormatted
  <2> HIDE DEF n
  <2>3. m_u_buffer_usage' \in 0 .. TRACE_BUFFER_LENGTH - 1
    BY <1>5, <2>1, <2>2
  <2> QED BY <2>2, <2>3
<1>4. CASE PrintFormatted(len) /\ TRACE_BUFFER_LENGTH = m_u_buffer_usage + 1
  BY <1>4 DEF PrintFormatted
<1> QED BY <1>2, <1>3, <1>4

LEMMA LoggingKeeps ==
  ASSUME TraceParts, NEW t \in Loggers, LoggerStep(t)
  PROVE  TraceInv'
<1>0. /\ owner \in [Locks -> Tasks \cup {Nobody}] /\ driver \in [Tasks -> DriverPlaces]
      /\ at = [u \in Tasks |-> at[u]]
      /\ TraceInv /\ WritesAreWhole
  BY DEF TraceParts, ConsoleInv, KInv, KernelTypeOK, DataTypes
<1> USE TerminalLocks, <1>0 DEF Goes
<1>1. Tracer # t /\ Tracer \in Tasks /\ t \in Tasks /\ Loggers \subseteq Tasks /\ Tracer # Nobody
      /\ Nobody \notin Tasks
  BY TerminalAssumption, KernelAssumption
<1>2. CASE BeginLog(t)
  <2>1. UNCHANGED uartVars /\ UNCHANGED traceVars
    BY <1>2 DEF BeginLog, Acquires
  <2>2. CASE Take(t, "buffer") /\ at' = [at EXCEPT ![t] = "store"]
    <3>1. owner["buffer"] = Nobody /\ owner'["buffer"] = t
      BY <2>2 DEF Take
    <3>2. at'[Tracer] = at[Tracer] /\ \A u \in Loggers \ {t} : at'[u] = at[u]
      BY <1>1, <2>2
    <3>3. at[Tracer] \notin TraceHolds /\ \A u \in Loggers \ {t} : at'[u] # "store"
      BY <1>1, <3>1, <3>2 DEF TraceInv, BufferHeld
    <3>4. BufferHeld'
      BY <3>1, <3>2, <3>3 DEF BufferHeld
    <3>5. WhoPrints' /\ TraceTypes'
      BY <2>1, <3>2 DEF TraceInv, WhoPrints, TraceTypes, traceVars, uartVars
    <3>6. ToPrint /\ ToPrint'
      BY <3>2, <3>3 DEF ToPrint, TraceHolds
    <3>7. Seen'
      BY <2>1, <3>6 DEF TraceInv, Seen, traceVars
    <3> QED BY <3>4, <3>5, <3>7 DEF TraceInv
  <2>3. CASE Wait(t, "buffer") /\ UNCHANGED at
    BY <2>1, <2>3, ElsewhereKeeps DEF Wait, uartVars
  <2> QED BY <1>2, <2>2, <2>3 DEF BeginLog, Acquires
<1>3. CASE Store(t)
  <2>1. /\ at[t] = "store" /\ at' = [at EXCEPT ![t] = "log"] /\ owner'["buffer"] = Nobody
        /\ UNCHANGED uartVars
    BY <1>3 DEF Store, Give
  <2>2. owner["buffer"] = t
    BY <2>1 DEF TraceInv, BufferHeld
  <2>3. at[Tracer] \notin TraceHolds /\ at'[Tracer] = at[Tracer]
    BY <1>1, <2>1, <2>2 DEF TraceInv, BufferHeld
  <2>4. \A u \in Loggers : at'[u] # "store"
    <3> TAKE u \in Loggers
    <3>1. CASE u = t
      BY <1>1, <2>1, <3>1
    <3>2. CASE u # t
      BY <1>1, <2>1, <2>2, <3>2 DEF TraceInv, BufferHeld
    <3> QED BY <3>1, <3>2
  <2>5. ToPrint /\ ToPrint'
    BY <2>3 DEF ToPrint, TraceHolds
  <2>6. unseen = m_u_buffer_usage /\ TraceTypes
    BY <2>5 DEF TraceInv, Seen
  <2>7. TraceTypes'
    BY <1>3, <2>6, StoredFits DEF Store
  <2>8. unseen' = m_u_buffer_usage'
    BY <1>3, <2>6 DEF Store, PrintFormatted, PrintRaw, Stored
  <2>9. BufferHeld' /\ WhoPrints'
    BY <1>1, <2>1, <2>3, <2>4 DEF TraceInv, BufferHeld, WhoPrints, uartVars
  <2> QED BY <2>5, <2>7, <2>8, <2>9 DEF TraceInv, Seen
<1>4. CASE Rest(t) \/ Rework(t)
  <2>1. /\ \E p \in {"asleep", "log"} : at' = [at EXCEPT ![t] = p]
        /\ UNCHANGED uartVars /\ UNCHANGED owner /\ UNCHANGED traceVars
    BY <1>4 DEF Rest, Rework, Sleeps, Rises, Delay, Resume
  <2>2. at'[Tracer] = at[Tracer] /\ \A u \in Loggers : at'[u] = "store" => at[u] = "store"
    BY <1>1, <2>1
  <2> QED BY <2>1, <2>2
      DEF TraceInv, BufferHeld, WhoPrints, ToPrint, Seen, TraceTypes, traceVars, uartVars
<1> QED BY <1>2, <1>3, <1>4 DEF LoggerStep

\* The trace thread.
LEMMA TracingKeeps ==
  ASSUME TraceParts, TraceStep
  PROVE  TraceInv'
<1>0. /\ owner \in [Locks -> Tasks \cup {Nobody}] /\ driver \in [Tasks -> DriverPlaces]
      /\ at = [u \in Tasks |-> at[u]]
      /\ TraceInv /\ WritesAreWhole
  BY DEF TraceParts, ConsoleInv, KInv, KernelTypeOK, DataTypes
<1> USE TerminalLocks, <1>0 DEF Goes
<1>1. Tracer \in Tasks /\ Tracer \notin Loggers /\ Loggers \subseteq Tasks /\ Tracer # Nobody
      /\ Nobody \notin Tasks
  BY TerminalAssumption, KernelAssumption
<1>2. ASSUME NEW p, at' = [at EXCEPT ![Tracer] = p]
      PROVE  at'[Tracer] = p /\ \A u \in Loggers : at'[u] = at[u]
  BY <1>1, <1>2
<1>3. wire = Tracer => driver[Tracer] = "sending"
  BY <1>1 DEF WritesAreWhole
<1>4. CASE Cycle \/ TraceRest \/ TraceRework
  <2>1. /\ at[Tracer] \in {"trace", "traced", "asleep"}
        /\ \E p \in {"claim", "traced", "asleep", "trace"} : at' = [at EXCEPT ![Tracer] = p]
        /\ UNCHANGED uartVars /\ UNCHANGED owner /\ UNCHANGED traceVars
        /\ driver[Tracer] = "idle"
    BY <1>4 DEF Cycle, TraceRest, TraceRework, Acts, Sleeps, Rises, Delay, Resume, kernelVars
  <2> QED BY <1>1, <1>2, <2>1
      DEF TraceInv, BufferHeld, WhoPrints, ToPrint, Seen, TraceTypes, TraceHolds, traceVars, uartVars
<1>5. CASE Claim
  <2>1. at[Tracer] = "claim" /\ driver[Tracer] = "idle" /\ UNCHANGED uartVars /\ UNCHANGED traceVars
    BY <1>5 DEF Claim, Acquires
  <2>2. CASE Take(Tracer, "buffer") /\ at' = [at EXCEPT ![Tracer] = "check"]
    <3>1. owner["buffer"] = Nobody /\ owner'["buffer"] = Tracer
      BY <2>2 DEF Take
    <3>2. \A u \in Loggers : at'[u] # "store"
      BY <1>1, <1>2, <2>2, <3>1 DEF TraceInv, BufferHeld
    <3> QED BY <1>1, <1>2, <2>1, <2>2, <3>1, <3>2
        DEF TraceInv, BufferHeld, WhoPrints, ToPrint, Seen, TraceTypes, TraceHolds, traceVars, uartVars
  <2>3. CASE Wait(Tracer, "buffer") /\ UNCHANGED at
    BY <2>1, <2>3, ElsewhereKeeps DEF Wait, uartVars
  <2> QED BY <1>5, <2>2, <2>3 DEF Claim, Acquires
<1>6. CASE Check \/ Printed
  <2>1. /\ \/ /\ at[Tracer] = "check"
              /\ \E p \in {"release", "print"} : at' = [at EXCEPT ![Tracer] = p]
           \/ /\ at[Tracer] = "printed"
              /\ \E p \in {"warn", "clear"} : at' = [at EXCEPT ![Tracer] = p]
        /\ UNCHANGED uartVars /\ UNCHANGED owner /\ UNCHANGED traceVars
        /\ driver[Tracer] = "idle"
    BY <1>6 DEF Check, Printed, Acts, kernelVars
  <2> QED BY <1>1, <1>2, <1>3, <2>1
      DEF TraceInv, BufferHeld, WhoPrints, ToPrint, Seen, TraceTypes, TraceHolds, traceVars, uartVars
<1>7. CASE PrintBuffer \/ Warn
  <2>1. /\ \/ at[Tracer] = "print" /\ at' = [at EXCEPT ![Tracer] = "printed"]
           \/ at[Tracer] = "warn" /\ at' = [at EXCEPT ![Tracer] = "warned"]
        /\ UNCHANGED owner /\ UNCHANGED traceVars /\ UNCHANGED wire /\ wire = Nobody
        /\ driver' = [driver EXCEPT ![Tracer] = "lock"]
    BY <1>7 DEF PrintBuffer, Warn, Prints, Write, Does, Moves, kernelVars
  <2>2. driver'[Tracer] = "lock" /\ \A u \in Loggers : driver'[u] = driver[u]
    BY <1>1, <2>1
  <2>3. /\ \/ at[Tracer] = "print" /\ at'[Tracer] = "printed"
           \/ at[Tracer] = "warn" /\ at'[Tracer] = "warned"
        /\ \A u \in Loggers : at'[u] = at[u]
    <3>1. CASE at[Tracer] = "print" /\ at' = [at EXCEPT ![Tracer] = "printed"]
      BY <1>1, <3>1
    <3>2. CASE at[Tracer] = "warn" /\ at' = [at EXCEPT ![Tracer] = "warned"]
      BY <1>1, <3>2
    <3> QED BY <2>1, <3>1, <3>2
  <2>4. BufferHeld'
    BY <2>1, <2>3 DEF TraceInv, BufferHeld, TraceHolds
  <2>5. WhoPrints'
    BY <2>2, <2>3 DEF TraceInv, WhoPrints
  <2>6. unseen' = unseen /\ m_u_buffer_usage' = m_u_buffer_usage /\ TraceTypes'
    BY <2>1 DEF TraceInv, TraceTypes, traceVars
  <2>7. CASE at[Tracer] = "print"
    <3>1. ToPrint /\ ToPrint'
      BY <2>2, <2>3, <2>7 DEF ToPrint
    <3>2. unseen = m_u_buffer_usage
      BY <3>1 DEF TraceInv, Seen
    <3>3. Seen'
      BY <2>6, <3>1, <3>2 DEF Seen
    <3> QED BY <2>4, <2>5, <2>6, <3>3 DEF TraceInv
  <2>8. CASE at[Tracer] = "warn"
    <3>1. ~ ToPrint /\ ~ ToPrint'
      BY <2>3, <2>8 DEF ToPrint
    <3>2. unseen = 0
      BY <3>1 DEF TraceInv, Seen
    <3>3. Seen'
      BY <2>6, <3>1, <3>2 DEF Seen
    <3> QED BY <2>4, <2>5, <2>6, <3>3 DEF TraceInv
  <2> QED BY <2>3, <2>7, <2>8
<1>8. CASE Warned
  <2>1. /\ at[Tracer] = "warned" /\ at' = [at EXCEPT ![Tracer] = "clear"]
        /\ UNCHANGED uartVars /\ UNCHANGED owner /\ driver[Tracer] = "idle"
        /\ m_u8_number_of_buffer_overflows' = 0 /\ UNCHANGED <<m_u_buffer_usage, unseen, damaged>>
    BY <1>8 DEF Warned, Acts, kernelVars
  <2>2. at'[Tracer] = "clear" /\ \A u \in Loggers : at'[u] = at[u]
    BY <1>1, <2>1
  <2>3. TraceTypes'
    BY <2>1, TerminalAssumption DEF TraceInv, TraceTypes
  <2>4. ~ ToPrint /\ ~ ToPrint'
    BY <2>1, <2>2 DEF ToPrint
  <2> QED BY <2>1, <2>2, <2>3, <2>4
      DEF TraceInv, BufferHeld, WhoPrints, Seen, TraceHolds, uartVars
<1>9. CASE Clear \/ Release
  <2>1. /\ \/ at[Tracer] = "clear" /\ m_u_buffer_usage' = 0
           \/ at[Tracer] = "release" /\ UNCHANGED m_u_buffer_usage
        /\ at' = [at EXCEPT ![Tracer] = "traced"]
        /\ UNCHANGED uartVars /\ driver[Tracer] = "idle"
        /\ UNCHANGED <<m_u8_number_of_buffer_overflows, unseen, damaged>>
    BY <1>9 DEF Clear, Release, traceVars
  <2>2. owner["buffer"] = Tracer
    BY <2>1 DEF TraceInv, BufferHeld, TraceHolds
  <2>3. \A u \in Loggers : at'[u] # "store"
    BY <1>1, <1>2, <2>1, <2>2 DEF TraceInv, BufferHeld
  <2>4. at'[Tracer] = "traced"
    BY <1>1, <2>1
  <2>5. TraceTypes'
    BY <2>1, TerminalAssumption DEF TraceInv, TraceTypes
  <2>6. unseen' = m_u_buffer_usage'
    BY <2>1, <1>3 DEF TraceInv, Seen, ToPrint
  <2> QED BY <2>1, <2>3, <2>4, <2>5, <2>6
      DEF TraceInv, BufferHeld, WhoPrints, ToPrint, Seen, TraceHolds, uartVars
<1> QED BY <1>4, <1>5, <1>6, <1>7, <1>8, <1>9 DEF TraceStep

-----------------------------------------------------------------------------
(* The theorems *)

LEMMA TerminalStarts == Init => TraceParts
<1> SUFFICES ASSUME Init PROVE TraceParts
  OBVIOUS
<1>1. at = [t \in Tasks |-> at[t]]
  BY DEF Init
<1>2. ConsoleInv
  BY <1>1, ConsoleStarts DEF Init
<1>3. at[Tracer] = "trace" /\ \A t \in Loggers : at[t] = "log"
  BY TerminalAssumption DEF Init
<1>4. /\ \A t \in Loggers \cup {Tracer} : driver[t] = "idle"
      /\ unseen = 0 /\ m_u_buffer_usage = 0 /\ m_u8_number_of_buffer_overflows = 0
      /\ damaged = FALSE
  BY TerminalAssumption DEF Init, UartInit
<1>5. TraceTypes
  <2>1. 0 \in 0 .. TRACE_BUFFER_LENGTH - 1 /\ 0 \in 0 .. OverflowModulus - 1
    BY TerminalAssumption
  <2>2. damaged \in BOOLEAN
    BY <1>4
  <2> QED BY <1>4, <2>1, <2>2 DEF TraceTypes
<1>6. BufferHeld /\ WhoPrints /\ Seen
  BY <1>3, <1>4 DEF BufferHeld, WhoPrints, Seen, ToPrint, TraceHolds
<1> QED BY <1>2, <1>5, <1>6 DEF TraceParts, TraceInv

\* Timers concern nobody's texts.
LEMMA TimersKeepTrace ==
  ASSUME TraceParts, NEW t \in Tasks, TimeIsOver(t) \/ TimeOut, UNCHANGED traceVars
  PROVE  TraceInv'
<1>1. UNCHANGED <<at, uartVars, owner>>
  BY DEF TimeIsOver, TimeOut, Expire
<1> QED BY <1>1, ElsewhereKeeps DEF TraceParts, uartVars

\* Every step of the program keeps the invariant.
LEMMA TerminalKeeps == TraceParts /\ [Next]_vars => TraceParts'
<1> SUFFICES ASSUME TraceParts, [Next]_vars PROVE TraceParts'
  OBVIOUS
<1> USE TerminalAssumption, ConsoleAssumption
<1>1. ASSUME NEW t \in Tasks, Thread(t), UNCHANGED traceVars PROVE TraceParts'
  <2>1. ConsoleInv'
    BY <1>1, ConsoleKeeps DEF TraceParts
  <2>2. TraceInv'
    BY <1>1, ConsoleElsewhere, DriverKeepsTrace DEF Thread
  <2> QED BY <2>1, <2>2 DEF TraceParts
<1>2. CASE TraceStep
  <2>1. ConsoleInv'
    BY <1>2, TraceIsCommon, CommonKeeps DEF TraceParts, ConsoleInv
  <2> QED BY <1>2, <2>1, TracingKeeps DEF TraceParts
<1>3. ASSUME NEW t \in Loggers, LoggerStep(t) PROVE TraceParts'
  <2>1. ConsoleInv'
    BY <1>3, LoggersAreCommon, CommonKeeps DEF TraceParts, ConsoleInv
  <2> QED BY <1>3, <2>1, LoggingKeeps DEF TraceParts
<1>4. ASSUME NEW t \in Tasks, TimeIsOver(t) \/ TimeOut, UNCHANGED traceVars PROVE TraceParts'
  <2>1. ConsoleInv'
    BY <1>4, ConsoleKeeps DEF TraceParts
  <2> QED BY <1>4, <2>1, TimersKeepTrace DEF TraceParts
<1>5. CASE Transmitted
  <2>1. ConsoleInv'
    BY <1>5, ConsoleKeeps DEF TraceParts, Transmitted
  <2> QED BY <1>5, <2>1, TransmittedKeeps DEF TraceParts
<1>6. CASE UNCHANGED vars
  <2>1. UNCHANGED terminalVars /\ UNCHANGED traceVars
    BY <1>6 DEF vars
  <2>2. KInv' /\ UNCHANGED <<at, owner, uartVars, consoleVars>>
    BY <2>1, InvariantKept DEF TraceParts, ConsoleInv, terminalVars, kernelVars
  <2>3. UartHeld' /\ FlagIsFresh' /\ WritesAreWhole'
    BY <2>2, AloneKeeps, DriverPart DEF TraceParts, DriverAlone, uartVars
  <2>4. DataTypes' /\ FlagTypes'
    BY <2>2 DEF TraceParts, ConsoleInv, DataTypes, FlagTypes, uartVars, consoleVars
  <2>5. TraceInv'
    BY <2>1, <2>2, ElsewhereKeeps DEF TraceParts, uartVars
  <2> QED BY <2>2, <2>3, <2>4, <2>5 DEF TraceParts, ConsoleInv
<1> QED BY <1>1, <1>2, <1>3, <1>4, <1>5, <1>6 DEF Next, Step, Timer

THEOREM TerminalInvHolds == Spec => []TraceParts
  BY TerminalStarts, TerminalKeeps, PTL DEF Spec

\* Type correctness of everything that prints.
THEOREM TerminalTypeCorrect == Spec => []TypeOK
<1>1. TraceParts => TypeOK
  <2> SUFFICES ASSUME TraceParts PROVE TypeOK
    OBVIOUS
  <2>1. ConsoleTypeOK
    BY TypesTogether DEF TraceParts, ConsoleInv, KInv
  <2>2. unseen \in 0 .. TRACE_BUFFER_LENGTH - 1
    BY TerminalAssumption DEF TraceParts, TraceInv, Seen, TraceTypes
  <2> QED BY <2>1, <2>2 DEF TypeOK, TraceParts, TraceInv, TraceTypes
<1> QED BY <1>1, TerminalInvHolds, PTL

\* A text that is on its way stays where it is until it is out, whoever prints, and the HAL
\* refuses none: the flag of one transmission never ends another.
THEOREM TextsAreWhole == Spec => []WritesAreWhole
<1>1. TraceParts => WritesAreWhole
  BY DEF TraceParts, ConsoleInv
<1> QED BY <1>1, TerminalInvHolds, PTL

\* The buffer of the trace is cleared when its content is out, and not before.
THEOREM TraceIsPrintedOnce == Spec => []TraceIsKept
<1>1. TraceParts => TraceIsKept
  BY DEF TraceParts, TraceInv, Seen, ToPrint, TraceIsKept
<1> QED BY <1>1, TerminalInvHolds, PTL

\* The tasks of the program use the kernel by its operations only, so that what is proved of
\* the kernel holds for them: mutexes pass priorities on, and no wakeup is lost.
THEOREM ProgramUsesKernel == Spec => KernelSpec
<1>1. Init => KernelInit
  BY DEF Init, UartInit
<1>2. TraceParts /\ [Next]_vars => [KernelNext]_kernelVars
  <2> SUFFICES ASSUME TraceParts, [Next]_vars PROVE [KernelNext]_kernelVars
    OBVIOUS
  <2> USE TerminalAssumption, ConsoleAssumption DEF TraceParts, ConsoleInv
  <2>1. ASSUME NEW t \in Tasks, Common(t) PROVE [KernelNext]_kernelVars
    BY <2>1, TerminalLocks, KernelStep DEF Common, Write, Does
  <2>2. ASSUME NEW t \in Tasks, Step(t) PROVE [KernelNext]_kernelVars
    <3>1. CASE Thread(t)
      BY <3>1, ConsoleUsesKernel, DriverUsesKernel DEF Thread, DriverStep, DataTypes
    <3>2. CASE TraceStep
      BY <2>1, <3>2, TraceIsCommon
    <3>3. CASE t \in Loggers /\ LoggerStep(t)
      BY <2>1, <3>3, LoggersAreCommon
    <3> QED BY <2>2, <3>1, <3>2, <3>3 DEF Step
  <2>3. ASSUME NEW t \in Tasks, TimeIsOver(t) \/ TimeOut PROVE [KernelNext]_kernelVars
    BY <2>3, TimersLeaveAlone
  <2>4. CASE Transmitted \/ UNCHANGED vars
    BY <2>4 DEF Transmitted, Interrupt, vars, terminalVars
  <2> QED BY <2>2, <2>3, <2>4 DEF Next, Timer
<1> QED BY <1>1, <1>2, TerminalInvHolds, PTL DEF Spec, KernelSpec
=============================================================================
