------------------------- MODULE KernelObjectsProofs -------------------------
(***************************************************************************)
(* The kernel objects for any tasks, objects and priorities, each by       *)
(* itself and as the programs of MCKernelObjects use them:                 *)
(*                                                                         *)
(*   - mutexes: whatever tasks do while they hold one, lists and tables    *)
(*     stay consistent and no waiter is forgotten; if tasks do not sleep   *)
(*     while they hold one and PRIO_MUTEX is above the priorities of the   *)
(*     program, there is one holder, it gets its own priority back, and    *)
(*     nobody ever waits;                                                  *)
(*   - message queues: tasks are in exactly one list, count agrees with    *)
(*     the list it counts, and no message strands beside a task that waits *)
(*     for it;                                                             *)
(*   - delays and timers: a task is in exactly one place, hardware_timer   *)
(*     counts every entry down exactly once per interrupt although the     *)
(*     list changes under its walk, and os_delay(n) ends in interrupt      *)
(*     number n + 1;                                                       *)
(*   - the bitmap and the switches of all of these programs.               *)
(***************************************************************************)
EXTENDS MCKernelObjects, PrioSchedProofs, FiniteSetTheorems

(***************************************************************************)
(* Mutexes                                                                 *)
(***************************************************************************)

(* The ready table holds the created tasks that neither wait nor sleep;    *)
(* the running task is one of them, unless os_delay is about to end in     *)
(* schedule().                                                             *)
MutexTableInv ==
    /\ WellFormed(ready, prio)
    /\ schedule_is_lock = FALSE
    /\ Idle \in created
    /\ ReadyTasks = created \ (MutexBlocked \cup asleep)
    /\ MutexBlocked \cap asleep = {}
    /\ MutexBlocked \cup asleep \subseteq created \ {Idle}
    /\ asleep # {} => Started
    /\ Started => /\ new_task \in created
                  /\ new_task \in ReadyTasks \/ at[new_task] = Trailing

MutexWaitInv ==
    /\ \A m \in Mutex : Distinct(mutex_list[m])
    /\ \A t \in Task, m \in Mutex : WaitsForMutex(t, m) => at[t] = InMutexGet(m)

(* NoStrandedWaiter, and the same of a mutex that is taken: a task that    *)
(* starts to wait finds somebody who will wake it.                         *)
OwnerInv ==
    \A m \in Mutex : ~enable[m] \/ mutex_list[m] # <<>> =>
        MutexWoken(m) # {} \/ \E t \in Task : Holds(t, m)

MutexInv == MutexTypeOK /\ MutexTableInv /\ MutexWaitInv /\ OwnerInv

-----------------------------------------------------------------------------
(* The places of a task are told apart.                                    *)
LEMMA MutexPlacesDiffer ==
    /\ User # Trailing
    /\ \A m : InMutexGet(m) # User /\ InMutexGet(m) # Trailing
    /\ \A m, z : InMutexGet(m) = InMutexGet(z) => m = z
BY DEF User, Trailing, InMutexGet

(* What holds in every state.                                              *)
LEMMA MutexInvFacts ==
    ASSUME MutexInv
    PROVE  /\ TableTypeOK /\ prio \in [Task -> Prio] /\ created \subseteq Task
           /\ WellFormed(ready, prio) /\ schedule_is_lock = FALSE
           /\ Members(ready) = created \ (MutexBlocked \cup asleep)
           /\ Idle \in Members(ready) /\ Idle \in Task
           /\ (Started => new_task \in Task)
           /\ at \in [Task -> MutexPlace] /\ enable \in [Mutex -> BOOLEAN]
           /\ copy_prio \in [Mutex -> Prio] /\ mutex_list \in [Mutex -> Seq(Task)]
           /\ holds \in [Task -> Seq(Mutex)] /\ base \in [Task -> Prio]
           /\ asleep \subseteq Task
BY IdleAssumption
   DEF MutexInv, MutexTypeOK, TableTypeOK, MutexTableInv, ReadyTasks

(* What the invariant says of the running task, unless os_delay is about   *)
(* to switch away from it.                                                 *)
LEMMA MutexRunningFacts ==
    ASSUME MutexInv, NEW t \in Task, Running(t), at[t] # Trailing
    PROVE  /\ t \in Members(ready) /\ t \in created
           /\ t \notin asleep /\ t \notin MutexBlocked
           /\ \A m \in Mutex : ~WaitsForMutex(t, m)
BY DEF MutexInv, MutexTableInv, Running, ReadyTasks, MutexBlocked

(* Appending a mutex to what a task holds.                                 *)
LEMMA HeldMore ==
    ASSUME NEW h \in [Task -> Seq(Mutex)], NEW t \in Task, NEW m \in Mutex,
           NEW g, g = [h EXCEPT ![t] = Append(@, m)]
    PROVE  /\ g \in [Task -> Seq(Mutex)] /\ Len(g[t]) = Len(h[t]) + 1
           /\ g[t][Len(h[t]) + 1] = m
           /\ \A i \in DOMAIN h[t] : g[t][i] = h[t][i]
           /\ DOMAIN g[t] = 1 .. Len(h[t]) + 1 /\ DOMAIN h[t] = 1 .. Len(h[t])
           /\ Len(h[t]) \in Nat
           /\ \A u \in Task : u # t => g[u] = h[u]
<1> DEFINE w == Append(h[t], m)
<1>1. h[t] \in Seq(Mutex) /\ g = [h EXCEPT ![t] = w]
  OBVIOUS
<1>2. /\ w \in Seq(Mutex) /\ Len(w) = Len(h[t]) + 1 /\ w[Len(h[t]) + 1] = m
      /\ \A i \in 1 .. Len(h[t]) : w[i] = h[t][i]
      /\ Len(h[t]) \in Nat /\ DOMAIN h[t] = 1 .. Len(h[t]) /\ DOMAIN w = 1 .. Len(h[t]) + 1
  BY <1>1, AppendProperties, LenProperties
<1> HIDE DEF w
<1> QED
  BY <1>1, <1>2

(* Taking the last mutex off what a task holds.                            *)
LEMMA HeldLess ==
    ASSUME NEW h \in [Task -> Seq(Mutex)], NEW t \in Task, h[t] # <<>>,
           NEW g, g = [h EXCEPT ![t] = SubSeq(@, 1, Len(@) - 1)]
    PROVE  /\ g \in [Task -> Seq(Mutex)]
           /\ Len(h[t]) \in Nat \ {0} /\ DOMAIN h[t] = 1 .. Len(h[t])
           /\ h[t][Len(h[t])] \in Mutex
           /\ DOMAIN g[t] = 1 .. Len(h[t]) - 1 /\ Len(g[t]) = Len(h[t]) - 1
           /\ \A i \in DOMAIN g[t] : g[t][i] = h[t][i]
           /\ \A u \in Task : u # t => g[u] = h[u]
<1> DEFINE n == Len(h[t])
           w == SubSeq(h[t], 1, n - 1)
<1>1. h[t] \in Seq(Mutex) /\ g = [h EXCEPT ![t] = w]
  OBVIOUS
<1>2. n \in Nat \ {0} /\ DOMAIN h[t] = 1 .. n /\ h[t][n] \in Mutex
  BY <1>1, LenProperties, EmptySeq
<1>3. w \in Seq(Mutex) /\ Len(w) = n - 1 /\ \A i \in 1 .. n - 1 : w[i] = h[t][i]
  BY <1>1, <1>2, SubSeqProperties
<1>4. DOMAIN w = 1 .. n - 1
  BY <1>3, LenProperties
<1> HIDE DEF w
<1> QED
  BY <1>1, <1>2, <1>3, <1>4

(* mutex_get adds its mutex to what the caller holds, and no other.        *)
LEMMA GotOne ==
    ASSUME holds \in [Task -> Seq(Mutex)], NEW t \in Task, NEW m \in Mutex,
           holds' = [holds EXCEPT ![t] = Append(@, m)]
    PROVE  /\ holds' \in [Task -> Seq(Mutex)]
           /\ \A u \in Task : \A z : Holds(u, z)' <=> Holds(u, z) \/ (u = t /\ z = m)
<1>1. /\ holds' \in [Task -> Seq(Mutex)]
      /\ holds'[t][Len(holds[t]) + 1] = m /\ Len(holds[t]) \in Nat
      /\ \A i \in DOMAIN holds[t] : holds'[t][i] = holds[t][i]
      /\ DOMAIN holds'[t] = 1 .. Len(holds[t]) + 1 /\ DOMAIN holds[t] = 1 .. Len(holds[t])
      /\ \A u \in Task : u # t => holds'[u] = holds[u]
  BY HeldMore
<1>2. ASSUME NEW z
      PROVE  (\E i \in DOMAIN holds'[t] : holds'[t][i] = z)
                <=> z = m \/ \E i \in DOMAIN holds[t] : holds[t][i] = z
  BY <1>1
<1>3. ASSUME NEW u \in Task, NEW z
      PROVE  Holds(u, z)' <=> Holds(u, z) \/ (u = t /\ z = m)
  <2>1. CASE u = t
    BY <1>2, <2>1 DEF Holds
  <2>2. CASE u # t
    <3>1. holds'[u] = holds[u]
      BY <1>1, <2>2
    <3> QED
      BY <2>2, <3>1 DEF Holds
  <2> QED
    BY <2>1, <2>2
<1> QED
  BY <1>1, <1>3

(* mutex_put takes its mutex off what the caller holds, and no other.      *)
LEMMA PutOne ==
    ASSUME holds \in [Task -> Seq(Mutex)], NEW t \in Task, holds[t] # <<>>,
           holds' = [holds EXCEPT ![t] = SubSeq(@, 1, Len(@) - 1)]
    PROVE  /\ holds' \in [Task -> Seq(Mutex)]
           /\ \A u \in Task : \A z : Holds(u, z)' => Holds(u, z)
           /\ \A u \in Task : \A z :
                 Holds(u, z) /\ ~(u = t /\ z = holds[t][Len(holds[t])]) => Holds(u, z)'
           /\ Len(holds[t]) \in Nat \ {0} /\ DOMAIN holds[t] = 1 .. Len(holds[t])
           /\ DOMAIN holds'[t] = 1 .. Len(holds[t]) - 1
           /\ \A i \in DOMAIN holds'[t] : holds'[t][i] = holds[t][i]
           /\ \A u \in Task : u # t => holds'[u] = holds[u]
<1>1. /\ holds' \in [Task -> Seq(Mutex)]
      /\ Len(holds[t]) \in Nat \ {0} /\ DOMAIN holds[t] = 1 .. Len(holds[t])
      /\ DOMAIN holds'[t] = 1 .. Len(holds[t]) - 1
      /\ \A i \in DOMAIN holds'[t] : holds'[t][i] = holds[t][i]
      /\ \A u \in Task : u # t => holds'[u] = holds[u]
  BY HeldLess
<1>2. ASSUME NEW z, NEW i \in DOMAIN holds'[t], holds'[t][i] = z
      PROVE  \E j \in DOMAIN holds[t] : holds[t][j] = z
  BY <1>1, <1>2
<1>3. ASSUME NEW z, z # holds[t][Len(holds[t])], NEW i \in DOMAIN holds[t], holds[t][i] = z
      PROVE  \E j \in DOMAIN holds'[t] : holds'[t][j] = z
  <2>1. i \in DOMAIN holds'[t]
    BY <1>1, <1>3
  <2> QED
    BY <1>1, <1>3, <2>1
<1>4. ASSUME NEW u \in Task, NEW z
      PROVE  /\ Holds(u, z)' => Holds(u, z)
             /\ Holds(u, z) /\ ~(u = t /\ z = holds[t][Len(holds[t])]) => Holds(u, z)'
  <2>1. CASE u = t
    BY <1>2, <1>3, <2>1 DEF Holds
  <2>2. CASE u # t
    <3>1. holds'[u] = holds[u]
      BY <1>1, <2>2
    <3> QED
      BY <2>2, <3>1 DEF Holds
  <2> QED
    BY <2>1, <2>2
<1> QED
  BY <1>1, <1>4

-----------------------------------------------------------------------------
(* A step that leaves the mutexes and their wait lists alone keeps the     *)
(* invariant if it keeps the tables and the running task's place in them.  *)
LEMMA UntouchedMutexesPreserve ==
    ASSUME MutexInv, UNCHANGED <<enable, copy_prio, mutex_list, holds, sleepers>>,
           base' \in [Task -> Prio],
           TableTypeOK', WellFormed(ready', prio'), schedule_is_lock' = FALSE,
           created \subseteq created', asleep' \subseteq created' \ {Idle},
           asleep' # {} => Started',
           Members(ready') = created' \ (MutexBlocked \cup asleep'),
           MutexBlocked \cap asleep' = {},
           at' \in [Task -> MutexPlace],
           \A t \in Task, m \in Mutex : at'[t] = InMutexGet(m) <=> at[t] = InMutexGet(m),
           Started' => /\ new_task' \in created'
                       /\ new_task' \in Members(ready') \/ at'[new_task'] = Trailing
    PROVE  MutexInv'
<1> USE DEF MutexInv
<1>1. /\ MutexBlocked' = MutexBlocked
      /\ \A t, m : WaitsForMutex(t, m)' <=> WaitsForMutex(t, m)
      /\ \A t, m : Holds(t, m)' <=> Holds(t, m)
      /\ \A m \in Mutex : MutexWoken(m)' = MutexWoken(m)
  BY DEF MutexBlocked, WaitsForMutex, Holds, MutexWoken
<1>2. MutexTypeOK'
  BY DEF MutexTypeOK, TableTypeOK
<1>3. MutexTableInv'
  BY <1>1 DEF MutexTableInv, ReadyTasks
<1>4. MutexWaitInv'
  BY <1>1 DEF MutexWaitInv
<1>5. OwnerInv'
  BY <1>1 DEF OwnerInv
<1> QED
  BY <1>2, <1>3, <1>4, <1>5

(* mutex_get of a free mutex: the caller goes to the head of the FIFO of   *)
(* the ceiling priority.                                                   *)
LEMMA GetFreePreserves ==
    ASSUME MutexInv, NEW t \in Task \ {Idle}, NEW m \in Mutex, MutexGetFree(t, m)
    PROVE  MutexInv'
<1>1. /\ Running(t) /\ at[t] = User
      /\ copy_prio' = [copy_prio EXCEPT ![m] = prio[t]]
      /\ ready' = InsertHead(Delete(ready, prio[t], t), PrioMutex, t)
      /\ prio' = [prio EXCEPT ![t] = PrioMutex]
      /\ enable' = [enable EXCEPT ![m] = FALSE]
      /\ holds' = [holds EXCEPT ![t] = Append(@, m)]
      /\ UNCHANGED <<created, new_task, schedule_is_lock, at, mutex_list, asleep, base,
                     sleepers>>
  BY DEF MutexGetFree, InUserCode
<1>2. /\ TableTypeOK /\ prio \in [Task -> Prio] /\ WellFormed(ready, prio)
      /\ holds \in [Task -> Seq(Mutex)] /\ copy_prio \in [Mutex -> Prio]
  BY MutexInvFacts
<1>3. t \in Members(ready)
  BY <1>1, MutexPlacesDiffer, MutexRunningFacts
<1>4. WellFormed(ready', prio') /\ Members(ready') = Members(ready)
  BY <1>1, <1>2, <1>3, MutexAssumption, RequeuePreserves
<1>5. /\ holds' \in [Task -> Seq(Mutex)]
      /\ \A u \in Task : \A z : Holds(u, z)' <=> Holds(u, z) \/ (u = t /\ z = m)
  BY <1>1, <1>2, GotOne
<1>6. /\ MutexBlocked' = MutexBlocked
      /\ \A u, z : WaitsForMutex(u, z)' <=> WaitsForMutex(u, z)
      /\ \A z : MutexWoken(z)' = MutexWoken(z)
  BY <1>1 DEF MutexBlocked, WaitsForMutex, MutexWoken
<1>7. MutexTypeOK'
  <2>1. prio' \in [Task -> Prio] /\ copy_prio' \in [Mutex -> Prio]
    BY <1>1, <1>2, MutexAssumption
  <2> QED
    BY <1>1, <1>2, <1>4, <1>5, <2>1 DEF MutexInv, MutexTypeOK, TableTypeOK, WellFormed
<1>8. MutexTableInv'
  BY <1>1, <1>4, <1>6 DEF MutexInv, MutexTableInv, ReadyTasks, Started
<1>9. MutexWaitInv'
  BY <1>1, <1>6 DEF MutexInv, MutexWaitInv
<1>10. OwnerInv'
  <2>1. ASSUME NEW z \in Mutex, z # m
        PROVE  enable'[z] = enable[z] /\ mutex_list'[z] = mutex_list[z]
    BY <1>1, <2>1, MutexInvFacts
  <2> QED
    BY <1>5, <1>6, <2>1 DEF MutexInv, OwnerInv
<1> QED
  BY <1>7, <1>8, <1>9, <1>10 DEF MutexInv

(* mutex_get of a mutex that is taken: the caller waits and another task   *)
(* runs.                                                                   *)
LEMMA MutexGetBlockPreserves ==
    ASSUME MutexInv, NEW t \in Task \ {Idle}, NEW m \in Mutex, MutexGetBlock(t, m)
    PROVE  MutexInv'
<1> DEFINE r == Delete(ready, prio[t], t)
           w == Append(mutex_list[m], t)
<1>1. /\ Running(t) /\ at[t] = User /\ ~enable[m]
      /\ mutex_list' = [mutex_list EXCEPT ![m] = w]
      /\ at' = [at EXCEPT ![t] = InMutexGet(m)]
      /\ ScheduleFrom(r)
      /\ UNCHANGED <<prio, created, schedule_is_lock, enable, copy_prio, asleep, holds,
                     base, sleepers>>
  BY DEF MutexGetBlock, InUserCode
<1>2. /\ t \in Members(ready) /\ t \in created /\ t \notin asleep /\ t \notin MutexBlocked
      /\ \A z \in Mutex : ~WaitsForMutex(t, z)
  BY <1>1, MutexPlacesDiffer, MutexRunningFacts
<1>3. /\ TableTypeOK /\ prio \in [Task -> Prio] /\ WellFormed(ready, prio)
      /\ schedule_is_lock = FALSE /\ new_task \in Task /\ Idle \in Members(ready)
      /\ Members(ready) = created \ (MutexBlocked \cup asleep)
      /\ at \in [Task -> MutexPlace] /\ mutex_list \in [Mutex -> Seq(Task)]
      /\ \A z \in Mutex : Distinct(mutex_list[z])
  BY <1>1, MutexInvFacts DEF Running, MutexInv, MutexWaitInv
<1>4. WellFormed(r, prio) /\ Members(r) = Members(ready) \ {t}
  BY <1>2, <1>3, DeletePreserves
<1> HIDE DEF r
<1>5. /\ WellFormed(ready', prio) /\ Members(ready') = Members(ready) \ {t}
      /\ new_task' \in Members(ready') /\ new_task' \in Task
  BY <1>1, <1>3, <1>4, SwitchGoesToReady
<1>6. /\ w \in Seq(Task) /\ Distinct(w)
      /\ \A u : InList(w, u) <=> u = t \/ InList(mutex_list[m], u)
  <2>1. mutex_list[m] \in Seq(Task) /\ Distinct(mutex_list[m]) /\ ~InList(mutex_list[m], t)
    BY <1>2, <1>3 DEF WaitsForMutex, InList
  <2> QED
    BY <2>1, AppendedList
<1> HIDE DEF w
<1>7. \A u, z : z \in Mutex =>
          (WaitsForMutex(u, z)' <=> WaitsForMutex(u, z) \/ (z = m /\ u = t))
  <2>1. \A z \in Mutex : \A u : InList(mutex_list'[z], u)
                             <=> InList(mutex_list[z], u) \/ (z = m /\ u = t)
    BY <1>1, <1>3, <1>6
  <2> QED
    BY <2>1 DEF WaitsForMutex, InList
<1>8. MutexBlocked' = MutexBlocked \cup {t}
  BY <1>7 DEF MutexBlocked
<1>9. \A z \in Mutex : MutexWoken(z)' = MutexWoken(z)
  BY <1>1, <1>3, <1>7, MutexPlacesDiffer DEF MutexWoken
<1>10. MutexTypeOK'
  <2>1. InMutexGet(m) \in MutexPlace
    BY DEF MutexPlace
  <2> QED
    BY <1>1, <1>3, <1>5, <1>6, <2>1 DEF MutexInv, MutexTypeOK, TableTypeOK, WellFormed
<1>11. MutexTableInv'
  <2>1. Members(ready') = created \ (MutexBlocked' \cup asleep)
    BY <1>3, <1>5, <1>8
  <2>2. new_task' \in created /\ Started'
    BY <1>3, <1>5, TaskAssumption DEF Started
  <2> QED
    BY <1>1, <1>2, <1>5, <1>8, <2>1, <2>2 DEF MutexInv, MutexTableInv, ReadyTasks
<1>12. MutexWaitInv'
  <2>1. \A z \in Mutex : Distinct(mutex_list'[z])
    BY <1>1, <1>3, <1>6
  <2>2. ASSUME NEW u \in Task, NEW z \in Mutex, WaitsForMutex(u, z)'
        PROVE  at'[u] = InMutexGet(z)
    BY <1>1, <1>2, <1>3, <1>7, <2>2 DEF MutexInv, MutexWaitInv
  <2> QED
    BY <2>1, <2>2 DEF MutexWaitInv
<1>13. OwnerInv'
  <2>1. \A u, z : Holds(u, z)' <=> Holds(u, z)
    BY <1>1 DEF Holds
  <2>2. \A z \in Mutex : z # m => mutex_list'[z] = mutex_list[z]
    BY <1>1, <1>3
  <2> QED
    BY <1>1, <1>9, <2>1, <2>2 DEF MutexInv, OwnerInv
<1> QED
  BY <1>10, <1>11, <1>12, <1>13 DEF MutexInv

(* mutex_get returns to a task that was woken.                             *)
LEMMA MutexGetReturnPreserves ==
    ASSUME MutexInv, NEW t \in Task \ {Idle}, NEW m \in Mutex, MutexGetReturn(t, m)
    PROVE  MutexInv'
<1>1. /\ Running(t) /\ at[t] = InMutexGet(m) /\ at' = [at EXCEPT ![t] = User]
      /\ holds' = [holds EXCEPT ![t] = Append(@, m)]
      /\ UNCHANGED <<ready, prio, created, new_task, schedule_is_lock, enable, copy_prio,
                     mutex_list, asleep, base, sleepers>>
  BY DEF MutexGetReturn
<1>2. /\ t \in Members(ready) /\ t \in created
      /\ \A z \in Mutex : ~WaitsForMutex(t, z)
  BY <1>1, MutexPlacesDiffer, MutexRunningFacts
<1>3. TableTypeOK /\ at \in [Task -> MutexPlace] /\ holds \in [Task -> Seq(Mutex)]
  BY MutexInvFacts
<1>4. /\ holds' \in [Task -> Seq(Mutex)]
      /\ \A u \in Task : \A z : Holds(u, z)' <=> Holds(u, z) \/ (u = t /\ z = m)
  BY <1>1, <1>3, GotOne
<1>5. /\ MutexBlocked' = MutexBlocked
      /\ \A u, z : WaitsForMutex(u, z)' <=> WaitsForMutex(u, z)
  BY <1>1 DEF MutexBlocked, WaitsForMutex
<1>6. \A z \in Mutex : z # m => MutexWoken(z)' = MutexWoken(z)
  BY <1>1, <1>3, <1>5, MutexPlacesDiffer DEF MutexWoken
<1>7. MutexTypeOK'
  BY <1>1, <1>3, <1>4 DEF MutexInv, MutexTypeOK, TableTypeOK, MutexPlace
<1>8. MutexTableInv'
  BY <1>1, <1>2, <1>5 DEF MutexInv, MutexTableInv, ReadyTasks, Started, Running
<1>9. MutexWaitInv'
  BY <1>1, <1>2, <1>3, <1>5 DEF MutexInv, MutexWaitInv
<1>10. OwnerInv'
  BY <1>1, <1>4, <1>6 DEF MutexInv, OwnerInv
<1> QED
  BY <1>7, <1>8, <1>9, <1>10 DEF MutexInv

(* mutex_put: the caller goes to the head of the FIFO of copy_prio and the *)
(* first waiter, if there is one, becomes ready.                           *)
LEMMA MutexPutPreserves ==
    ASSUME MutexInv, NEW t \in Task \ {Idle}, NEW m \in Mutex, MutexPut(t, m)
    PROVE  MutexInv'
<1> DEFINE p == copy_prio[m]
           lowered == InsertHead(Delete(ready, prio[t], t), p, t)
           u == Head(mutex_list[m])
<1>1. /\ Running(t) /\ at[t] = User
      /\ holds[t] # <<>> /\ m = holds[t][Len(holds[t])]
      /\ prio' = [prio EXCEPT ![t] = p]
      /\ enable' = [enable EXCEPT ![m] = TRUE]
      /\ holds' = [holds EXCEPT ![t] = SubSeq(@, 1, Len(@) - 1)]
      /\ at' = [at EXCEPT ![t] = Trailing]
      /\ UNCHANGED <<created, new_task, schedule_is_lock, copy_prio, asleep, base, sleepers>>
      /\ \/ mutex_list[m] = <<>> /\ ready' = lowered /\ UNCHANGED mutex_list
         \/ /\ mutex_list[m] # <<>>
            /\ ready' = InsertHead(lowered, prio[u], u)
            /\ mutex_list' = [mutex_list EXCEPT ![m] = Tail(@)]
  BY DEF MutexPut, InUserCode
<1>2. /\ TableTypeOK /\ prio \in [Task -> Prio] /\ WellFormed(ready, prio)
      /\ schedule_is_lock = FALSE /\ created \subseteq Task
      /\ Members(ready) = created \ (MutexBlocked \cup asleep)
      /\ at \in [Task -> MutexPlace] /\ mutex_list \in [Mutex -> Seq(Task)]
      /\ holds \in [Task -> Seq(Mutex)] /\ copy_prio \in [Mutex -> Prio]
      /\ enable \in [Mutex -> BOOLEAN]
      /\ \A z \in Mutex : Distinct(mutex_list[z])
  BY MutexInvFacts DEF MutexInv, MutexWaitInv
<1>3. /\ t \in Members(ready) /\ t \in created /\ t \notin asleep /\ t \notin MutexBlocked
      /\ \A z \in Mutex : ~WaitsForMutex(t, z)
  BY <1>1, MutexPlacesDiffer, MutexRunningFacts
<1>4. /\ p \in Prio /\ prio' \in [Task -> Prio]
      /\ WellFormed(lowered, prio') /\ Members(lowered) = Members(ready)
  <2>1. p \in Prio /\ prio' = [prio EXCEPT ![t] = p]
    BY <1>1, <1>2
  <2> HIDE DEF p
  <2>2. prio' \in [Task -> Prio]
    BY <1>2, <2>1
  <2> QED
    BY <1>2, <1>3, <2>1, <2>2, RequeuePreserves
<1>5. /\ holds' \in [Task -> Seq(Mutex)]
      /\ \A x \in Task : \A z : Holds(x, z)' => Holds(x, z)
      /\ \A x \in Task : \A z : Holds(x, z) /\ ~(x = t /\ z = m) => Holds(x, z)'
  BY <1>1, <1>2, PutOne
<1> HIDE DEF p, lowered
<1>6. CASE mutex_list[m] = <<>>
  <2>1. ready' = lowered /\ UNCHANGED mutex_list
    BY <1>1, <1>6
  <2>2. /\ MutexBlocked' = MutexBlocked
        /\ \A x, z : WaitsForMutex(x, z)' <=> WaitsForMutex(x, z)
    BY <2>1 DEF MutexBlocked, WaitsForMutex
  <2>3. \A z \in Mutex : MutexWoken(z)' = MutexWoken(z)
    BY <1>1, <1>2, <2>2, MutexPlacesDiffer DEF MutexWoken
  <2>4. MutexTypeOK'
    BY <1>1, <1>2, <1>4, <1>5, <2>1
       DEF MutexInv, MutexTypeOK, TableTypeOK, WellFormed, MutexPlace
  <2>5. MutexTableInv'
    BY <1>1, <1>3, <1>4, <2>1, <2>2 DEF MutexInv, MutexTableInv, ReadyTasks, Started, Running
  <2>6. MutexWaitInv'
    BY <1>1, <1>2, <1>3, <2>1, <2>2 DEF MutexInv, MutexWaitInv
  <2>7. OwnerInv'
    <3>1. \A z \in Mutex : enable'[z] = IF z = m THEN TRUE ELSE enable[z]
      BY <1>1, <1>2
    <3> QED
      BY <1>5, <1>6, <2>1, <2>3, <3>1 DEF MutexInv, OwnerInv
  <2> QED
    BY <2>4, <2>5, <2>6, <2>7 DEF MutexInv
<1>7. CASE mutex_list[m] # <<>>
  <2>1. /\ ready' = InsertHead(lowered, prio[u], u)
        /\ mutex_list' = [mutex_list EXCEPT ![m] = Tail(@)]
    BY <1>1, <1>7
  <2>2. /\ u \in Task /\ InList(mutex_list[m], u)
        /\ mutex_list' \in [Mutex -> Seq(Task)]
        /\ \A z \in Mutex : Distinct(mutex_list'[z])
        /\ \A z \in Mutex : \A x : InList(mutex_list'[z], x)
                               <=> InList(mutex_list[z], x) /\ ~(z = m /\ x = u)
        /\ \A z \in Mutex : z # m => mutex_list'[z] = mutex_list[z]
    <3> DEFINE w == Tail(mutex_list[m])
    <3>1. /\ u \in Task /\ InList(mutex_list[m], u) /\ w \in Seq(Task) /\ Distinct(w)
          /\ \A x : InList(w, x) <=> x # u /\ InList(mutex_list[m], x)
      BY <1>2, <1>7, TailList
    <3>2. mutex_list' = [mutex_list EXCEPT ![m] = w]
      BY <2>1
    <3> HIDE DEF w
    <3> QED
      BY <1>2, <3>1, <3>2
  <2> HIDE DEF u
  <2>3. /\ WaitsForMutex(u, m) /\ u \in MutexBlocked /\ at[u] = InMutexGet(m)
        /\ u \in created /\ u # Idle /\ u # t /\ u \notin asleep
        /\ \A z \in Mutex : WaitsForMutex(u, z) => z = m
    <3>1. WaitsForMutex(u, m)
      BY <2>2 DEF WaitsForMutex, InList
    <3>2. u \in MutexBlocked /\ at[u] = InMutexGet(m)
      BY <2>2, <3>1 DEF MutexBlocked, MutexInv, MutexWaitInv
    <3>3. u \in created /\ u # Idle /\ u \notin asleep
      BY <3>2 DEF MutexInv, MutexTableInv
    <3>4. \A z \in Mutex : WaitsForMutex(u, z) => z = m
      BY <2>2, <3>2, MutexPlacesDiffer DEF MutexInv, MutexWaitInv
    <3> QED
      BY <1>3, <3>1, <3>2, <3>3, <3>4
  <2>4. \A z \in Mutex : \A x : WaitsForMutex(x, z)' <=> WaitsForMutex(x, z) /\ ~(z = m /\ x = u)
    BY <2>2 DEF WaitsForMutex, InList
  <2>5. MutexBlocked' = MutexBlocked \ {u}
    BY <2>3, <2>4 DEF MutexBlocked
  <2>6. WellFormed(ready', prio') /\ Members(ready') = Members(ready) \cup {u}
    <3> DEFINE q == prio'
    <3>1. q[u] = prio[u] /\ u \notin Members(lowered)
      BY <1>1, <1>2, <1>4, <2>2, <2>3
    <3>2. q \in [Task -> Prio] /\ WellFormed(lowered, q)
      BY <1>4
    <3> HIDE DEF q
    <3>3. /\ WellFormed(InsertHead(lowered, q[u], u), q)
          /\ Members(InsertHead(lowered, q[u], u)) = Members(lowered) \cup {u}
      BY <2>2, <3>1, <3>2, InsertHeadPreserves
    <3> QED
      BY <1>4, <2>1, <3>1, <3>3 DEF q
  <2>7. /\ u \in MutexWoken(m)'
        /\ \A z \in Mutex : z # m => MutexWoken(z)' = MutexWoken(z)
    <3>1. u \in MutexWoken(m)'
      <4>1. at'[u] = InMutexGet(m)
        BY <1>1, <1>2, <2>2, <2>3
      <4>2. \A x \in Task : x \in MutexWoken(m)' <=>
                at'[x] = InMutexGet(m) /\ ~(WaitsForMutex(x, m) /\ x # u)
        BY <2>4 DEF MutexWoken
      <4> QED
        BY <2>2, <4>1, <4>2
    <3>2. \A z \in Mutex, x \in Task : z # m => (x \in MutexWoken(z)' <=> x \in MutexWoken(z))
      BY <1>1, <1>2, <2>4, MutexPlacesDiffer DEF MutexWoken
    <3> QED
      BY <2>2, <3>1, <3>2 DEF MutexWoken
  <2>8. MutexTypeOK'
    BY <1>1, <1>2, <1>4, <1>5, <2>2, <2>6
       DEF MutexInv, MutexTypeOK, TableTypeOK, WellFormed, MutexPlace
  <2>9. MutexTableInv'
    <3>1. Members(ready') = created \ (MutexBlocked' \cup asleep)
      BY <1>2, <2>3, <2>5, <2>6
    <3>2. Started' => new_task' = t /\ t \in Members(ready')
      BY <1>1, <1>3, <2>6 DEF Running
    <3> QED
      BY <1>1, <1>3, <2>5, <2>6, <3>1, <3>2
         DEF MutexInv, MutexTableInv, ReadyTasks, Started, Running
  <2>10. MutexWaitInv'
    BY <1>1, <1>2, <1>3, <2>2, <2>4 DEF MutexInv, MutexWaitInv
  <2>11. OwnerInv'
    <3>1. \A z \in Mutex : enable'[z] = IF z = m THEN TRUE ELSE enable[z]
      BY <1>1, <1>2
    <3> QED
      BY <1>5, <2>2, <2>7, <3>1 DEF MutexInv, OwnerInv
  <2> QED
    BY <2>8, <2>9, <2>10, <2>11 DEF MutexInv
<1> QED
  BY <1>6, <1>7

(* os_delay, up to its interrupt_enable: the caller leaves the ready table *)
(* and still runs.                                                         *)
LEMMA SleepPreserves ==
    ASSUME MutexInv, NEW t \in Task \ {Idle}, Sleep(t)
    PROVE  MutexInv'
<1>1. /\ Running(t) /\ at[t] = User
      /\ ready' = Delete(ready, prio[t], t) /\ asleep' = asleep \cup {t}
      /\ at' = [at EXCEPT ![t] = Trailing]
      /\ UNCHANGED <<prio, created, new_task, schedule_is_lock>>
      /\ UNCHANGED <<enable, copy_prio, mutex_list, holds, base, sleepers>>
  BY DEF Sleep, InUserCode, lockVars
<1>2. /\ t \in Members(ready) /\ t \in created /\ t \notin MutexBlocked
  BY <1>1, MutexPlacesDiffer, MutexRunningFacts
<1>3. /\ TableTypeOK /\ prio \in [Task -> Prio] /\ WellFormed(ready, prio)
      /\ schedule_is_lock = FALSE /\ at \in [Task -> MutexPlace] /\ base \in [Task -> Prio]
      /\ Members(ready) = created \ (MutexBlocked \cup asleep)
      /\ asleep \subseteq created \ {Idle} /\ MutexBlocked \cap asleep = {}
  BY MutexInvFacts DEF MutexInv, MutexTableInv
<1>4. WellFormed(ready', prio') /\ Members(ready') = Members(ready) \ {t}
  BY <1>1, <1>2, <1>3, DeletePreserves
<1>5. TableTypeOK'
  BY <1>1, <1>3, <1>4 DEF TableTypeOK, WellFormed
<1>6. /\ at' \in [Task -> MutexPlace]
      /\ \A u \in Task, m \in Mutex : at'[u] = InMutexGet(m) <=> at[u] = InMutexGet(m)
  BY <1>1, <1>3, MutexPlacesDiffer DEF MutexPlace
<1>7. Started' /\ new_task' \in created' /\ at'[new_task'] = Trailing
  BY <1>1, <1>2, <1>3 DEF Running, Started
<1> QED
  BY <1>1, <1>2, <1>3, <1>4, <1>5, <1>6, <1>7, UntouchedMutexesPreserve

(* The timer interrupt in which a delay ends.                              *)
LEMMA WakePreserves ==
    ASSUME MutexInv, NEW t \in Task \ {Idle}, Wake(t)
    PROVE  MutexInv'
<1> DEFINE r == InsertTail(ready, prio[t], t)
<1>1. /\ t \in asleep /\ asleep' = asleep \ {t} /\ ScheduleFrom(r)
      /\ UNCHANGED <<prio, created, schedule_is_lock, at>>
      /\ UNCHANGED <<enable, copy_prio, mutex_list, holds, base, sleepers>>
  BY DEF Wake, lockVars
<1>2. /\ TableTypeOK /\ prio \in [Task -> Prio] /\ WellFormed(ready, prio)
      /\ schedule_is_lock = FALSE /\ at \in [Task -> MutexPlace] /\ base \in [Task -> Prio]
      /\ Members(ready) = created \ (MutexBlocked \cup asleep) /\ Idle \in Members(ready)
      /\ asleep \subseteq created \ {Idle} /\ MutexBlocked \cap asleep = {}
      /\ new_task \in Task /\ created \subseteq Task
  BY <1>1, MutexInvFacts DEF MutexInv, MutexTableInv
<1>3. WellFormed(r, prio) /\ Members(r) = Members(ready) \cup {t}
  BY <1>1, <1>2, InsertTailPreserves
<1> HIDE DEF r
<1>4. /\ WellFormed(ready', prio) /\ Members(ready') = Members(ready) \cup {t}
      /\ new_task' \in Members(ready') /\ new_task' \in Task
  BY <1>1, <1>2, <1>3, SwitchGoesToReady
<1>5. TableTypeOK'
  BY <1>1, <1>2, <1>4 DEF TableTypeOK, WellFormed
<1>6. Started' /\ new_task' \in created' /\ new_task' \in Members(ready')
  BY <1>1, <1>2, <1>4, TaskAssumption DEF Started
<1>7. Members(ready') = created' \ (MutexBlocked \cup asleep')
  BY <1>1, <1>2, <1>4
<1> QED
  BY <1>1, <1>2, <1>4, <1>5, <1>6, <1>7, UntouchedMutexesPreserve

-----------------------------------------------------------------------------
(* system_init; mutexes are created free.                                  *)
LEMMA MutexInitEstablishesInv == MutexInit => MutexInv
<1> SUFFICES ASSUME MutexInit
             PROVE  MutexInv
  OBVIOUS
<1>1. /\ SchedTypeOK /\ WellFormed(ready, prio) /\ ReadyTasks = created
      /\ Idle \in created
  BY InitEstablishesInv DEF MutexInit, SchedInv, AllReady
<1>2. /\ at = [t \in Task |-> User] /\ schedule_is_lock = FALSE /\ new_task = NoTask
      /\ enable = [m \in Mutex |-> TRUE] /\ copy_prio = [m \in Mutex |-> 0]
      /\ mutex_list = [m \in Mutex |-> <<>>] /\ asleep = {} /\ base = prio
      /\ holds = [t \in Task |-> <<>>] /\ sleepers \in SleepHolding
  BY DEF MutexInit, SchedInit
<1>3. MutexBlocked = {} /\ \A t, m : m \in Mutex => ~WaitsForMutex(t, m)
  BY <1>2 DEF MutexBlocked, WaitsForMutex
<1>4. MutexTypeOK
  <2>1. 0 \in Prio
    BY PrioAssumption DEF Prio
  <2> QED
    BY <1>1, <1>2, <2>1, MutexAssumption, EmptySeq
       DEF MutexTypeOK, SchedTypeOK, TableTypeOK, MutexPlace
<1>5. MutexTableInv
  BY <1>1, <1>2, <1>3 DEF MutexTableInv, Started
<1>6. MutexWaitInv
  BY <1>2, <1>3 DEF MutexWaitInv, Distinct
<1>7. OwnerInv
  BY <1>2 DEF OwnerInv
<1> QED
  BY <1>4, <1>5, <1>6, <1>7 DEF MutexInv

(* Every step of the kernel with mutexes and sleeping tasks keeps the      *)
(* invariant.                                                              *)
LEMMA MutexNextPreservesInv == MutexInv /\ [MutexNext]_mutexVars => MutexInv'
<1> SUFFICES ASSUME MutexInv, [MutexNext]_mutexVars
             PROVE  MutexInv'
  OBVIOUS
<1>1. /\ TableTypeOK /\ WellFormed(ready, prio) /\ schedule_is_lock = FALSE
      /\ Idle \in Members(ready) /\ Members(ready) \subseteq created
      /\ Members(ready) = created \ (MutexBlocked \cup asleep)
      /\ at \in [Task -> MutexPlace] /\ base \in [Task -> Prio]
      /\ asleep \subseteq created \ {Idle} /\ MutexBlocked \subseteq created
      /\ MutexBlocked \cap asleep = {} /\ (asleep # {} => Started)
  BY MutexInvFacts DEF MutexInv, MutexTableInv
<1>2. CASE /\ Boot \/ Preempt \/ \E t \in Task : Schedule(t)
           /\ UNCHANGED <<enable, copy_prio, mutex_list, holds, sleepers, asleep>>
           /\ base' = base \/ base' = prio'
  <2>1. /\ TableTypeOK' /\ WellFormed(ready', prio') /\ schedule_is_lock' = FALSE
        /\ Members(ready') = Members(ready) \cup (created' \ created)
        /\ created \subseteq created'
        /\ Started' => new_task' \in Members(ready')
        /\ \/ at' = at
           \/ \E t \in Task : at[t] \in {User, Trailing} /\ at' = [at EXCEPT ![t] = User]
        /\ Started => Started'
    BY <1>1, <1>2, OwnStepsPreserve
  <2>2. /\ at' \in [Task -> MutexPlace]
        /\ \A t \in Task, m \in Mutex : at'[t] = InMutexGet(m) <=> at[t] = InMutexGet(m)
    BY <1>1, <2>1, MutexPlacesDiffer DEF MutexPlace
  <2>3. Members(ready') = created' \ (MutexBlocked \cup asleep') /\ asleep' \subseteq created'
        /\ asleep' \subseteq created' \ {Idle}
    BY <1>1, <1>2, <2>1
  <2>4. base' \in [Task -> Prio]
    BY <1>1, <1>2, <2>1 DEF TableTypeOK
  <2>5. asleep' # {} => Started'
    <3>1. (asleep # {} => Started) /\ asleep' = asleep
      BY <1>1, <1>2
    <3> QED
      BY <2>1, <3>1
  <2> QED
    BY <1>1, <1>2, <2>1, <2>2, <2>3, <2>4, <2>5, UntouchedMutexesPreserve
<1>3. ASSUME NEW t \in Task \ {Idle}, MutexCall(t)
      PROVE  MutexInv'
  BY <1>3, GetFreePreserves, MutexGetBlockPreserves, MutexGetReturnPreserves,
     MutexPutPreserves, SleepPreserves, WakePreserves DEF MutexCall
<1>4. CASE UNCHANGED mutexVars
  <2>1. /\ UNCHANGED <<ready, prio, created, new_task, schedule_is_lock, at>>
        /\ UNCHANGED <<enable, copy_prio, mutex_list, asleep, holds, base, sleepers>>
    BY <1>4 DEF mutexVars, schedVars
  <2>2. TableTypeOK' /\ (Started' <=> Started) /\ Members(ready') = Members(ready)
    BY <1>1, <2>1 DEF TableTypeOK, Started
  <2>3. Started => /\ new_task \in created
                   /\ new_task \in Members(ready) \/ at[new_task] = Trailing
    BY DEF MutexInv, MutexTableInv, ReadyTasks
  <2> QED
    BY <1>1, <2>1, <2>2, <2>3, UntouchedMutexesPreserve
<1> QED
  BY <1>2, <1>3, <1>4 DEF MutexNext, MutexBoot, lockVars

(* The invariant gives what the runs check.                                *)
LEMMA MutexInvIsSafe == MutexInv => MutexSafe
BY DEF MutexInv, MutexTableInv, MutexWaitInv, OwnerInv, MutexSafe, MutexPlacement,
       NoStrandedWaiter, BitmapExact, QueuedOnce, WellFormed, Distinct

(* Types, every task in exactly one place, an exact bitmap, and somebody   *)
(* who will wake every waiter, whether or not tasks sleep with a mutex.    *)
THEOREM MutexListsSafe == MutexSpec => []MutexSafe
BY MutexInvIsSafe, MutexInitEstablishesInv, MutexNextPreservesInv, PTL DEF MutexSpec

-----------------------------------------------------------------------------
(* PRIO_MUTEX is above the priorities of the program's tasks, as 1 is above*)
(* those with which the sources call task_create.                          *)
CeilingAbove == \A p \in UserPrio : PrioMutex < p

(* How the ceiling works while no task sleeps with a mutex: the holder is  *)
(* the running task and the only one at PRIO_MUTEX, so that no other task  *)
(* gets the CPU before it puts what it holds; copy_prio of its first mutex *)
(* is its own priority, that of each further one the ceiling.              *)
CeilingInv ==
    /\ \A t \in Task : at[t] \in {User, Trailing}
    /\ \A m \in Mutex : mutex_list[m] = <<>>
    /\ \A t \in Task : holds[t] # <<>> =>
          Running(t) /\ t \in created \ {Idle} /\ t \notin asleep
    /\ PriorityRestored
    /\ \A t \in Task : \A i \in DOMAIN holds[t] :
          copy_prio[holds[t][i]] = IF i = 1 THEN base[t] ELSE PrioMutex
    /\ \A t \in created \ {Idle} : base[t] \in UserPrio
    /\ base[Idle] = LowestPrio

CeilingIfAwake == ~sleepers => CeilingInv

(* Under the ceiling no task is in a wait list.                            *)
LEMMA NobodyBlocked ==
    ASSUME CeilingInv
    PROVE  MutexBlocked = {} /\ \A m \in Mutex : MutexWoken(m) = {}
BY MutexPlacesDiffer DEF CeilingInv, MutexBlocked, WaitsForMutex, MutexWoken

(* A task other than the holder is below the ceiling.                      *)
LEMMA OthersBelowCeiling ==
    ASSUME CeilingAbove, MutexInv, CeilingInv,
           NEW t \in Task, holds[t] # <<>>, NEW u \in created, u # t
    PROVE  PrioMutex < prio[u]
<1>1. holds[u] = <<>> /\ u \in Task /\ t \in created \ {Idle}
  BY MutexInvFacts DEF CeilingInv, Running
<1>2. prio[u] = base[u]
  BY <1>1 DEF CeilingInv, PriorityRestored
<1>3. PrioMutex < base[t] /\ base[t] \in Prio /\ PrioMutex \in Prio
  BY <1>1, MutexAssumption, UserPrioAssumption DEF CeilingInv, CeilingAbove
<1>4. CASE u = Idle
  BY <1>2, <1>3, <1>4, PrioAssumption DEF CeilingInv, LowestPrio, Prio
<1>5. CASE u # Idle
  BY <1>2, <1>5 DEF CeilingInv, CeilingAbove
<1> QED
  BY <1>4, <1>5

(* schedule() and the timer interrupt leave the CPU to the holder.         *)
LEMMA HolderKeepsCPU ==
    ASSUME CeilingAbove, MutexInv, CeilingInv, NEW r, WellFormed(r, prio),
           Members(r) \subseteq created, NEW t \in Task, holds[t] # <<>>,
           t \in Members(r), ScheduleFrom(r)
    PROVE  new_task = t /\ new_task' = t
<1>1. new_task = t /\ t \in created /\ prio \in [Task -> Prio]
  BY MutexInvFacts DEF CeilingInv, Running
<1>2. new_task' # new_task =>
         /\ new_task' \in Members(r)
         /\ \A x \in Members(r) : prio[new_task'] <= prio[x]
  BY <1>1, ScheduleFromPreserves
<1>3. prio[t] = PrioMutex /\ PrioMutex \in Prio
  BY <1>1, MutexAssumption DEF CeilingInv, PriorityRestored
<1>4. ASSUME new_task' # t
      PROVE  FALSE
  <2>1. new_task' \in created /\ prio[new_task'] <= PrioMutex
    BY <1>1, <1>2, <1>3, <1>4
  <2>2. PrioMutex < prio[new_task']
    BY <1>4, <2>1, OthersBelowCeiling
  <2>3. prio[new_task'] \in Prio
    BY <1>1, <2>1, MutexInvFacts
  <2> QED
    BY <1>3, <2>1, <2>2, <2>3, PrioAssumption DEF Prio
<1> QED
  BY <1>1, <1>4

(* A task asks for a mutex that nobody holds, itself included.             *)
LEMMA CeilingGetFree ==
    ASSUME MutexInv, CeilingInv, NEW t \in Task \ {Idle}, NEW m \in Mutex,
           MutexGetFree(t, m)
    PROVE  CeilingInv'
<1>1. /\ Running(t) /\ at[t] = User /\ ~Holds(t, m)
      /\ copy_prio' = [copy_prio EXCEPT ![m] = prio[t]]
      /\ prio' = [prio EXCEPT ![t] = PrioMutex]
      /\ holds' = [holds EXCEPT ![t] = Append(@, m)]
      /\ UNCHANGED <<created, new_task, at, mutex_list, asleep, base>>
  BY DEF MutexGetFree, InUserCode
<1>2. /\ prio \in [Task -> Prio] /\ holds \in [Task -> Seq(Mutex)]
      /\ copy_prio \in [Mutex -> Prio] /\ created \subseteq Task
  BY MutexInvFacts
<1>3. t \in created /\ t \notin asleep
  BY <1>1, MutexPlacesDiffer, MutexRunningFacts
<1>4. /\ holds'[t][Len(holds[t]) + 1] = m /\ Len(holds[t]) \in Nat
      /\ \A i \in DOMAIN holds[t] : holds'[t][i] = holds[t][i]
      /\ DOMAIN holds'[t] = 1 .. Len(holds[t]) + 1 /\ DOMAIN holds[t] = 1 .. Len(holds[t])
      /\ \A u \in Task : u # t => holds'[u] = holds[u]
      /\ holds' \in [Task -> Seq(Mutex)]
  BY <1>1, <1>2, HeldMore
<1>5. \A u \in Task : u # t => holds[u] = <<>>
  BY <1>1 DEF CeilingInv, Running
<1>6. holds'[t] # <<>>
  BY <1>4, EmptySeq, LenProperties
<1>7. \A u \in Task : holds'[u] # <<>> =>
         Running(u)' /\ u \in created' \ {Idle} /\ u \notin asleep'
  BY <1>1, <1>3, <1>4, <1>5 DEF Running, Started
<1>8. PriorityRestored'
  <2>1. ASSUME NEW u \in created
        PROVE  prio'[u] = IF holds'[u] = <<>> THEN base[u] ELSE PrioMutex
    BY <1>1, <1>2, <1>4, <1>6, <2>1 DEF CeilingInv, PriorityRestored
  <2> QED
    BY <1>1, <2>1 DEF PriorityRestored
<1>9. ASSUME NEW u \in Task, NEW i \in DOMAIN holds'[u]
      PROVE  copy_prio'[holds'[u][i]] = IF i = 1 THEN base[u] ELSE PrioMutex
  <2>1. CASE u # t
    BY <1>4, <1>5, <1>9, <2>1, EmptySeq, LenProperties
  <2>2. CASE u = t /\ i \in DOMAIN holds[t]
    <3>1. holds'[u][i] = holds[t][i] /\ holds[t][i] # m /\ holds[t][i] \in Mutex
      BY <1>1, <1>2, <1>4, <2>2, LenProperties DEF Holds
    <3>2. copy_prio'[holds[t][i]] = copy_prio[holds[t][i]]
      BY <1>1, <1>2, <3>1
    <3> QED
      BY <2>2, <3>1, <3>2 DEF CeilingInv
  <2>3. CASE u = t /\ i = Len(holds[t]) + 1
    <3>1. copy_prio'[holds'[u][i]] = prio[t]
      BY <1>1, <1>2, <1>4, <2>3
    <3>2. prio[t] = IF holds[t] = <<>> THEN base[t] ELSE PrioMutex
      BY <1>3 DEF CeilingInv, PriorityRestored
    <3>3. holds[t] = <<>> <=> Len(holds[t]) = 0
      BY <1>2, EmptySeq, LenProperties
    <3> QED
      BY <1>4, <2>3, <3>1, <3>2, <3>3
  <2> QED
    BY <1>4, <1>9, <2>1, <2>2, <2>3
<1> QED
  BY <1>1, <1>7, <1>8, <1>9 DEF CeilingInv

(* The holder puts the mutex it got last and has the priority of before.   *)
LEMMA CeilingPut ==
    ASSUME MutexInv, CeilingInv, NEW t \in Task \ {Idle}, NEW m \in Mutex, MutexPut(t, m)
    PROVE  CeilingInv'
<1>1. /\ Running(t) /\ at[t] = User
      /\ holds[t] # <<>> /\ m = holds[t][Len(holds[t])]
      /\ prio' = [prio EXCEPT ![t] = copy_prio[m]]
      /\ holds' = [holds EXCEPT ![t] = SubSeq(@, 1, Len(@) - 1)]
      /\ at' = [at EXCEPT ![t] = Trailing]
      /\ UNCHANGED <<created, new_task, copy_prio, asleep, base>>
  BY DEF MutexPut, InUserCode
<1>2. UNCHANGED mutex_list
  BY DEF MutexPut, CeilingInv
<1>3. /\ prio \in [Task -> Prio] /\ holds \in [Task -> Seq(Mutex)]
      /\ created \subseteq Task /\ at \in [Task -> MutexPlace]
  BY MutexInvFacts
<1>4. /\ holds' \in [Task -> Seq(Mutex)]
      /\ Len(holds[t]) \in Nat \ {0} /\ DOMAIN holds[t] = 1 .. Len(holds[t])
      /\ DOMAIN holds'[t] = 1 .. Len(holds[t]) - 1
      /\ \A i \in DOMAIN holds'[t] : holds'[t][i] = holds[t][i]
      /\ \A u \in Task : u # t => holds'[u] = holds[u]
  <2>1. holds \in [Task -> Seq(Mutex)] /\ holds[t] # <<>> /\ t \in Task
    BY <1>1, <1>3
  <2>2. holds' = [holds EXCEPT ![t] = SubSeq(@, 1, Len(@) - 1)]
    BY <1>1
  <2> QED
    BY <2>1, <2>2, PutOne
<1>5. \A u \in Task : u # t => holds[u] = <<>>
  BY <1>1 DEF CeilingInv, Running
<1>6. \A u \in Task : holds'[u] # <<>> =>
         Running(u)' /\ u \in created' \ {Idle} /\ u \notin asleep'
  BY <1>1, <1>4, <1>5 DEF CeilingInv, Running, Started
<1>7. copy_prio[m] = IF Len(holds[t]) = 1 THEN base[t] ELSE PrioMutex
  BY <1>1, <1>4 DEF CeilingInv
<1>8. holds'[t] = <<>> <=> Len(holds[t]) = 1
  <2>1. holds'[t] \in Seq(Mutex)
    BY <1>4
  <2>2. holds'[t] = <<>> <=> Len(holds'[t]) = 0
    BY <2>1, EmptySeq
  <2>3. Len(holds'[t]) = 0 <=> 1 \notin DOMAIN holds'[t]
    BY <2>1, LenProperties
  <2>4. Len(holds[t]) = 1 <=> 1 \notin DOMAIN holds'[t]
    <3> DEFINE n == Len(holds[t])
    <3>1. n \in Nat \ {0} /\ DOMAIN holds'[t] = 1 .. n - 1
      BY <1>4
    <3> HIDE DEF n
    <3>2. 1 \in 1 .. n - 1 <=> n # 1
      BY <3>1
    <3> QED
      BY <3>1, <3>2 DEF n
  <2> QED
    BY <2>2, <2>3, <2>4
<1>9. PriorityRestored'
  <2>1. ASSUME NEW u \in created
        PROVE  prio'[u] = IF holds'[u] = <<>> THEN base[u] ELSE PrioMutex
    BY <1>1, <1>3, <1>4, <1>7, <1>8, <2>1 DEF CeilingInv, PriorityRestored
  <2> QED
    BY <1>1, <2>1 DEF PriorityRestored
<1>10. ASSUME NEW u \in Task, NEW i \in DOMAIN holds'[u]
       PROVE  copy_prio'[holds'[u][i]] = IF i = 1 THEN base[u] ELSE PrioMutex
  <2>1. i \in DOMAIN holds[u] /\ holds'[u][i] = holds[u][i]
    BY <1>4, <1>10
  <2> QED
    BY <1>1, <2>1 DEF CeilingInv
<1>11. \A u \in Task : at'[u] \in {User, Trailing}
  BY <1>1, <1>3 DEF CeilingInv
<1> QED
  BY <1>1, <1>2, <1>6, <1>9, <1>10, <1>11 DEF CeilingInv

(* Tasks are created before the start, when nobody holds anything.         *)
LEMMA CeilingBoot ==
    ASSUME MutexInv, CeilingInv, MutexBoot
    PROVE  CeilingInv'
<1>1. /\ UNCHANGED <<enable, copy_prio, mutex_list, asleep, holds, at>> /\ base' = prio'
      /\ ~Started
  BY DEF MutexBoot, Boot, TaskCreate, StartWhichTask
<1>2. \A u \in Task : holds[u] = <<>>
  BY <1>1 DEF CeilingInv, Running
<1>3. \A u \in Task : \A i \in DOMAIN holds[u] : FALSE
  BY <1>2
<1>4. prio \in [Task -> Prio] /\ created \subseteq Task /\ Idle \in created
  BY MutexInvFacts DEF MutexInv, MutexTableInv
<1>5. /\ \A u \in created : prio[u] = base[u]
      /\ \A u \in created \ {Idle} : prio[u] \in UserPrio
      /\ prio[Idle] = LowestPrio
  BY <1>2, <1>4 DEF CeilingInv, PriorityRestored
<1>6. /\ \A u \in created' \ {Idle} : prio'[u] \in UserPrio
      /\ prio'[Idle] = LowestPrio /\ created' \subseteq Task
  <2>1. ASSUME NEW t \in Task \ {Idle}, NEW p \in UserPrio, TaskCreate(t, p)
        PROVE  /\ \A u \in created' \ {Idle} : prio'[u] \in UserPrio
               /\ prio'[Idle] = LowestPrio /\ created' \subseteq Task
    BY <1>4, <1>5, <2>1 DEF TaskCreate
  <2>2. CASE StartWhichTask(Idle)
    BY <1>4, <1>5, <2>2 DEF StartWhichTask
  <2> QED
    BY <2>1, <2>2 DEF MutexBoot, Boot
<1>7. PriorityRestored'
  <2>1. \A u \in created' : prio'[u] = IF holds'[u] = <<>> THEN base'[u] ELSE PrioMutex
    BY <1>1, <1>2, <1>6
  <2> QED
    BY <2>1 DEF PriorityRestored
<1>8. /\ \A u \in Task : holds'[u] = <<>>
      /\ \A u \in Task : \A i \in DOMAIN holds'[u] : FALSE
      /\ \A u \in Task : at'[u] \in {User, Trailing}
      /\ \A m \in Mutex : mutex_list'[m] = <<>>
  BY <1>1, <1>2, <1>3 DEF CeilingInv
<1> QED
  BY <1>1, <1>6, <1>7, <1>8 DEF CeilingInv

(* A step that leaves mutexes and priorities alone keeps the ceiling if    *)
(* the holder keeps the CPU and stays awake.                               *)
LEMMA CeilingUntouched ==
    ASSUME CeilingInv, UNCHANGED <<prio, created, copy_prio, mutex_list, holds, base>>,
           \A t \in Task : at'[t] \in {User, Trailing},
           \A t \in Task : holds[t] # <<>> => new_task' = t /\ t \notin asleep'
    PROVE  CeilingInv'
<1>1. PriorityRestored'
  BY DEF CeilingInv, PriorityRestored
<1>2. \A t \in Task : holds'[t] # <<>> =>
         Running(t)' /\ t \in created' \ {Idle} /\ t \notin asleep'
  BY DEF CeilingInv, Running, Started
<1> QED
  BY <1>1, <1>2 DEF CeilingInv

(* While nobody sleeps with a mutex, every step keeps the ceiling.         *)
LEMMA CeilingNext ==
    ASSUME CeilingAbove, MutexInv, CeilingIfAwake, [MutexNext]_mutexVars
    PROVE  CeilingIfAwake'
<1> SUFFICES ASSUME ~sleepers, CeilingInv
             PROVE  CeilingInv'
  <2>1. sleepers' = sleepers
    BY DEF MutexNext, MutexBoot, MutexCall, MutexGetFree, MutexGetBlock, MutexGetReturn,
           MutexPut, Sleep, Wake, lockVars, mutexVars
  <2> QED
    BY <2>1 DEF CeilingIfAwake
<1>1. /\ WellFormed(ready, prio) /\ prio \in [Task -> Prio] /\ created \subseteq Task
      /\ Members(ready) = created \ asleep /\ asleep \subseteq created
      /\ MutexBlocked = {} /\ \A m \in Mutex : MutexWoken(m) = {}
      /\ at \in [Task -> MutexPlace]
  BY MutexInvFacts, NobodyBlocked DEF MutexInv, MutexTableInv
<1>2. \A t \in Task : holds[t] # <<>> =>
         new_task = t /\ t \in Members(ready) /\ t \notin asleep
  BY <1>1 DEF CeilingInv, Running
<1>3. ASSUME Preempt \/ \E t \in Task : Schedule(t), UNCHANGED <<asleep, lockVars>>
      PROVE  CeilingInv'
  <2>1. /\ ScheduleFrom(ready) /\ UNCHANGED <<prio, created>>
        /\ UNCHANGED <<copy_prio, mutex_list, holds, base, asleep>>
        /\ at' = at \/ \E t \in Task : at' = [at EXCEPT ![t] = User]
    BY <1>3 DEF Preempt, Schedule, lockVars
  <2>2. \A t \in Task : holds[t] # <<>> => new_task' = t
    BY <1>1, <1>2, <2>1, HolderKeepsCPU
  <2>3. \A t \in Task : at'[t] \in {User, Trailing}
    BY <1>1, <2>1 DEF CeilingInv
  <2> QED
    BY <1>2, <2>1, <2>2, <2>3, CeilingUntouched
<1>4. ASSUME NEW t \in Task, NEW m \in Mutex, MutexGetBlock(t, m)
      PROVE  FALSE
  <2>1. Running(t) /\ ~Holds(t, m) /\ ~enable[m]
    BY <1>4 DEF MutexGetBlock, InUserCode
  <2>2. PICK u \in Task : Holds(u, m)
    BY <1>1, <2>1 DEF MutexInv, OwnerInv
  <2>3. holds[u] # <<>>
    BY <2>2 DEF Holds
  <2> QED
    BY <1>2, <2>1, <2>2, <2>3 DEF Running
<1>5. ASSUME NEW t \in Task, NEW m \in Mutex, MutexGetReturn(t, m)
      PROVE  FALSE
  BY <1>5, MutexPlacesDiffer DEF MutexGetReturn, CeilingInv
<1>6. ASSUME NEW t \in Task, Sleep(t)
      PROVE  CeilingInv'
  <2>1. /\ Running(t) /\ holds[t] = <<>> /\ asleep' = asleep \cup {t}
        /\ at' = [at EXCEPT ![t] = Trailing]
        /\ UNCHANGED <<prio, created, new_task, copy_prio, mutex_list, holds, base>>
    BY <1>6 DEF Sleep, InUserCode, lockVars
  <2>2. \A u \in Task : holds[u] = <<>>
    BY <1>2, <2>1 DEF Running
  <2>3. \A u \in Task : at'[u] \in {User, Trailing}
    BY <1>1, <2>1 DEF CeilingInv
  <2> QED
    BY <2>1, <2>2, <2>3, CeilingUntouched
<1>7. ASSUME NEW t \in Task, Wake(t)
      PROVE  CeilingInv'
  <2> DEFINE r == InsertTail(ready, prio[t], t)
  <2>1. /\ t \in asleep /\ asleep' = asleep \ {t} /\ ScheduleFrom(r)
        /\ UNCHANGED <<prio, created, at, copy_prio, mutex_list, holds, base>>
    BY <1>7 DEF Wake, lockVars
  <2>2. WellFormed(r, prio) /\ Members(r) = Members(ready) \cup {t}
    BY <1>1, <2>1, InsertTailPreserves
  <2> HIDE DEF r
  <2>3. Members(r) \subseteq created
    BY <1>1, <2>1, <2>2
  <2>4. \A u \in Task : holds[u] # <<>> => new_task' = u /\ u \notin asleep'
    BY <1>2, <2>1, <2>2, <2>3, HolderKeepsCPU
  <2>5. \A u \in Task : at'[u] \in {User, Trailing}
    BY <2>1 DEF CeilingInv
  <2> QED
    BY <2>1, <2>4, <2>5, CeilingUntouched
<1>8. CASE UNCHANGED mutexVars
  <2>1. UNCHANGED <<prio, created, new_task, at, copy_prio, mutex_list, holds, base, asleep>>
    BY <1>8 DEF mutexVars, schedVars
  <2>2. \A u \in Task : at'[u] \in {User, Trailing}
    BY <2>1 DEF CeilingInv
  <2> QED
    BY <1>2, <2>1, <2>2, CeilingUntouched
<1> QED
  BY <1>3, <1>4, <1>5, <1>6, <1>7, <1>8, CeilingBoot, CeilingGetFree, CeilingPut
     DEF MutexNext, MutexCall

(* system_init.                                                            *)
LEMMA CeilingInit == MutexInit => CeilingIfAwake
<1> SUFFICES ASSUME MutexInit
             PROVE  CeilingInv
  BY DEF CeilingIfAwake
<1>1. /\ at = [t \in Task |-> User] /\ prio = [t \in Task |-> LowestPrio]
      /\ created = {Idle} /\ mutex_list = [m \in Mutex |-> <<>>]
      /\ holds = [t \in Task |-> <<>>] /\ base = prio
  BY DEF MutexInit, SchedInit
<1>2. \A t \in Task : holds[t] = <<>>
  BY <1>1
<1>3. \A t \in Task : \A i \in DOMAIN holds[t] : FALSE
  BY <1>2
<1> QED
  BY <1>1, <1>2, <1>3, IdleAssumption DEF CeilingInv, PriorityRestored

(* The ceiling works: no two tasks are in the critical region of a mutex,  *)
(* whoever puts its mutexes has its own priority back, and the blocking    *)
(* branch of mutex_get is never taken.                                     *)
THEOREM CeilingHolds ==
    ASSUME CeilingAbove
    PROVE  MutexSpec => []CeilingWorks
<1>1. MutexInv /\ CeilingIfAwake => CeilingWorks
  <2> SUFFICES ASSUME CeilingInv
               PROVE  MutualExclusion /\ PriorityRestored /\ NobodyWaits
    BY DEF CeilingIfAwake, CeilingWorks
  <2>1. \A t \in Task, m \in Mutex : Holds(t, m) => holds[t] # <<>>
    BY DEF Holds
  <2> QED
    BY <2>1 DEF CeilingInv, MutualExclusion, NobodyWaits, Running
<1>2. MutexInit => MutexInv /\ CeilingIfAwake
  BY MutexInitEstablishesInv, CeilingInit
<1>3. MutexInv /\ CeilingIfAwake /\ [MutexNext]_mutexVars => (MutexInv /\ CeilingIfAwake)'
  BY MutexNextPreservesInv, CeilingNext
<1> QED
  BY <1>1, <1>2, <1>3, PTL DEF MutexSpec

-----------------------------------------------------------------------------
(***************************************************************************)
(* Message queues                                                          *)
(***************************************************************************)

(* The ready table holds the created tasks that do not wait.  The running  *)
(* task is one of them, except between the interrupt_enable of msg_get and *)
(* the schedule() behind it.                                               *)
MsgTableInv ==
    /\ WellFormed(ready, prio)
    /\ schedule_is_lock = FALSE
    /\ ReadyTasks = created \ MsgBlocked
    /\ MsgBlocked \subseteq created
    /\ Idle \in created
    /\ Started => /\ new_task \in created
                  /\ \/ new_task \in ReadyTasks
                     \/ \E q \in Queue : at[new_task] = InMsgGet(q)

(* The wait lists hold tasks that are inside msg_get.                      *)
MsgWaitInv ==
    /\ \A q \in Queue : Distinct(msg_list[q])
    /\ \A t \in Task, q \in Queue :
          WaitsForMsg(t, q) => at[t] \in {InMsgGet(q), Switched(q)}
    /\ at[Idle] \in {User, Trailing}

(* CountIsLength, split into what one queue and what two queues say.       *)
MessagesInv ==
    /\ \A q \in Queue : count[q] = Len(msgs[q]) /\ Distinct(msgs[q])
    /\ \A q, p \in Queue, m \in Msg :
          InList(msgs[q], m) /\ InList(msgs[p], m) => q = p

MsgInv == MsgTypeOK /\ MsgTableInv /\ MsgWaitInv /\ MessagesInv /\ NoStrandedMessage

-----------------------------------------------------------------------------
(* The places of a task are told apart.                                    *)
LEMMA MsgPlacesDiffer ==
    /\ User # Trailing
    /\ \A q : /\ InMsgGet(q) \notin {User, Trailing}
              /\ Switched(q) \notin {User, Trailing}
              /\ Again(q) \notin {User, Trailing}
    /\ \A q, p : /\ InMsgGet(q) # Switched(p) /\ InMsgGet(q) # Again(p)
                 /\ Switched(q) # Again(p)
                 /\ InMsgGet(q) = InMsgGet(p) => q = p
                 /\ Switched(q) = Switched(p) => q = p
                 /\ Again(q) = Again(p) => q = p
BY DEF User, Trailing, InMsgGet, Switched, Again

(* Tasks are finitely many, so those on their way back can be counted.     *)
LEMMA ReturningFinite ==
    ASSUME NEW q \in Queue
    PROVE  IsFiniteSet(MsgReturning(q)) /\ Cardinality(MsgReturning(q)) \in Nat
BY FiniteGetters, FS_Subset, FS_CardinalityType DEF MsgReturning

(* What the invariant says of the running task, unless it has just blocked.*)
LEMMA MsgRunningFacts ==
    ASSUME MsgInv, NEW t \in Task, Running(t), \A q \in Queue : at[t] # InMsgGet(q)
    PROVE  /\ t \in ReadyTasks /\ t \notin MsgBlocked /\ t \in created
           /\ \A q \in Queue : ~WaitsForMsg(t, q)
BY DEF MsgInv, MsgTableInv, Running, MsgBlocked

(* What holds in every state.                                              *)
LEMMA MsgInvFacts ==
    ASSUME MsgInv
    PROVE  /\ TableTypeOK /\ prio \in [Task -> Prio] /\ created \subseteq Task
           /\ WellFormed(ready, prio) /\ schedule_is_lock = FALSE
           /\ Members(ready) = created \ MsgBlocked
           /\ Idle \in Members(ready) /\ Idle \in Task
           /\ (Started => new_task \in Task)
           /\ at \in [Task -> MsgPlace] /\ msgs \in [Queue -> Seq(Msg)]
           /\ DOMAIN count = Queue /\ \A q \in Queue : count[q] \in 0 .. Length[q]
           /\ msg_list \in [Queue -> Seq(Task)]
BY MsgPlacesDiffer, IdleAssumption
   DEF MsgInv, MsgTypeOK, TableTypeOK, MsgTableInv, MsgWaitInv, ReadyTasks, MsgBlocked

-----------------------------------------------------------------------------
(* The second half of msg_put: the message is stored at either end, or     *)
(* dropped when the queue is full.                                         *)
LEMMA StoreKeepsMessages ==
    ASSUME MsgInv, NEW q \in Queue, NEW m \in Msg, ~InAnyQueue(m), NEW method,
           IF count[q] = Length[q]
           THEN UNCHANGED <<count, msgs>>
           ELSE /\ count' = [count EXCEPT ![q] = @ + 1]
                /\ msgs' = [msgs EXCEPT ![q] = IF method = "FIFO" THEN Append(@, m)
                                               ELSE PushFront(@, m)]
    PROVE  /\ msgs' \in [Queue -> Seq(Msg)]
           /\ DOMAIN count' = Queue /\ \A z \in Queue : count'[z] \in 0 .. Length[z]
           /\ MessagesInv'
           /\ \A z \in Queue : z # q => msgs'[z] = msgs[z]
           /\ Len(msgs'[q]) <= Len(msgs[q]) + 1
<1>1. /\ msgs \in [Queue -> Seq(Msg)] /\ DOMAIN count = Queue
      /\ \A z \in Queue : /\ count[z] \in 0 .. Length[z] /\ Length[z] \in Nat
                          /\ count[z] = Len(msgs[z]) /\ Distinct(msgs[z])
                          /\ Len(msgs[z]) \in Nat
      /\ \A z, p \in Queue, x \in Msg : InList(msgs[z], x) /\ InList(msgs[p], x) => z = p
  BY MsgInvFacts, QueueAssumption, LenProperties DEF MsgInv, MessagesInv
<1>2. CASE count[q] = Length[q]
  BY <1>1, <1>2 DEF MessagesInv
<1>3. CASE count[q] # Length[q]
  <2>1. \A z \in Queue : ~InList(msgs[z], m)
    BY DEF InAnyQueue, InList
  <2>2. /\ msgs' \in [Queue -> Seq(Msg)] /\ Len(msgs'[q]) = Len(msgs[q]) + 1
        /\ \A z \in Queue : Distinct(msgs'[z])
        /\ \A z \in Queue : z # q => msgs'[z] = msgs[z]
        /\ \A z \in Queue : \A x :
              InList(msgs'[z], x) <=> InList(msgs[z], x) \/ (z = q /\ x = m)
    <3>1. CASE method = "FIFO"
      <4> DEFINE w == Append(msgs[q], m)
      <4>1. /\ w \in Seq(Msg) /\ Len(w) = Len(msgs[q]) + 1 /\ Distinct(w)
            /\ \A x : InList(w, x) <=> x = m \/ InList(msgs[q], x)
        <5>1. msgs[q] \in Seq(Msg) /\ Distinct(msgs[q]) /\ ~InList(msgs[q], m)
          BY <1>1, <2>1
        <5> QED
          BY <5>1, AppendedList
      <4>2. msgs' = [msgs EXCEPT ![q] = w]
        BY <1>3, <3>1
      <4> HIDE DEF w
      <4> QED
        BY <1>1, <4>1, <4>2
    <3>2. CASE method # "FIFO"
      <4> DEFINE w == PushFront(msgs[q], m)
      <4>1. /\ w \in Seq(Msg) /\ Len(w) = Len(msgs[q]) + 1 /\ Distinct(w)
            /\ \A x : InList(w, x) <=> x = m \/ InList(msgs[q], x)
        <5>1. msgs[q] \in Seq(Msg) /\ Distinct(msgs[q]) /\ ~InList(msgs[q], m)
          BY <1>1, <2>1
        <5> QED
          BY <5>1, PushedList
      <4>2. msgs' = [msgs EXCEPT ![q] = w]
        BY <1>3, <3>2
      <4> HIDE DEF w
      <4> QED
        BY <1>1, <4>1, <4>2
    <3> QED
      BY <3>1, <3>2
  <2>3. /\ DOMAIN count' = Queue
        /\ \A z \in Queue : count'[z] = IF z = q THEN count[q] + 1 ELSE count[z]
    BY <1>1, <1>3
  <2>4. \A z \in Queue : count'[z] \in 0 .. Length[z]
    BY <1>1, <1>3, <2>3
  <2>5. \A z \in Queue : count'[z] = Len(msgs'[z])
    BY <1>1, <2>2, <2>3
  <2>6. \A z, p \in Queue, x \in Msg : InList(msgs'[z], x) /\ InList(msgs'[p], x) => z = p
    BY <1>1, <2>1, <2>2
  <2> QED
    BY <1>1, <2>2, <2>3, <2>4, <2>5, <2>6 DEF MessagesInv
<1> QED
  BY <1>2, <1>3

(* msg_put takes the first waiter off the wait list and queues it first of *)
(* its priority; the woken task is on its way back to the message.         *)
LEMMA PutPreserves ==
    ASSUME MsgInv, NEW t \in Task \ {Idle}, NEW q \in Queue, NEW m \in Msg, NEW method,
           MsgPut(t, q, m, method)
    PROVE  MsgInv'
<1>1. /\ Running(t) /\ at[t] = User /\ ~InAnyQueue(m)
      /\ UNCHANGED <<prio, created, new_task, schedule_is_lock, at>>
  BY DEF MsgPut, InUserCode
<1>2. /\ msgs' \in [Queue -> Seq(Msg)]
      /\ DOMAIN count' = Queue /\ \A z \in Queue : count'[z] \in 0 .. Length[z]
      /\ MessagesInv'
      /\ \A z \in Queue : z # q => msgs'[z] = msgs[z]
      /\ Len(msgs'[q]) <= Len(msgs[q]) + 1
  <2>1. IF count[q] = Length[q]
        THEN UNCHANGED <<count, msgs>>
        ELSE /\ count' = [count EXCEPT ![q] = @ + 1]
             /\ msgs' = [msgs EXCEPT ![q] = IF method = "FIFO" THEN Append(@, m)
                                            ELSE PushFront(@, m)]
    BY DEF MsgPut
  <2> QED
    BY <1>1, <2>1, StoreKeepsMessages
<1>3. /\ TableTypeOK /\ prio \in [Task -> Prio] /\ created \subseteq Task
      /\ WellFormed(ready, prio) /\ schedule_is_lock = FALSE
      /\ Members(ready) = created \ MsgBlocked
      /\ at \in [Task -> MsgPlace] /\ msg_list \in [Queue -> Seq(Task)]
      /\ \A z \in Queue : Distinct(msg_list[z])
  BY MsgInvFacts DEF MsgInv, MsgWaitInv
<1>4. CASE msg_list[q] = <<>>
  <2>1. UNCHANGED <<msg_list, ready>>
    BY <1>4 DEF MsgPut
  <2>2. /\ MsgBlocked' = MsgBlocked /\ Members(ready') = Members(ready)
        /\ \A z \in Queue : MsgReturning(z)' = MsgReturning(z)
    BY <1>1, <2>1 DEF MsgBlocked, WaitsForMsg, MsgReturning
  <2>3. MsgTypeOK'
    BY <1>1, <1>2, <1>3, <2>1 DEF MsgTypeOK, TableTypeOK
  <2>4. MsgTableInv'
    BY <1>1, <2>1, <2>2 DEF MsgInv, MsgTableInv, ReadyTasks, Started
  <2>5. MsgWaitInv'
    BY <1>1, <2>1 DEF MsgInv, MsgWaitInv, WaitsForMsg
  <2>6. NoStrandedMessage'
    BY <1>2, <1>4, <2>1, <2>2 DEF MsgInv, NoStrandedMessage
  <2> QED
    BY <1>2, <2>3, <2>4, <2>5, <2>6 DEF MsgInv
<1>5. CASE msg_list[q] # <<>>
  <2> DEFINE u == Head(msg_list[q])
  <2>1. /\ msg_list' = [msg_list EXCEPT ![q] = Tail(@)]
        /\ ready' = InsertHead(ready, prio[u], u)
    BY <1>5 DEF MsgPut
  <2>2. /\ u \in Task /\ InList(msg_list[q], u)
        /\ msg_list' \in [Queue -> Seq(Task)]
        /\ \A z \in Queue : Distinct(msg_list'[z])
        /\ \A z \in Queue : \A x : InList(msg_list'[z], x)
                               <=> InList(msg_list[z], x) /\ ~(z = q /\ x = u)
        /\ \A z \in Queue : z # q => msg_list'[z] = msg_list[z]
    <3> DEFINE w == Tail(msg_list[q])
    <3>1. /\ u \in Task /\ InList(msg_list[q], u) /\ w \in Seq(Task) /\ Distinct(w)
          /\ \A x : InList(w, x) <=> x # u /\ InList(msg_list[q], x)
      BY <1>3, <1>5, TailList
    <3>2. msg_list' = [msg_list EXCEPT ![q] = w]
      BY <2>1
    <3> HIDE DEF w
    <3> QED
      BY <1>3, <3>1, <3>2
  <2> HIDE DEF u
  <2>3. /\ WaitsForMsg(u, q) /\ u \in MsgBlocked /\ u \in created
        /\ at[u] \in {InMsgGet(q), Switched(q)} /\ u # Idle
        /\ \A z \in Queue : WaitsForMsg(u, z) => z = q
    <3>1. WaitsForMsg(u, q)
      BY <2>2 DEF WaitsForMsg, InList
    <3> QED
      BY <2>2, <3>1, MsgPlacesDiffer DEF MsgInv, MsgWaitInv, MsgTableInv, MsgBlocked
  <2>4. \A z \in Queue : \A x : WaitsForMsg(x, z)' <=> WaitsForMsg(x, z) /\ ~(z = q /\ x = u)
    BY <2>2 DEF WaitsForMsg, InList
  <2>5. MsgBlocked' = MsgBlocked \ {u}
    BY <2>3, <2>4 DEF MsgBlocked
  <2>6. WellFormed(ready', prio) /\ Members(ready') = Members(ready) \cup {u}
    BY <1>3, <2>1, <2>2, <2>3, InsertHeadPreserves
  <2>7. MsgTypeOK'
    BY <1>1, <1>2, <1>3, <2>2, <2>6 DEF MsgTypeOK, TableTypeOK, WellFormed
  <2>8. MsgTableInv'
    <3>1. ReadyTasks' = created' \ MsgBlocked'
      BY <1>1, <1>3, <2>3, <2>5, <2>6 DEF ReadyTasks
    <3> QED
      BY <1>1, <2>5, <2>6, <3>1 DEF MsgInv, MsgTableInv, ReadyTasks, Started
  <2>9. MsgWaitInv'
    BY <1>1, <2>2, <2>4 DEF MsgInv, MsgWaitInv
  <2>10. /\ MsgReturning(q)' = MsgReturning(q) \cup {u} /\ u \notin MsgReturning(q)
         /\ \A z \in Queue : z # q => MsgReturning(z)' = MsgReturning(z)
    <3>1. \A z \in Queue, x \in Task :
             x \in MsgReturning(z)' <=> x \in MsgReturning(z) \/ (z = q /\ x = u)
      BY <1>1, <2>3, <2>4, MsgPlacesDiffer DEF MsgReturning
    <3>2. u \notin MsgReturning(q)
      BY <2>3, MsgPlacesDiffer DEF MsgReturning
    <3> QED
      BY <2>2, <3>1, <3>2 DEF MsgReturning
  <2>11. NoStrandedMessage'
    <3>1. Cardinality(MsgReturning(q) \cup {u}) = Cardinality(MsgReturning(q)) + 1
      BY <2>10, ReturningFinite, FS_AddElement
    <3>2. Len(msgs[q]) <= Cardinality(MsgReturning(q))
      BY <1>5 DEF MsgInv, NoStrandedMessage
    <3>3. Len(msgs'[q]) <= Cardinality(MsgReturning(q)')
      <4>1. Len(msgs[q]) \in Nat /\ Len(msgs'[q]) \in Nat
        BY <1>2, MsgInvFacts, LenProperties
      <4> QED
        BY <1>2, <2>10, <3>1, <3>2, <4>1, ReturningFinite
    <3>4. ASSUME NEW z \in Queue, z # q, msg_list'[z] # <<>>
          PROVE  Len(msgs'[z]) <= Cardinality(MsgReturning(z)')
      BY <1>2, <1>3, <2>1, <2>10, <3>4 DEF MsgInv, NoStrandedMessage
    <3> QED
      BY <3>3, <3>4 DEF NoStrandedMessage
  <2> QED
    BY <1>2, <2>7, <2>8, <2>9, <2>11 DEF MsgInv
<1> QED
  BY <1>4, <1>5

-----------------------------------------------------------------------------
(* A step that leaves the messages and the wait lists alone keeps the      *)
(* invariant if it keeps the tables, takes nobody off its way back to a    *)
(* queue and leaves the running task where it may be.                      *)
LEMMA UntouchedQueuesPreserve ==
    ASSUME MsgInv, UNCHANGED <<msgs, count, msg_list>>,
           TableTypeOK', WellFormed(ready', prio'), schedule_is_lock' = FALSE,
           Members(ready') = Members(ready) \cup (created' \ created),
           created \subseteq created',
           at' \in [Task -> MsgPlace],
           \A t \in Task : at[t] \in {User, Trailing} => at'[t] \in {User, Trailing},
           \A t \in Task, q \in Queue :
              WaitsForMsg(t, q) => at'[t] \in {InMsgGet(q), Switched(q)},
           \A q \in Queue : MsgReturning(q)' = MsgReturning(q),
           Started' => \/ new_task' \in Members(ready')
                       \/ /\ new_task' \in created'
                          /\ \E q \in Queue : at'[new_task'] = InMsgGet(q)
    PROVE  MsgInv'
<1> USE DEF MsgInv
<1>1. MsgBlocked' = MsgBlocked /\ \A t, q : WaitsForMsg(t, q)' <=> WaitsForMsg(t, q)
  BY DEF MsgBlocked, WaitsForMsg
<1>2. MsgTypeOK'
  BY DEF MsgTypeOK
<1>3. MsgTableInv'
  <2>1. Members(ready') = created' \ MsgBlocked
    BY MsgInvFacts DEF MsgTableInv
  <2> QED
    BY <1>1, <2>1 DEF MsgTableInv, ReadyTasks
<1>4. MsgWaitInv'
  BY <1>1, IdleAssumption DEF MsgWaitInv
<1>5. MessagesInv' /\ NoStrandedMessage'
  BY DEF MessagesInv, NoStrandedMessage
<1> QED
  BY <1>2, <1>3, <1>4, <1>5

(* msg_get that finds a message.                                           *)
LEMMA GetFetchPreserves ==
    ASSUME MsgInv, NEW t \in Task \ {Idle}, NEW q \in Queue, MsgGetFetch(t, q)
    PROVE  MsgInv'
<1> DEFINE w == Tail(msgs[q])
<1>1. /\ Running(t) /\ at[t] \in {User, Again(q)} /\ msgs[q] # <<>>
      /\ msgs' = [msgs EXCEPT ![q] = w]
      /\ count' = [count EXCEPT ![q] = IF @ > 0 THEN @ - 1 ELSE @]
      /\ at' = [at EXCEPT ![t] = User]
      /\ UNCHANGED <<ready, prio, created, new_task, schedule_is_lock, msg_list>>
  BY DEF MsgGetFetch, MayGet
<1>2. /\ t \in ReadyTasks /\ t \notin MsgBlocked /\ t \in created
      /\ \A z \in Queue : ~WaitsForMsg(t, z)
  BY <1>1, MsgRunningFacts, MsgPlacesDiffer
<1>3. /\ TableTypeOK /\ at \in [Task -> MsgPlace] /\ msgs \in [Queue -> Seq(Msg)]
      /\ DOMAIN count = Queue /\ \A z \in Queue : count[z] \in 0 .. Length[z]
      /\ \A z \in Queue : count[z] = Len(msgs[z]) /\ Distinct(msgs[z])
      /\ \A z, p \in Queue, x \in Msg : InList(msgs[z], x) /\ InList(msgs[p], x) => z = p
      /\ \A z \in Queue : Length[z] \in Nat
  BY MsgInvFacts, QueueAssumption DEF MsgInv, MessagesInv
<1>4. /\ w \in Seq(Msg) /\ Len(w) = Len(msgs[q]) - 1 /\ Distinct(w)
      /\ \A x : InList(w, x) => InList(msgs[q], x)
  BY <1>1, <1>3, TailList
<1> HIDE DEF w
<1>5. /\ DOMAIN count' = Queue
      /\ \A z \in Queue : count'[z] = IF z = q THEN count[q] - 1 ELSE count[z]
      /\ \A z \in Queue : count'[z] \in 0 .. Length[z]
  <2>1. count[q] > 0
    BY <1>1, <1>3, EmptySeq, LenProperties
  <2> QED
    BY <1>1, <1>3, <2>1
<1>6. MsgTypeOK'
  BY <1>1, <1>3, <1>4, <1>5 DEF MsgInv, MsgTypeOK, TableTypeOK, MsgPlace
<1>7. MsgBlocked' = MsgBlocked /\ \A u, z : WaitsForMsg(u, z)' <=> WaitsForMsg(u, z)
  BY <1>1 DEF MsgBlocked, WaitsForMsg
<1>8. MsgTableInv'
  BY <1>1, <1>2, <1>7 DEF MsgInv, MsgTableInv, ReadyTasks, Running, Started
<1>9. MsgWaitInv'
  BY <1>1, <1>2, <1>3, <1>7, IdleAssumption DEF MsgInv, MsgWaitInv
<1>10. MessagesInv'
  <2>1. \A z \in Queue : count'[z] = Len(msgs'[z]) /\ Distinct(msgs'[z])
    BY <1>1, <1>3, <1>4, <1>5
  <2>2. \A z \in Queue : \A x : InList(msgs'[z], x) => InList(msgs[z], x)
    BY <1>1, <1>3, <1>4
  <2> QED
    BY <1>3, <2>1, <2>2 DEF MessagesInv
<1>11. /\ MsgReturning(q)' = MsgReturning(q) \ {t}
       /\ \A z \in Queue : z # q => MsgReturning(z)' = MsgReturning(z)
  <2>1. \A z \in Queue, x \in Task :
           x \in MsgReturning(z)' <=> x \in MsgReturning(z) /\ ~(z = q /\ x = t)
    BY <1>1, <1>3, <1>7, MsgPlacesDiffer DEF MsgReturning
  <2> QED
    BY <2>1 DEF MsgReturning
<1>12. NoStrandedMessage'
  <2>1. ASSUME msg_list[q] # <<>> PROVE Len(w) <= Cardinality(MsgReturning(q) \ {t})
    <3>1. Len(msgs[q]) <= Cardinality(MsgReturning(q))
      BY <2>1 DEF MsgInv, NoStrandedMessage
    <3>2. Cardinality(MsgReturning(q) \ {t}) \in
             {Cardinality(MsgReturning(q)), Cardinality(MsgReturning(q)) - 1}
      BY ReturningFinite, FS_RemoveElement
    <3>3. Len(msgs[q]) \in Nat
      BY <1>3, LenProperties
    <3> QED
      BY <1>4, <3>1, <3>2, <3>3, ReturningFinite
  <2>2. ASSUME NEW z \in Queue, msg_list'[z] # <<>>
        PROVE  Len(msgs'[z]) <= Cardinality(MsgReturning(z)')
    BY <1>1, <1>3, <1>11, <2>1, <2>2 DEF MsgInv, NoStrandedMessage
  <2> QED
    BY <2>2 DEF NoStrandedMessage
<1> QED
  BY <1>6, <1>8, <1>9, <1>10, <1>12 DEF MsgInv

(* msg_get on an empty queue, up to interrupt_enable: the caller leaves    *)
(* the ready table for the end of the wait list.                           *)
LEMMA BlockedGetPreserves ==
    ASSUME MsgInv, NEW t \in Task \ {Idle}, NEW q \in Queue, MsgGetBlock(t, q)
    PROVE  MsgInv'
<1> DEFINE r == Delete(ready, prio[t], t)
           w == Append(msg_list[q], t)
<1>1. /\ Running(t) /\ at[t] \in {User, Again(q)} /\ msgs[q] = <<>>
      /\ ready' = r
      /\ msg_list' = [msg_list EXCEPT ![q] = w]
      /\ at' = [at EXCEPT ![t] = InMsgGet(q)]
      /\ UNCHANGED <<prio, created, new_task, schedule_is_lock, msgs, count>>
  BY DEF MsgGetBlock, MayGet
<1>2. /\ t \in ReadyTasks /\ t \notin MsgBlocked /\ t \in created
      /\ \A z \in Queue : ~WaitsForMsg(t, z)
  BY <1>1, MsgRunningFacts, MsgPlacesDiffer
<1>3. /\ TableTypeOK /\ prio \in [Task -> Prio] /\ WellFormed(ready, prio)
      /\ Members(ready) = created \ MsgBlocked
      /\ at \in [Task -> MsgPlace] /\ msg_list \in [Queue -> Seq(Task)]
      /\ \A z \in Queue : Distinct(msg_list[z])
  BY MsgInvFacts DEF MsgInv, MsgWaitInv
<1>4. WellFormed(r, prio) /\ Members(r) = Members(ready) \ {t}
  BY <1>2, <1>3, DeletePreserves DEF ReadyTasks
<1>5. /\ w \in Seq(Task) /\ w # <<>> /\ Distinct(w)
      /\ \A u : InList(w, u) <=> u = t \/ InList(msg_list[q], u)
  <2>1. msg_list[q] \in Seq(Task) /\ Distinct(msg_list[q]) /\ ~InList(msg_list[q], t)
    BY <1>2, <1>3 DEF WaitsForMsg, InList
  <2> QED
    BY <2>1, AppendedList
<1> HIDE DEF r, w
<1>6. \A u, z : z \in Queue => (WaitsForMsg(u, z)' <=> WaitsForMsg(u, z) \/ (z = q /\ u = t))
  <2>1. \A z \in Queue : \A u : InList(msg_list'[z], u)
                             <=> InList(msg_list[z], u) \/ (z = q /\ u = t)
    BY <1>1, <1>3, <1>5
  <2> QED
    BY <2>1 DEF WaitsForMsg, InList
<1>7. MsgBlocked' = MsgBlocked \cup {t}
  BY <1>6 DEF MsgBlocked
<1>8. MsgTypeOK'
  <2>1. InMsgGet(q) \in MsgPlace
    BY DEF MsgPlace
  <2> QED
    BY <1>1, <1>3, <1>4, <1>5, <2>1 DEF MsgInv, MsgTypeOK, TableTypeOK, WellFormed
<1>9. MsgTableInv'
  <2>1. Members(ready') = created \ (MsgBlocked \cup {t})
    BY <1>1, <1>3, <1>4
  <2>2. Started' => new_task' = t /\ at'[t] = InMsgGet(q)
    BY <1>1, <1>3 DEF Running
  <2> QED
    BY <1>1, <1>2, <1>4, <1>7, <2>1, <2>2 DEF MsgInv, MsgTableInv, ReadyTasks
<1>10. MsgWaitInv'
  <2>1. \A z \in Queue : Distinct(msg_list'[z])
    BY <1>1, <1>3, <1>5
  <2>2. ASSUME NEW u \in Task, NEW z \in Queue, WaitsForMsg(u, z)'
        PROVE  at'[u] \in {InMsgGet(z), Switched(z)}
    BY <1>1, <1>2, <1>3, <1>6, <2>2 DEF MsgInv, MsgWaitInv
  <2>3. at'[Idle] = at[Idle]
    BY <1>1, <1>3, IdleAssumption
  <2> QED
    BY <2>1, <2>2, <2>3 DEF MsgInv, MsgWaitInv
<1>11. MessagesInv'
  BY <1>1 DEF MsgInv, MessagesInv
<1>12. NoStrandedMessage'
  <2>1. \A z \in Queue : z # q => MsgReturning(z)' = MsgReturning(z)
    BY <1>1, <1>3, <1>6, MsgPlacesDiffer DEF MsgReturning
  <2>2. Len(msgs[q]) = 0 /\ Cardinality(MsgReturning(q)') \in Nat
    <3>1. IsFiniteSet(MsgReturning(q)')
      BY FiniteGetters, FS_Subset DEF MsgReturning
    <3> QED
      BY <1>1, <3>1, FS_CardinalityType, EmptySeq
  <2>3. ASSUME NEW z \in Queue, msg_list'[z] # <<>>
        PROVE  Len(msgs'[z]) <= Cardinality(MsgReturning(z)')
    BY <1>1, <1>3, <2>1, <2>2, <2>3 DEF MsgInv, NoStrandedMessage
  <2> QED
    BY <2>3 DEF NoStrandedMessage
<1> QED
  BY <1>8, <1>9, <1>10, <1>11, <1>12 DEF MsgInv

(* The schedule() of msg_get leaves the CPU to a task that is ready: the   *)
(* caller only if a msg_put came first.                                    *)
LEMMA GetSwitchPreserves ==
    ASSUME MsgInv, NEW t \in Task \ {Idle}, NEW q \in Queue, MsgGetSwitch(t, q)
    PROVE  MsgInv'
<1>1. /\ Running(t) /\ at[t] = InMsgGet(q) /\ ScheduleFrom(ready)
      /\ at' = [at EXCEPT ![t] = Switched(q)]
      /\ UNCHANGED <<prio, created, schedule_is_lock, msgs, count, msg_list>>
  BY DEF MsgGetSwitch
<1>2. /\ TableTypeOK /\ prio \in [Task -> Prio] /\ WellFormed(ready, prio)
      /\ schedule_is_lock = FALSE /\ Idle \in Members(ready) /\ new_task \in Task
      /\ at \in [Task -> MsgPlace]
  BY <1>1, MsgInvFacts DEF Running
<1>3. /\ WellFormed(ready', prio) /\ Members(ready') = Members(ready)
      /\ new_task' \in Members(ready) /\ new_task' \in Task
  BY <1>1, <1>2, SwitchGoesToReady
<1>4. TableTypeOK'
  BY <1>1, <1>2, <1>3 DEF TableTypeOK, WellFormed
<1>5. /\ at' \in [Task -> MsgPlace]
      /\ \A u \in Task : at[u] \in {User, Trailing} => at'[u] \in {User, Trailing}
      /\ \A u \in Task, z \in Queue :
            WaitsForMsg(u, z) => at'[u] \in {InMsgGet(z), Switched(z)}
  <2>1. Switched(q) \in MsgPlace
    BY DEF MsgPlace
  <2> QED
    BY <1>1, <1>2, <2>1, MsgPlacesDiffer DEF MsgInv, MsgWaitInv
<1>6. \A z \in Queue : MsgReturning(z)' = MsgReturning(z)
  BY <1>1, <1>2, MsgPlacesDiffer DEF MsgReturning, WaitsForMsg
<1> QED
  BY <1>1, <1>2, <1>3, <1>4, <1>5, <1>6, UntouchedQueuesPreserve

(* msg_get returns EMPTY to a task that was woken.                         *)
LEMMA GetReturnEmptyPreserves ==
    ASSUME MsgInv, NEW t \in Task \ {Idle}, NEW q \in Queue, MsgGetReturnEmpty(t, q)
    PROVE  MsgInv'
<1>1. /\ Running(t) /\ at[t] = Switched(q) /\ at' = [at EXCEPT ![t] = Again(q)]
      /\ UNCHANGED <<ready, prio, created, new_task, schedule_is_lock,
                     msgs, count, msg_list>>
  BY DEF MsgGetReturnEmpty
<1>2. /\ TableTypeOK /\ WellFormed(ready, prio) /\ schedule_is_lock = FALSE
      /\ at \in [Task -> MsgPlace]
  BY MsgInvFacts
<1>3. t \in ReadyTasks /\ \A z \in Queue : ~WaitsForMsg(t, z)
  BY <1>1, MsgRunningFacts, MsgPlacesDiffer
<1>4. TableTypeOK'
  BY <1>1, <1>2 DEF TableTypeOK
<1>5. /\ at' \in [Task -> MsgPlace]
      /\ \A u \in Task : at[u] \in {User, Trailing} => at'[u] \in {User, Trailing}
      /\ \A u \in Task, z \in Queue :
            WaitsForMsg(u, z) => at'[u] \in {InMsgGet(z), Switched(z)}
  <2>1. Again(q) \in MsgPlace
    BY DEF MsgPlace
  <2> QED
    BY <1>1, <1>2, <1>3, <2>1, MsgPlacesDiffer DEF MsgInv, MsgWaitInv
<1>6. \A z \in Queue : MsgReturning(z)' = MsgReturning(z)
  BY <1>1, <1>2, <1>3, MsgPlacesDiffer DEF MsgReturning, WaitsForMsg
<1>7. new_task' \in Members(ready') /\ Members(ready') = Members(ready)
  BY <1>1, <1>3 DEF Running, ReadyTasks
<1> QED
  BY <1>1, <1>2, <1>4, <1>5, <1>6, <1>7, UntouchedQueuesPreserve

-----------------------------------------------------------------------------
(* system_init and msg_queue_create.                                       *)
LEMMA MsgInitEstablishesInv == MsgInit => MsgInv
<1> SUFFICES ASSUME MsgInit
             PROVE  MsgInv
  OBVIOUS
<1>1. /\ SchedTypeOK /\ WellFormed(ready, prio) /\ ReadyTasks = created
      /\ Idle \in created
  BY InitEstablishesInv DEF MsgInit, SchedInv, AllReady
<1>2. /\ at = [t \in Task |-> User] /\ schedule_is_lock = FALSE /\ new_task = NoTask
      /\ msgs = [q \in Queue |-> <<>>] /\ count = [q \in Queue |-> 0]
      /\ msg_list = [q \in Queue |-> <<>>]
  BY DEF MsgInit, SchedInit
<1>3. MsgBlocked = {} /\ \A t, q : q \in Queue => ~WaitsForMsg(t, q)
  BY <1>2 DEF MsgBlocked, WaitsForMsg
<1>4. MsgTypeOK
  BY <1>1, <1>2, QueueAssumption, EmptySeq DEF MsgTypeOK, SchedTypeOK, MsgPlace
<1>5. MsgTableInv
  BY <1>1, <1>2, <1>3 DEF MsgTableInv, Started
<1>6. MsgWaitInv
  BY <1>2, <1>3, IdleAssumption DEF MsgWaitInv, Distinct
<1>7. MessagesInv
  BY <1>2, EmptySeq DEF MessagesInv, Distinct, InList
<1>8. NoStrandedMessage
  BY <1>2 DEF NoStrandedMessage
<1> QED
  BY <1>4, <1>5, <1>6, <1>7, <1>8 DEF MsgInv

(* Every step of the kernel with message queues keeps the invariant.       *)
LEMMA MsgNextPreservesInv == MsgInv /\ [MsgNext]_msgVars => MsgInv'
<1> SUFFICES ASSUME MsgInv, [MsgNext]_msgVars
             PROVE  MsgInv'
  OBVIOUS
<1>1. /\ TableTypeOK /\ WellFormed(ready, prio) /\ schedule_is_lock = FALSE
      /\ Idle \in Members(ready) /\ Members(ready) \subseteq created
      /\ at \in [Task -> MsgPlace]
  BY MsgInvFacts
<1>2. CASE /\ Boot \/ Preempt \/ \E t \in Task : Schedule(t)
           /\ UNCHANGED queueVars
  <2>1. /\ TableTypeOK' /\ WellFormed(ready', prio') /\ schedule_is_lock' = FALSE
        /\ Members(ready') = Members(ready) \cup (created' \ created)
        /\ created \subseteq created'
        /\ Started' => new_task' \in Members(ready')
        /\ \/ at' = at
           \/ \E t \in Task : at[t] \in {User, Trailing} /\ at' = [at EXCEPT ![t] = User]
    BY <1>1, <1>2, OwnStepsPreserve
  <2>2. UNCHANGED <<msgs, count, msg_list>>
    BY <1>2 DEF queueVars
  <2>3. /\ at' \in [Task -> MsgPlace]
        /\ \A t \in Task : at'[t] = at[t] \/ (at[t] \in {User, Trailing} /\ at'[t] = User)
    BY <1>1, <2>1 DEF MsgPlace
  <2>4. /\ \A t \in Task, q \in Queue :
              WaitsForMsg(t, q) => at'[t] \in {InMsgGet(q), Switched(q)}
        /\ \A q \in Queue : MsgReturning(q)' = MsgReturning(q)
    BY <2>2, <2>3, MsgPlacesDiffer DEF MsgInv, MsgWaitInv, MsgReturning, WaitsForMsg
  <2> QED
    BY <2>1, <2>2, <2>3, <2>4, UntouchedQueuesPreserve
<1>3. ASSUME NEW t \in Task \ {Idle}, MsgCall(t)
      PROVE  MsgInv'
  BY <1>3, PutPreserves, GetFetchPreserves, BlockedGetPreserves, GetSwitchPreserves,
     GetReturnEmptyPreserves DEF MsgCall
<1>4. CASE UNCHANGED msgVars
  <2>1. /\ UNCHANGED <<ready, prio, created, new_task, schedule_is_lock, at>>
        /\ UNCHANGED <<msgs, count, msg_list>>
    BY <1>4 DEF msgVars, schedVars
  <2>2. /\ MsgBlocked' = MsgBlocked /\ \A q : MsgReturning(q)' = MsgReturning(q)
        /\ \A t, q : WaitsForMsg(t, q)' <=> WaitsForMsg(t, q)
    BY <2>1 DEF MsgBlocked, WaitsForMsg, MsgReturning
  <2>3. MsgTypeOK' /\ MsgWaitInv' /\ MessagesInv' /\ NoStrandedMessage'
    BY <2>1, <2>2 DEF MsgInv, MsgTypeOK, TableTypeOK, MsgWaitInv, MessagesInv, NoStrandedMessage
  <2>4. MsgTableInv'
    BY <2>1, <2>2 DEF MsgInv, MsgTableInv, ReadyTasks, Started
  <2> QED
    BY <2>3, <2>4 DEF MsgInv
<1> QED
  BY <1>2, <1>3, <1>4 DEF MsgNext

(* Types, every task in exactly one list, count agreeing with the list, no *)
(* message stored twice, and no message stranded beside a waiting task.    *)
LEMMA MsgInvIsSafe == MsgInv => MsgSafe /\ BitmapExact
<1> SUFFICES ASSUME MsgInv PROVE MsgPlacement /\ CountIsLength /\ BitmapExact
  BY DEF MsgInv, MsgSafe
<1>1. MsgPlacement /\ BitmapExact
  BY DEF MsgInv, MsgTableInv, MsgWaitInv, MsgPlacement, WellFormed, QueuedOnce,
         BitmapExact, Distinct
<1>2. CountIsLength
  <2>1. ASSUME NEW q \in Queue, NEW p \in Queue,
               NEW i \in DOMAIN msgs[q], NEW j \in DOMAIN msgs[p], msgs[q][i] = msgs[p][j]
        PROVE  q = p /\ i = j
    <3>1. msgs[q][i] \in Msg
      BY MsgInvFacts, LenProperties
    <3>2. q = p
      BY <2>1, <3>1 DEF MsgInv, MessagesInv, InList
    <3> QED
      BY <2>1, <3>2 DEF MsgInv, MessagesInv, Distinct
  <2> QED
    BY <2>1 DEF CountIsLength, MsgInv, MessagesInv
<1> QED
  BY <1>1, <1>2

(* The queue keeps all of it.                                              *)
THEOREM QueueSafe == MsgSpec => [](MsgSafe /\ BitmapExact)
BY MsgInvIsSafe, MsgInitEstablishesInv, MsgNextPreservesInv, PTL DEF MsgSpec

-----------------------------------------------------------------------------
(***************************************************************************)
(* Delays, timers, priorities; the programs of MCKernelObjects             *)
(***************************************************************************)

(* The ready table holds the created tasks that are not delayed; the       *)
(* running task is one of them, unless os_delay is about to end in         *)
(* schedule().                                                             *)
TimerTableInv ==
    /\ WellFormed(ready, prio)
    /\ schedule_is_lock = FALSE
    /\ Idle \in created
    /\ ReadyTasks = created \ Delayed
    /\ Delayed \subseteq created \ {Idle}
    /\ Distinct(tick_queue)
    /\ tick_queue # <<>> \/ ~NoInterrupt => Started
    /\ Started => /\ new_task \in created
                  /\ new_task \in ReadyTasks \/ at[new_task] = Trailing

TimerInv == TimerTypeOK /\ TimerTableInv /\ TickAccounting

-----------------------------------------------------------------------------
(* By how many ticks the count of an entry may be off: ahead if the walk   *)
(* of hardware_timer has yet to reach the entry.                           *)
InTime(e, lag, ahead) ==
    IF e \in Task THEN lag = IF ahead THEN 1 ELSE 0
    ELSE lag \in IF ahead THEN {0, 1} ELSE {-1, 0}

Lag(e) == since[e] + timeout[e] - timeout_copy[e]

(* TickAccounting, said entry by entry with the lag of each.               *)
LEMMA AccountingByEntry ==
    TickAccounting <=> \A i \in DOMAIN tick_queue :
        InTime(tick_queue[i], Lag(tick_queue[i]), i > walk /\ ~NoInterrupt)
BY DEF TickAccounting, InTime, Lag

(* What holds in every state.                                              *)
LEMMA TimerInvFacts ==
    ASSUME TimerInv
    PROVE  /\ TableTypeOK /\ prio \in [Task -> Prio] /\ created \subseteq Task
           /\ WellFormed(ready, prio) /\ schedule_is_lock = FALSE
           /\ Members(ready) = created \ Delayed /\ Delayed \subseteq created \ {Idle}
           /\ Idle \in Members(ready) /\ Idle \in Task
           /\ (Started => new_task \in Task)
           /\ at \in [Task -> {User, Trailing}]
           /\ tick_queue \in Seq(Entry) /\ Distinct(tick_queue)
           /\ timeout \in [Entry -> Nat] /\ timeout_copy \in [Entry -> Nat]
           /\ since \in [Entry -> Nat] /\ cycle \subseteq SoftTimer
           /\ walk \in {OffWalk} \cup 0 .. Len(tick_queue)
           /\ (tick_queue # <<>> \/ ~NoInterrupt => Started)
BY IdleAssumption
   DEF TimerInv, TimerTypeOK, TableTypeOK, TimerTableInv, ReadyTasks

(* list_delete of the entry at a known place: the entries behind it move   *)
(* up by one.                                                              *)
LEMMA DroppedAt ==
    ASSUME NEW S, NEW s \in Seq(S), Distinct(s), NEW k \in DOMAIN s
    PROVE  /\ DropAt(s, k) \in Seq(S) /\ Len(DropAt(s, k)) = Len(s) - 1
           /\ Len(s) \in Nat \ {0} /\ k \in 1 .. Len(s)
           /\ Distinct(DropAt(s, k))
           /\ \A u : InList(DropAt(s, k), u) <=> u # s[k] /\ InList(s, u)
           /\ DOMAIN DropAt(s, k) = 1 .. Len(s) - 1
           /\ \A i \in 1 .. Len(s) - 1 :
                 DropAt(s, k)[i] = IF i < k THEN s[i] ELSE s[i + 1]
<1>1. s[k] \in S /\ Len(s) \in Nat \ {0} /\ k \in 1 .. Len(s)
  BY LenProperties
<1>2. \A i, j \in DOMAIN s : s[i] = s[j] => i = j
  BY DEF Distinct
<1>3. (CHOOSE i \in DOMAIN s : s[i] = s[k]) = k
  BY <1>2
<1>4. Unlink(s, s[k]) = DropAt(s, k)
  BY <1>3 DEF Unlink
<1>5. /\ Unlink(s, s[k]) \in Seq(S) /\ Len(Unlink(s, s[k])) = Len(s) - 1
      /\ Distinct(Unlink(s, s[k]))
      /\ \A u : InList(Unlink(s, s[k]), u) <=> u # s[k] /\ InList(s, u)
  <2> DEFINE t == s[k]
  <2>1. t \in S /\ \E i \in DOMAIN s : s[i] = t
    BY <1>1
  <2> HIDE DEF t
  <2>2. /\ Unlink(s, t) \in Seq(S) /\ Len(Unlink(s, t)) = Len(s) - 1
        /\ \A u : (\E i \in DOMAIN Unlink(s, t) : Unlink(s, t)[i] = u)
                   <=> u # t /\ \E i \in DOMAIN s : s[i] = u
        /\ \A i, j \in DOMAIN Unlink(s, t) :
               Unlink(s, t)[i] = Unlink(s, t)[j] => i = j
    BY <1>2, <2>1, UnlinkProperties
  <2> QED
    BY <2>2 DEF Distinct, InList, t
<1>6. /\ DOMAIN DropAt(s, k) = 1 .. Len(s) - 1
      /\ \A i \in 1 .. Len(s) - 1 :
            DropAt(s, k)[i] = IF i < k THEN s[i] ELSE s[i + 1]
  BY DEF DropAt
<1> QED
  BY <1>1, <1>4, <1>5, <1>6

-----------------------------------------------------------------------------
(* A step that leaves the tick queue alone keeps the invariant if it keeps *)
(* the tables and the running task's place in them.                        *)
LEMMA UntouchedTimersPreserve ==
    ASSUME TimerInv, UNCHANGED <<tick_queue, timeout, timeout_copy, cycle, since>>,
           walk' = walk,
           TableTypeOK', WellFormed(ready', prio'), schedule_is_lock' = FALSE,
           created \subseteq created', Members(ready') = created' \ Delayed,
           at' \in [Task -> {User, Trailing}], Started => Started',
           Started' => /\ new_task' \in created'
                       /\ new_task' \in Members(ready') \/ at'[new_task'] = Trailing
    PROVE  TimerInv'
<1>1. /\ Delayed' = Delayed /\ (NoInterrupt' <=> NoInterrupt)
      /\ \A e : Lag(e)' = Lag(e)
  BY DEF Delayed, Armed, NoInterrupt, Lag
<1>2. TimerTypeOK'
  BY DEF TimerInv, TimerTypeOK
<1>3. TimerTableInv'
  <2>1. tick_queue # <<>> \/ ~NoInterrupt => Started'
    BY TimerInvFacts
  <2> QED
    BY <1>1, <2>1 DEF TimerInv, TimerTableInv, ReadyTasks
<1>4. TickAccounting'
  BY <1>1 DEF TimerInv, TickAccounting, NoInterrupt
<1> QED
  BY <1>2, <1>3, <1>4 DEF TimerInv

(* The same of a step of hardware_timer that leaves the scheduler alone.   *)
LEMMA WalkStepPreserves ==
    ASSUME TimerInv, Started, UNCHANGED schedVars,
           tick_queue' \in Seq(Entry), Distinct(tick_queue'),
           \A t \in Task : InList(tick_queue', t) <=> InList(tick_queue, t),
           timeout' \in [Entry -> Nat], timeout_copy' \in [Entry -> Nat],
           since' \in [Entry -> Nat], cycle' \subseteq SoftTimer,
           walk' \in {OffWalk} \cup 0 .. Len(tick_queue'),
           TickAccounting'
    PROVE  TimerInv'
<1>1. UNCHANGED <<ready, prio, created, new_task, schedule_is_lock, at>>
  BY DEF schedVars
<1>2. Delayed' = Delayed
  BY DEF Delayed, Armed, InList
<1>3. TimerTypeOK'
  BY <1>1 DEF TimerInv, TimerTypeOK, TableTypeOK
<1>4. TimerTableInv'
  BY <1>1, <1>2 DEF TimerInv, TimerTableInv, ReadyTasks, Started
<1> QED
  BY <1>3, <1>4 DEF TimerInv

-----------------------------------------------------------------------------
(* The entry the walk has reached.                                         *)
LEMMA CurrentFacts ==
    ASSUME TimerInv, Walking
    PROVE  /\ walk \in Nat /\ ~NoInterrupt /\ Started
           /\ walk + 1 \in DOMAIN tick_queue /\ Current = tick_queue[walk + 1]
           /\ Current \in Entry
           /\ DOMAIN tick_queue = 1 .. Len(tick_queue) /\ Len(tick_queue) \in Nat
           /\ InTime(Current, Lag(Current), TRUE)
<1>1. /\ tick_queue \in Seq(Entry) /\ walk \in {OffWalk} \cup 0 .. Len(tick_queue)
      /\ ~NoInterrupt => Started
  BY TimerInvFacts
<1>2. walk # OffWalk /\ walk < Len(tick_queue)
  BY DEF Walking
<1>3. /\ DOMAIN tick_queue = 1 .. Len(tick_queue) /\ Len(tick_queue) \in Nat
      /\ walk \in Nat /\ walk + 1 \in DOMAIN tick_queue
  BY <1>1, <1>2, LenProperties
<1>4. Current = tick_queue[walk + 1] /\ Current \in Entry /\ ~NoInterrupt
  BY <1>1, <1>2, <1>3, LenProperties DEF Current, NoInterrupt
<1>5. InTime(Current, Lag(Current), TRUE)
  <2>1. walk + 1 > walk
    BY <1>3
  <2>2. InTime(tick_queue[walk + 1], Lag(tick_queue[walk + 1]), walk + 1 > walk /\ ~NoInterrupt)
    BY <1>3, AccountingByEntry DEF TimerInv
  <2> QED
    BY <1>4, <2>1, <2>2
<1> QED
  BY <1>1, <1>3, <1>4, <1>5

(* An interrupt begins: every entry is one tick behind.                    *)
LEMMA TickBeginPreserves ==
    ASSUME TimerInv, TickBegin
    PROVE  TimerInv'
<1>1. /\ Started /\ NoInterrupt /\ walk' = 0
      /\ since' = [e \in Entry |-> IF Armed(e) /\ since[e] < SinceBound(e)
                                  THEN since[e] + 1 ELSE since[e]]
      /\ UNCHANGED <<tick_queue, timeout, timeout_copy, cycle>> /\ UNCHANGED schedVars
  BY DEF TickBegin
<1>2. /\ since \in [Entry -> Nat] /\ timeout \in [Entry -> Nat]
      /\ timeout_copy \in [Entry -> Nat] /\ tick_queue \in Seq(Entry)
      /\ Distinct(tick_queue) /\ cycle \subseteq SoftTimer
  BY TimerInvFacts
<1>3. /\ DOMAIN tick_queue = 1 .. Len(tick_queue) /\ Len(tick_queue) \in Nat
      /\ \A i \in DOMAIN tick_queue : tick_queue[i] \in Entry
  BY <1>2, LenProperties
<1>4. since' \in [Entry -> Nat]
  BY <1>1, <1>2
<1>5. ASSUME NEW i \in DOMAIN tick_queue
      PROVE  LET e == tick_queue[i] IN InTime(e, since'[e] + timeout[e] - timeout_copy[e], TRUE)
  <2> DEFINE e == tick_queue[i]
  <2>1. e \in Entry /\ Armed(e)
    BY <1>3 DEF Armed
  <2>2. InTime(e, Lag(e), FALSE)
    BY <1>1, AccountingByEntry DEF TimerInv
  <2> HIDE DEF e
  <2>3. since[e] \in Nat /\ timeout[e] \in Nat /\ timeout_copy[e] \in Nat
    BY <1>2, <2>1
  <2>4. since[e] < SinceBound(e)
    BY <2>2, <2>3 DEF InTime, Lag, SinceBound
  <2>5. since'[e] = since[e] + 1
    BY <1>1, <2>1, <2>4
  <2>6. InTime(e, since'[e] + timeout[e] - timeout_copy[e], TRUE)
    BY <2>2, <2>3, <2>5 DEF InTime, Lag
  <2> QED
    BY <2>6 DEF e
<1>6. TickAccounting'
  <2>1. ~NoInterrupt' /\ \A i \in DOMAIN tick_queue : i > walk'
    BY <1>1, <1>3 DEF NoInterrupt, OffWalk
  <2> QED
    BY <1>1, <1>5, <2>1 DEF TickAccounting, InTime
<1> QED
  BY <1>1, <1>2, <1>3, <1>4, <1>6, WalkStepPreserves

-----------------------------------------------------------------------------
(* The count of every entry of q is right when the walk has passed w of    *)
(* them and lag is how far the count of each is off.                       *)
Accounted(q, lag, w) == \A i \in DOMAIN q : InTime(q[i], lag[q[i]], i > w)

LagNow == [e \in Entry |-> Lag(e)]

(* Outside the interrupt the walk has passed them all.                     *)
Passed == IF NoInterrupt THEN Len(tick_queue) ELSE walk

(* TickAccounting as a statement about a queue, for the lemmas on queues.  *)
LEMMA AccountingIsAccounted ==
    tick_queue \in Seq(Entry) =>
        (TickAccounting <=> Accounted(tick_queue, LagNow, Passed))
<1> SUFFICES ASSUME tick_queue \in Seq(Entry)
             PROVE  TickAccounting <=> Accounted(tick_queue, LagNow, Passed)
  OBVIOUS
<1>1. \A i \in DOMAIN tick_queue : tick_queue[i] \in Entry
  BY LenProperties
<1>2. /\ DOMAIN tick_queue = 1 .. Len(tick_queue) /\ Len(tick_queue) \in Nat
  BY LenProperties
<1>3. \A i \in DOMAIN tick_queue : i > Passed <=> i > walk /\ ~NoInterrupt
  BY <1>2 DEF Passed
<1>4. \A i \in DOMAIN tick_queue : LagNow[tick_queue[i]] = Lag(tick_queue[i])
  BY <1>1 DEF LagNow
<1> QED
  BY <1>3, <1>4, AccountingByEntry DEF Accounted

(* The entry the walk has reached is dropped: the walk stays where it is   *)
(* and has the next one before it.                                         *)
LEMMA DropKeepsAccount ==
    ASSUME NEW q \in Seq(Entry), Distinct(q), NEW lag, NEW w \in Nat,
           w + 1 \in DOMAIN q, Accounted(q, lag, w)
    PROVE  Accounted(DropAt(q, w + 1), lag, w)
<1> DEFINE d == DropAt(q, w + 1)
<1>1. /\ DOMAIN d = 1 .. Len(q) - 1 /\ Len(q) \in Nat \ {0} /\ DOMAIN q = 1 .. Len(q)
      /\ \A i \in 1 .. Len(q) - 1 : d[i] = IF i < w + 1 THEN q[i] ELSE q[i + 1]
  BY DroppedAt, LenProperties
<1> HIDE DEF d
<1>2. ASSUME NEW i \in DOMAIN d
      PROVE  InTime(d[i], lag[d[i]], i > w)
  <2>1. CASE i < w + 1
    <3>1. d[i] = q[i] /\ i \in DOMAIN q
      BY <1>1, <1>2, <2>1
    <3> QED
      BY <3>1 DEF Accounted
  <2>2. CASE ~(i < w + 1)
    <3>1. /\ d[i] = q[i + 1] /\ i + 1 \in DOMAIN q
          /\ (i > w) = TRUE /\ (i + 1 > w) = TRUE
      BY <1>1, <1>2, <2>2
    <3>2. InTime(q[i + 1], lag[q[i + 1]], i + 1 > w)
      BY <3>1 DEF Accounted
    <3> QED
      BY <3>1, <3>2
  <2> QED
    BY <2>1, <2>2
<1> QED
  BY <1>2 DEF Accounted, d

(* An entry is appended: the others keep their places.                     *)
LEMMA AppendKeepsAccount ==
    ASSUME NEW q \in Seq(Entry), NEW e \in Entry, ~InList(q, e), NEW lag, NEW w \in Nat,
           Accounted(q, lag, w),
           NEW lag2, \A x \in Entry \ {e} : lag2[x] = lag[x],
           NEW w2 \in Nat, w2 = w \/ (w = Len(q) /\ w2 = Len(q) + 1),
           InTime(e, lag2[e], Len(q) + 1 > w2)
    PROVE  Accounted(Append(q, e), lag2, w2)
<1> DEFINE n == Len(q)
           a == Append(q, e)
<1>1. /\ n \in Nat /\ DOMAIN q = 1 .. n /\ DOMAIN a = 1 .. n + 1
      /\ \A i \in 1 .. n : a[i] = q[i] /\ q[i] \in Entry
      /\ a[n + 1] = e
  BY AppendProperties, LenProperties
<1>0. w2 = w \/ (w = n /\ w2 = n + 1)
  OBVIOUS
<1> HIDE DEF n, a
<1>2. ASSUME NEW i \in DOMAIN a
      PROVE  InTime(a[i], lag2[a[i]], i > w2)
  <2>1. CASE i \in 1 .. n
    <3>1. a[i] = q[i] /\ q[i] \in Entry \ {e} /\ i \in DOMAIN q
      BY <1>1, <2>1 DEF InList
    <3>2. i > w2 <=> i > w
      BY <1>0, <1>1, <2>1
    <3>3. InTime(q[i], lag[q[i]], i > w)
      BY <3>1 DEF Accounted
    <3> QED
      BY <3>1, <3>2, <3>3 DEF InTime
  <2>2. CASE i = n + 1
    BY <1>1, <2>2 DEF n
  <2> QED
    BY <1>1, <1>2, <2>1, <2>2
<1> QED
  BY <1>2 DEF Accounted, a

(* The walk passes an entry and leaves the others alone.                   *)
LEMMA PassKeepsAccount ==
    ASSUME NEW q \in Seq(Entry), Distinct(q), NEW lag, NEW w \in Nat,
           w + 1 \in DOMAIN q, Accounted(q, lag, w),
           NEW lag2, \A x \in Entry \ {q[w + 1]} : lag2[x] = lag[x],
           InTime(q[w + 1], lag2[q[w + 1]], FALSE)
    PROVE  Accounted(q, lag2, w + 1)
<1>1. DOMAIN q = 1 .. Len(q) /\ Len(q) \in Nat /\ \A i \in DOMAIN q : q[i] \in Entry
  BY LenProperties
<1>2. ASSUME NEW i \in DOMAIN q
      PROVE  InTime(q[i], lag2[q[i]], i > w + 1)
  <2>1. CASE i = w + 1
    BY <1>1, <2>1 DEF InTime
  <2>2. CASE i # w + 1
    <3>1. q[i] \in Entry \ {q[w + 1]}
      BY <1>1, <2>2 DEF Distinct
    <3>2. i > w + 1 <=> i > w
      BY <1>1, <2>2
    <3>3. InTime(q[i], lag[q[i]], i > w)
      BY DEF Accounted
    <3> QED
      BY <3>1, <3>2, <3>3 DEF InTime
  <2> QED
    BY <2>1, <2>2
<1> QED
  BY <1>2 DEF Accounted

(* The same for the next state.                                            *)
LEMMA AccountedNext ==
    ASSUME tick_queue' \in Seq(Entry), Accounted(tick_queue', LagNow', Passed')
    PROVE  TickAccounting'
<1>1. (tick_queue \in Seq(Entry) =>
           (TickAccounting <=> Accounted(tick_queue, LagNow, Passed)))'
  BY AccountingIsAccounted, PTL
<1>2. Accounted(tick_queue, LagNow, Passed)'
  BY DEF Accounted
<1> QED
  BY <1>1, <1>2

(* While the walk is at an entry: the account it keeps, and what a step    *)
(* that goes on with the walk has to keep of it.                           *)
LEMMA WalkAccounted ==
    ASSUME TimerInv, Walking
    PROVE  /\ Accounted(tick_queue, LagNow, walk)
           /\ tick_queue \in Seq(Entry) /\ Distinct(tick_queue)
           /\ timeout \in [Entry -> Nat] /\ timeout_copy \in [Entry -> Nat]
           /\ since \in [Entry -> Nat] /\ cycle \subseteq SoftTimer
           /\ LagNow = [e \in Entry |-> since[e] + timeout[e] - timeout_copy[e]]
           /\ LagNow' = [e \in Entry |-> since'[e] + timeout'[e] - timeout_copy'[e]]
           /\ walk' \in Nat => Passed' = walk'
<1>1. Passed = walk
  BY CurrentFacts DEF Passed
<1>2. walk' \in Nat => Passed' = walk'
  BY DEF Passed, NoInterrupt, OffWalk
<1> QED
  BY <1>1, <1>2, TimerInvFacts, AccountingIsAccounted DEF TimerInv, LagNow, Lag

(* hardware_timer counts an entry down.                                    *)
LEMMA TickDecrementPreserves ==
    ASSUME TimerInv, TickDecrement
    PROVE  TimerInv'
<1> DEFINE c == Current
<1>1. /\ Walking /\ timeout[c] # 0 /\ timeout' = [timeout EXCEPT ![c] = @ - 1]
      /\ walk' = walk + 1
      /\ UNCHANGED <<tick_queue, timeout_copy, cycle, since>> /\ UNCHANGED schedVars
  BY DEF TickDecrement
<1>2. /\ walk \in Nat /\ Started /\ walk + 1 \in DOMAIN tick_queue
      /\ c = tick_queue[walk + 1] /\ c \in Entry /\ InTime(c, Lag(c), TRUE)
      /\ DOMAIN tick_queue = 1 .. Len(tick_queue) /\ Len(tick_queue) \in Nat
  BY <1>1, CurrentFacts
<1>3. /\ Accounted(tick_queue, LagNow, walk)
      /\ tick_queue \in Seq(Entry) /\ Distinct(tick_queue)
      /\ timeout \in [Entry -> Nat] /\ timeout_copy \in [Entry -> Nat]
      /\ since \in [Entry -> Nat] /\ cycle \subseteq SoftTimer
      /\ LagNow = [e \in Entry |-> since[e] + timeout[e] - timeout_copy[e]]
      /\ LagNow' = [e \in Entry |-> since'[e] + timeout'[e] - timeout_copy'[e]]
      /\ walk' \in Nat => Passed' = walk'
  BY <1>1, WalkAccounted
<1> HIDE DEF c
<1>4. timeout' \in [Entry -> Nat]
  <2>1. timeout[c] \in Nat /\ timeout[c] # 0
    BY <1>1, <1>2, <1>3
  <2>2. timeout[c] - 1 \in Nat
    BY <2>1
  <2> QED
    BY <1>1, <1>3, <2>2
<1>5. InTime(c, LagNow'[c], FALSE)
  <2>1. timeout'[c] = timeout[c] - 1
    BY <1>1, <1>2, <1>3
  <2>2. LagNow'[c] = since[c] + timeout'[c] - timeout_copy[c]
    BY <1>1, <1>2, <1>3
  <2>3. since[c] \in Nat /\ timeout[c] \in Nat /\ timeout_copy[c] \in Nat
    BY <1>2, <1>3
  <2>4. LagNow'[c] = Lag(c) - 1 /\ Lag(c) \in Int
    BY <2>1, <2>2, <2>3 DEF Lag
  <2> QED
    BY <1>2, <2>4 DEF InTime
<1>6. \A x \in Entry \ {c} : LagNow'[x] = LagNow[x]
  BY <1>1, <1>3
<1>7. Accounted(tick_queue, LagNow', walk + 1)
  BY <1>2, <1>3, <1>5, <1>6, PassKeepsAccount
<1>8. walk + 1 \in 0 .. Len(tick_queue) /\ walk' \in Nat
  BY <1>1, <1>2
<1>9. TickAccounting'
  BY <1>1, <1>3, <1>7, <1>8, AccountedNext
<1> QED
  BY <1>1, <1>2, <1>3, <1>4, <1>8, <1>9, WalkStepPreserves

(* A CYCLE timer starts again when its callback has returned.              *)
LEMMA ExpireCyclePreserves ==
    ASSUME TimerInv, Walking, Current \in SoftTimer, ExpireCycle
    PROVE  TimerInv'
<1> DEFINE c == Current
<1>1. /\ timeout' = [timeout EXCEPT ![c] = timeout_copy[c]]
      /\ since' = [since EXCEPT ![c] = 0] /\ walk' = walk + 1 /\ c \in SoftTimer
      /\ UNCHANGED <<tick_queue, timeout_copy, cycle>> /\ UNCHANGED schedVars
  BY DEF ExpireCycle
<1>2. /\ walk \in Nat /\ Started /\ walk + 1 \in DOMAIN tick_queue
      /\ c = tick_queue[walk + 1] /\ c \in Entry
      /\ DOMAIN tick_queue = 1 .. Len(tick_queue) /\ Len(tick_queue) \in Nat
  BY CurrentFacts
<1>3. /\ Accounted(tick_queue, LagNow, walk)
      /\ tick_queue \in Seq(Entry) /\ Distinct(tick_queue)
      /\ timeout \in [Entry -> Nat] /\ timeout_copy \in [Entry -> Nat]
      /\ since \in [Entry -> Nat] /\ cycle \subseteq SoftTimer
      /\ LagNow = [e \in Entry |-> since[e] + timeout[e] - timeout_copy[e]]
      /\ LagNow' = [e \in Entry |-> since'[e] + timeout'[e] - timeout_copy'[e]]
      /\ walk' \in Nat => Passed' = walk'
  BY WalkAccounted
<1> HIDE DEF c
<1>4. timeout' \in [Entry -> Nat] /\ since' \in [Entry -> Nat]
  BY <1>1, <1>2, <1>3
<1>5. LagNow'[c] = 0
  BY <1>1, <1>2, <1>3
<1>6. \A x \in Entry \ {c} : LagNow'[x] = LagNow[x]
  BY <1>1, <1>3
<1>7. InTime(c, LagNow'[c], FALSE)
  BY <1>5 DEF InTime
<1>8. Accounted(tick_queue, LagNow', walk + 1)
  BY <1>2, <1>3, <1>6, <1>7, PassKeepsAccount
<1>9. walk + 1 \in 0 .. Len(tick_queue) /\ walk' \in Nat
  BY <1>1, <1>2
<1>10. TickAccounting'
  BY <1>1, <1>3, <1>8, <1>9, AccountedNext
<1> QED
  BY <1>1, <1>2, <1>3, <1>4, <1>9, <1>10, WalkStepPreserves

(* An entry the walk drops: a delay that ends, a timer without a period.   *)
LEMMA DropAccounted ==
    ASSUME TimerInv, Walking, tick_queue' = DropAt(tick_queue, walk + 1),
           UNCHANGED <<walk, timeout, timeout_copy, since>>
    PROVE  /\ TickAccounting' /\ tick_queue' \in Seq(Entry) /\ Distinct(tick_queue')
           /\ walk \in 0 .. Len(tick_queue')
           /\ \A u : InList(tick_queue', u) <=> u # Current /\ InList(tick_queue, u)
<1>1. /\ walk \in Nat /\ Started /\ walk + 1 \in DOMAIN tick_queue
      /\ Current = tick_queue[walk + 1]
      /\ DOMAIN tick_queue = 1 .. Len(tick_queue) /\ Len(tick_queue) \in Nat
  BY CurrentFacts
<1>2. /\ Accounted(tick_queue, LagNow, walk)
      /\ tick_queue \in Seq(Entry) /\ Distinct(tick_queue)
      /\ LagNow' = LagNow /\ Passed' = walk
  BY <1>1, WalkAccounted
<1>3. /\ DropAt(tick_queue, walk + 1) \in Seq(Entry)
      /\ Len(DropAt(tick_queue, walk + 1)) = Len(tick_queue) - 1
      /\ Distinct(DropAt(tick_queue, walk + 1))
      /\ \A u : InList(DropAt(tick_queue, walk + 1), u)
                <=> u # tick_queue[walk + 1] /\ InList(tick_queue, u)
  BY <1>1, <1>2, DroppedAt
<1>4. Accounted(DropAt(tick_queue, walk + 1), LagNow, walk)
  BY <1>1, <1>2, DropKeepsAccount
<1>5. TickAccounting'
  BY <1>2, <1>3, <1>4, AccountedNext
<1> QED
  BY <1>1, <1>3, <1>5

(* A ONCE timer leaves the list when its callback has returned.            *)
LEMMA ExpireOncePreserves ==
    ASSUME TimerInv, Walking, Current \in SoftTimer, ExpireOnce
    PROVE  TimerInv'
<1>1. /\ tick_queue' = DropAt(tick_queue, walk + 1)
      /\ UNCHANGED <<walk, timeout, timeout_copy, cycle, since>> /\ UNCHANGED schedVars
  BY DEF ExpireOnce
<1>2. /\ TickAccounting' /\ tick_queue' \in Seq(Entry) /\ Distinct(tick_queue')
      /\ walk \in 0 .. Len(tick_queue')
      /\ \A u : InList(tick_queue', u) <=> u # Current /\ InList(tick_queue, u)
  BY <1>1, DropAccounted
<1>3. \A t \in Task : InList(tick_queue', t) <=> InList(tick_queue, t)
  BY <1>2, TimerAssumption
<1>4. /\ Started /\ timeout \in [Entry -> Nat] /\ timeout_copy \in [Entry -> Nat]
      /\ since \in [Entry -> Nat] /\ cycle \subseteq SoftTimer
  BY CurrentFacts, WalkAccounted
<1> QED
  BY <1>1, <1>2, <1>3, <1>4, WalkStepPreserves

(* A delay that ends puts its task into the ready table.                   *)
LEMMA TickEndDelayPreserves ==
    ASSUME TimerInv, TickEndDelay
    PROVE  TimerInv'
<1> DEFINE c == Current
<1>1. /\ Walking /\ c \in Task /\ tick_queue' = DropAt(tick_queue, walk + 1)
      /\ ready' = InsertTail(ready, prio[c], c)
      /\ UNCHANGED <<prio, created, new_task, schedule_is_lock, at, walk>>
      /\ UNCHANGED <<timeout, timeout_copy, cycle, since>>
  BY DEF TickEndDelay
<1>2. /\ TickAccounting' /\ tick_queue' \in Seq(Entry) /\ Distinct(tick_queue')
      /\ walk \in 0 .. Len(tick_queue')
      /\ \A u : InList(tick_queue', u) <=> u # c /\ InList(tick_queue, u)
  BY <1>1, DropAccounted
<1>3. /\ TableTypeOK /\ prio \in [Task -> Prio] /\ created \subseteq Task
      /\ WellFormed(ready, prio) /\ schedule_is_lock = FALSE /\ Idle \in Members(ready)
      /\ Members(ready) = created \ Delayed /\ Delayed \subseteq created \ {Idle}
      /\ at \in [Task -> {User, Trailing}]
      /\ timeout \in [Entry -> Nat] /\ timeout_copy \in [Entry -> Nat]
      /\ since \in [Entry -> Nat] /\ cycle \subseteq SoftTimer
  BY TimerInvFacts
<1>4. Started /\ InList(tick_queue, c)
  BY <1>1, CurrentFacts DEF InList
<1>5. Delayed' = Delayed \ {c} /\ c \in Delayed
  BY <1>1, <1>2, <1>4 DEF Delayed, Armed, InList
<1> HIDE DEF c
<1>6. WellFormed(ready', prio) /\ Members(ready') = Members(ready) \cup {c}
  BY <1>1, <1>3, <1>5, InsertTailPreserves
<1>7. TimerTypeOK'
  BY <1>1, <1>2, <1>3, <1>6 DEF TimerTypeOK, TableTypeOK, WellFormed
<1>8. Members(ready') = created' \ Delayed' /\ Delayed' \subseteq created' \ {Idle}
  BY <1>1, <1>3, <1>5, <1>6
<1>9. TimerTableInv'
  <2>1. new_task \in created /\ (new_task \in Members(ready) \/ at[new_task] = Trailing)
    BY <1>4 DEF TimerInv, TimerTableInv, ReadyTasks
  <2>2. Started' /\ Idle \in created'
    BY <1>1, <1>3, <1>4 DEF Started
  <2> QED
    BY <1>1, <1>2, <1>3, <1>6, <1>8, <2>1, <2>2 DEF TimerTableInv, ReadyTasks
<1> QED
  BY <1>2, <1>7, <1>9 DEF TimerInv

(* A callback requests another timer, which goes behind all the others:    *)
(* the walk reaches it in the same interrupt.                              *)
LEMMA ExpireAndRequestPreserves ==
    ASSUME TimerInv, Walking, Current \in SoftTimer,
           NEW e \in SoftTimer, NEW n \in Timeout, ExpireAndRequest(e, n)
    PROVE  TimerInv'
<1> DEFINE c == Current
           a == Append(tick_queue, e)
           d == DropAt(a, walk + 1)
           added == [LagNow EXCEPT ![e] = 0]
<1>1. /\ e # c /\ ~Armed(e) /\ c \in SoftTimer
      /\ timeout_copy' = [timeout_copy EXCEPT ![e] = n] /\ UNCHANGED schedVars
      /\ \/ /\ c \in cycle /\ tick_queue' = a /\ walk' = walk + 1
            /\ timeout' = [timeout EXCEPT ![e] = n, ![c] = timeout_copy[c]]
            /\ since' = [since EXCEPT ![e] = 0, ![c] = 0]
         \/ /\ c \notin cycle /\ tick_queue' = d /\ walk' = walk
            /\ timeout' = [timeout EXCEPT ![e] = n]
            /\ since' = [since EXCEPT ![e] = 0]
      /\ cycle' = cycle \cup {e} \/ cycle' = cycle \ {e}
  BY DEF ExpireAndRequest
<1>2. /\ walk \in Nat /\ Started /\ walk + 1 \in DOMAIN tick_queue
      /\ c = tick_queue[walk + 1] /\ c \in Entry
      /\ DOMAIN tick_queue = 1 .. Len(tick_queue) /\ Len(tick_queue) \in Nat
  BY CurrentFacts
<1>3. /\ Accounted(tick_queue, LagNow, walk)
      /\ tick_queue \in Seq(Entry) /\ Distinct(tick_queue)
      /\ timeout \in [Entry -> Nat] /\ timeout_copy \in [Entry -> Nat]
      /\ since \in [Entry -> Nat] /\ cycle \subseteq SoftTimer
      /\ LagNow = [x \in Entry |-> since[x] + timeout[x] - timeout_copy[x]]
      /\ LagNow' = [x \in Entry |-> since'[x] + timeout'[x] - timeout_copy'[x]]
      /\ walk' \in Nat => Passed' = walk'
  BY WalkAccounted
<1>4. e \in Entry /\ n \in Nat /\ e \notin Task /\ ~InList(tick_queue, e)
  BY <1>1, TimerAssumption DEF Entry, Armed, InList
<1>5. /\ a \in Seq(Entry) /\ Distinct(a) /\ Len(a) = Len(tick_queue) + 1
      /\ \A u : InList(a, u) <=> u = e \/ InList(tick_queue, u)
  BY <1>3, <1>4, AppendedList
<1>6. /\ walk + 1 \in DOMAIN a /\ a[walk + 1] = c
      /\ DOMAIN a = 1 .. Len(a) /\ Len(a) \in Nat /\ walk + 1 \in 0 .. Len(a) - 1
  <2>1. walk + 1 \in 1 .. Len(tick_queue) /\ a[walk + 1] = tick_queue[walk + 1]
    BY <1>2, <1>3, <1>4, AppendProperties
  <2> HIDE DEF a
  <2>2. DOMAIN a = 1 .. Len(a) /\ Len(a) \in Nat
    BY <1>5, LenProperties
  <2> QED
    BY <1>2, <1>5, <2>1, <2>2
<1>7. Accounted(a, added, walk)
  <2>1. added[e] = 0 /\ \A x \in Entry \ {e} : added[x] = LagNow[x]
    BY <1>3, <1>4
  <2>2. InTime(e, added[e], Len(tick_queue) + 1 > walk)
    BY <1>4, <2>1 DEF InTime
  <2> HIDE DEF added
  <2> QED
    BY <1>2, <1>3, <1>4, <2>1, <2>2, AppendKeepsAccount
<1> HIDE DEF c, a
<1>8. CASE c \in cycle
  <2>1. /\ tick_queue' = a /\ walk' = walk + 1
        /\ timeout' = [timeout EXCEPT ![e] = n, ![c] = timeout_copy[c]]
        /\ since' = [since EXCEPT ![e] = 0, ![c] = 0]
    BY <1>1, <1>8
  <2>2. timeout' \in [Entry -> Nat] /\ since' \in [Entry -> Nat]
    BY <1>2, <1>3, <1>4, <2>1
  <2>3. LagNow'[c] = 0
    BY <1>1, <1>2, <1>3, <1>4, <2>1
  <2>4. ASSUME NEW x \in Entry \ {c}
        PROVE  LagNow'[x] = added[x]
    <3>1. CASE x = e
      BY <1>1, <1>2, <1>3, <1>4, <2>1, <2>4, <3>1
    <3>2. CASE x # e
      BY <1>1, <1>2, <1>3, <1>4, <2>1, <2>4, <3>2
    <3> QED
      BY <3>1, <3>2
  <2> HIDE DEF added
  <2>5. InTime(c, LagNow'[c], FALSE)
    BY <2>3 DEF InTime
  <2>6. Accounted(a, LagNow', walk + 1)
    BY <1>2, <1>5, <1>6, <1>7, <2>4, <2>5, PassKeepsAccount
  <2>7. TickAccounting' /\ walk' \in 0 .. Len(tick_queue')
    BY <1>2, <1>3, <1>5, <1>6, <2>1, <2>6, AccountedNext
  <2>8. \A t \in Task : InList(tick_queue', t) <=> InList(tick_queue, t)
    BY <1>4, <1>5, <2>1
  <2>9. timeout_copy' \in [Entry -> Nat] /\ cycle' \subseteq SoftTimer
    BY <1>1, <1>3, <1>4
  <2> QED
    BY <1>1, <1>2, <1>5, <2>1, <2>2, <2>7, <2>8, <2>9, WalkStepPreserves
<1>9. CASE c \notin cycle
  <2>1. /\ tick_queue' = d /\ walk' = walk /\ timeout' = [timeout EXCEPT ![e] = n]
        /\ since' = [since EXCEPT ![e] = 0]
    BY <1>1, <1>9
  <2>2. timeout' \in [Entry -> Nat] /\ since' \in [Entry -> Nat]
    BY <1>3, <1>4, <2>1
  <2>3. LagNow' = added
    <3>1. \A x \in Entry : LagNow'[x] = added[x]
      BY <1>1, <1>3, <1>4, <2>1
    <3> QED
      BY <1>3, <3>1
  <2> HIDE DEF added
  <2>4. /\ d \in Seq(Entry) /\ Len(d) = Len(a) - 1 /\ Distinct(d)
        /\ \A u : InList(d, u) <=> u # c /\ InList(a, u)
    BY <1>5, <1>6, DroppedAt
  <2>5. Accounted(d, LagNow', walk)
    BY <1>2, <1>5, <1>6, <1>7, <2>3, DropKeepsAccount
  <2> HIDE DEF d
  <2>6. TickAccounting' /\ walk' \in 0 .. Len(tick_queue')
    BY <1>2, <1>3, <1>6, <2>1, <2>4, <2>5, AccountedNext
  <2>7. \A t \in Task : InList(tick_queue', t) <=> InList(tick_queue, t)
    BY <1>1, <1>4, <1>5, <2>1, <2>4, TimerAssumption
  <2>8. timeout_copy' \in [Entry -> Nat] /\ cycle' \subseteq SoftTimer
    BY <1>1, <1>3, <1>4
  <2> QED
    BY <1>1, <1>2, <2>1, <2>2, <2>4, <2>6, <2>7, <2>8, WalkStepPreserves
<1> QED
  BY <1>8, <1>9

(* The interrupt ends in schedule().                                       *)
LEMMA TickEndPreserves ==
    ASSUME TimerInv, TickEnd
    PROVE  TimerInv'
<1>1. /\ walk = Len(tick_queue) /\ walk' = OffWalk /\ ScheduleFrom(ready)
      /\ UNCHANGED <<prio, created, schedule_is_lock, at>>
      /\ UNCHANGED <<tick_queue, timeout, timeout_copy, cycle, since>>
  BY DEF TickEnd, tickVars
<1>2. /\ TableTypeOK /\ prio \in [Task -> Prio] /\ created \subseteq Task
      /\ WellFormed(ready, prio) /\ schedule_is_lock = FALSE /\ Idle \in Members(ready)
      /\ Members(ready) = created \ Delayed /\ Delayed \subseteq created \ {Idle}
      /\ tick_queue \in Seq(Entry) /\ (~NoInterrupt => Started)
      /\ (Started => new_task \in Task)
  BY TimerInvFacts
<1>3. ~NoInterrupt /\ Started /\ new_task \in Task /\ Len(tick_queue) \in Nat
  BY <1>1, <1>2, LenProperties DEF NoInterrupt, OffWalk
<1>4. /\ WellFormed(ready', prio) /\ Members(ready') = Members(ready)
      /\ new_task' \in Members(ready) /\ new_task' \in Task
  BY <1>1, <1>2, <1>3, SwitchGoesToReady
<1>5. Delayed' = Delayed /\ Started' /\ NoInterrupt'
  BY <1>1, <1>4, TaskAssumption DEF Delayed, Armed, Started, NoInterrupt
<1>6. TimerTypeOK'
  BY <1>1, <1>2, <1>4 DEF TimerInv, TimerTypeOK, TableTypeOK, WellFormed
<1>7. TimerTableInv'
  BY <1>1, <1>2, <1>4, <1>5 DEF TimerInv, TimerTableInv, ReadyTasks
<1>8. TickAccounting'
  <2>1. LagNow' = LagNow
    BY <1>1 DEF LagNow, Lag
  <2>2. Passed' = Len(tick_queue) /\ Passed = Len(tick_queue)
    BY <1>1, <1>5 DEF Passed
  <2>3. Accounted(tick_queue, LagNow, Passed)
    BY <1>2, AccountingIsAccounted DEF TimerInv
  <2> QED
    BY <1>1, <1>2, <2>1, <2>2, <2>3, AccountedNext
<1> QED
  BY <1>6, <1>7, <1>8 DEF TimerInv

(* An entry that is queued outside the interrupt.                          *)
LEMMA EnqueueAccounted ==
    ASSUME TimerInv, NoInterrupt, walk' = walk, NEW e \in Entry, NEW n \in Nat,
           ~Armed(e), Enqueue(e, n)
    PROVE  /\ TickAccounting' /\ tick_queue' \in Seq(Entry) /\ Distinct(tick_queue')
           /\ \A u : InList(tick_queue', u) <=> u = e \/ InList(tick_queue, u)
           /\ timeout' \in [Entry -> Nat] /\ timeout_copy' \in [Entry -> Nat]
           /\ since' \in [Entry -> Nat]
<1> DEFINE a == Append(tick_queue, e)
           len == Len(tick_queue)
<1>1. /\ tick_queue' = a /\ timeout' = [timeout EXCEPT ![e] = n]
      /\ timeout_copy' = [timeout_copy EXCEPT ![e] = n] /\ since' = [since EXCEPT ![e] = 0]
  BY DEF Enqueue
<1>2. /\ tick_queue \in Seq(Entry) /\ Distinct(tick_queue)
      /\ timeout \in [Entry -> Nat] /\ timeout_copy \in [Entry -> Nat]
      /\ since \in [Entry -> Nat]
  BY TimerInvFacts
<1>3. ~InList(tick_queue, e) /\ len \in Nat
  BY <1>2, LenProperties DEF Armed, InList
<1>4. /\ a \in Seq(Entry) /\ Distinct(a) /\ Len(a) = len + 1
      /\ \A u : InList(a, u) <=> u = e \/ InList(tick_queue, u)
  BY <1>2, <1>3, AppendedList
<1>5. /\ timeout' \in [Entry -> Nat] /\ timeout_copy' \in [Entry -> Nat]
      /\ since' \in [Entry -> Nat]
  BY <1>1, <1>2
<1>6. LagNow'[e] = 0 /\ \A x \in Entry \ {e} : LagNow'[x] = LagNow[x]
  BY <1>1, <1>2 DEF LagNow, Lag
<1>7. Accounted(tick_queue, LagNow, len)
  BY <1>2, AccountingIsAccounted DEF TimerInv, Passed
<1>8. Passed' = len + 1
  BY <1>1, <1>4 DEF Passed, NoInterrupt
<1>9. Accounted(a, LagNow', len + 1)
  <2> DEFINE after == LagNow'
             passed == len + 1
  <2>1. /\ \A x \in Entry \ {e} : after[x] = LagNow[x]
        /\ InTime(e, after[e], len + 1 > passed)
        /\ passed \in Nat /\ (len = Len(tick_queue) /\ passed = Len(tick_queue) + 1)
    BY <1>3, <1>6 DEF InTime
  <2> HIDE DEF after, passed
  <2>2. Accounted(a, after, passed)
    BY <1>2, <1>3, <1>7, <2>1, AppendKeepsAccount
  <2> QED
    BY <2>2 DEF after, passed
<1>10. TickAccounting'
  BY <1>1, <1>4, <1>8, <1>9, AccountedNext
<1> QED
  BY <1>1, <1>4, <1>5, <1>10

(* os_delay up to its interrupt_enable: the caller leaves the ready table. *)
LEMMA OsDelayPreserves ==
    ASSUME TimerInv, NoInterrupt, NEW t \in Task \ {Idle}, NEW n \in Timeout, OsDelay(t, n)
    PROVE  TimerInv'
<1>1. /\ Running(t) /\ at[t] = User /\ Enqueue(t, n)
      /\ ready' = Delete(ready, prio[t], t) /\ at' = [at EXCEPT ![t] = Trailing]
      /\ UNCHANGED <<prio, created, new_task, schedule_is_lock, cycle, walk>>
  BY DEF OsDelay, InUserCode
<1>2. /\ TableTypeOK /\ prio \in [Task -> Prio] /\ created \subseteq Task
      /\ WellFormed(ready, prio) /\ schedule_is_lock = FALSE /\ Idle \in Members(ready)
      /\ Members(ready) = created \ Delayed /\ Delayed \subseteq created \ {Idle}
      /\ at \in [Task -> {User, Trailing}] /\ cycle \subseteq SoftTimer
  BY TimerInvFacts
<1>3. t \in Members(ready) /\ t \in created /\ ~Armed(t) /\ Started /\ new_task = t
  <2>1. Started /\ new_task = t /\ User # Trailing
    BY <1>1 DEF Running, User, Trailing
  <2>2. t \in Members(ready)
    BY <1>1, <2>1 DEF TimerInv, TimerTableInv, ReadyTasks
  <2> QED
    BY <1>2, <2>1, <2>2 DEF Delayed
<1>4. /\ TickAccounting' /\ tick_queue' \in Seq(Entry) /\ Distinct(tick_queue')
      /\ \A u : InList(tick_queue', u) <=> u = t \/ InList(tick_queue, u)
      /\ timeout' \in [Entry -> Nat] /\ timeout_copy' \in [Entry -> Nat]
      /\ since' \in [Entry -> Nat]
  <2>1. t \in Entry /\ n \in Nat
    BY TimerAssumption DEF Entry
  <2> QED
    BY <1>1, <1>3, <2>1, EnqueueAccounted
<1>5. WellFormed(ready', prio) /\ Members(ready') = Members(ready) \ {t}
  BY <1>1, <1>2, <1>3, DeletePreserves
<1>6. Delayed' = Delayed \cup {t}
  BY <1>4 DEF Delayed, Armed, InList
<1>7. TimerTypeOK'
  <2>1. walk' \in {OffWalk} \cup 0 .. Len(tick_queue')
    BY <1>1 DEF NoInterrupt
  <2> QED
    BY <1>1, <1>2, <1>4, <1>5, <2>1 DEF TimerTypeOK, TableTypeOK, WellFormed
<1>8. TimerTableInv'
  <2>1. /\ Members(ready') = created' \ Delayed' /\ Delayed' \subseteq created' \ {Idle}
        /\ Idle \in created' /\ Started'
    BY <1>1, <1>2, <1>3, <1>5, <1>6 DEF Started
  <2>2. new_task' \in created' /\ at'[new_task'] = Trailing
    BY <1>1, <1>2, <1>3
  <2> QED
    BY <1>1, <1>2, <1>4, <1>5, <2>1, <2>2 DEF TimerTableInv, ReadyTasks
<1> QED
  BY <1>4, <1>7, <1>8 DEF TimerInv

(* timer_req outside the interrupt.                                        *)
LEMMA TimerReqPreserves ==
    ASSUME TimerInv, NoInterrupt, NEW t \in Task \ {Idle}, NEW n \in Timeout,
           NEW e \in SoftTimer, NEW period, TimerReq(t, e, n, period)
    PROVE  TimerInv'
<1>1. /\ Started /\ ~Armed(e) /\ Enqueue(e, n) /\ UNCHANGED schedVars /\ walk' = walk
      /\ cycle' = cycle \cup {e} \/ cycle' = cycle \ {e}
  BY DEF TimerReq, RequestSoftTimer, InUserCode, Running
<1>2. e \in Entry /\ n \in Nat /\ e \notin Task /\ cycle \subseteq SoftTimer
  BY TimerAssumption, TimerInvFacts DEF Entry
<1>3. /\ TickAccounting' /\ tick_queue' \in Seq(Entry) /\ Distinct(tick_queue')
      /\ \A u : InList(tick_queue', u) <=> u = e \/ InList(tick_queue, u)
      /\ timeout' \in [Entry -> Nat] /\ timeout_copy' \in [Entry -> Nat]
      /\ since' \in [Entry -> Nat]
  BY <1>1, <1>2, EnqueueAccounted
<1>4. \A u \in Task : InList(tick_queue', u) <=> InList(tick_queue, u)
  BY <1>2, <1>3
<1>5. cycle' \subseteq SoftTimer /\ walk' \in {OffWalk} \cup 0 .. Len(tick_queue')
  BY <1>1, <1>2 DEF NoInterrupt
<1> QED
  BY <1>1, <1>3, <1>4, <1>5, WalkStepPreserves

-----------------------------------------------------------------------------
(* system_init and tick_queue_init.                                        *)
LEMMA TimerInitEstablishesInv == TimerInit => TimerInv
<1> SUFFICES ASSUME TimerInit
             PROVE  TimerInv
  OBVIOUS
<1>1. /\ SchedTypeOK /\ WellFormed(ready, prio) /\ ReadyTasks = created
      /\ Idle \in created
  BY InitEstablishesInv DEF TimerInit, SchedInv, AllReady
<1>2. /\ at = [t \in Task |-> User] /\ schedule_is_lock = FALSE /\ new_task = NoTask
      /\ tick_queue = <<>> /\ walk = OffWalk /\ cycle = {}
      /\ timeout = [e \in Entry |-> 0] /\ timeout_copy = [e \in Entry |-> 0]
      /\ since = [e \in Entry |-> 0]
  BY DEF TimerInit, SchedInit
<1>3. Delayed = {} /\ NoInterrupt /\ ~Started
  BY <1>2 DEF Delayed, Armed, NoInterrupt, Started
<1>4. TimerTypeOK
  BY <1>1, <1>2, EmptySeq DEF TimerTypeOK, SchedTypeOK, TableTypeOK
<1>5. TimerTableInv
  BY <1>1, <1>2, <1>3 DEF TimerTableInv, Distinct
<1>6. TickAccounting
  BY <1>2 DEF TickAccounting
<1> QED
  BY <1>4, <1>5, <1>6 DEF TimerInv

(* Every step of the kernel with delays and timers keeps the invariant.    *)
LEMMA TimerNextPreservesInv == TimerInv /\ [TimerNext]_timerVars => TimerInv'
<1> SUFFICES ASSUME TimerInv, [TimerNext]_timerVars
             PROVE  TimerInv'
  OBVIOUS
<1>1. /\ TableTypeOK /\ WellFormed(ready, prio) /\ schedule_is_lock = FALSE
      /\ Idle \in Members(ready) /\ Members(ready) = created \ Delayed
      /\ Members(ready) \subseteq created /\ Delayed \subseteq created
      /\ at \in [Task -> {User, Trailing}]
  BY TimerInvFacts
<1>2. ASSUME Boot \/ Preempt \/ \E t \in Task : Schedule(t), UNCHANGED <<tickVars, walk>>
      PROVE  TimerInv'
  <2>1. /\ TableTypeOK' /\ WellFormed(ready', prio') /\ schedule_is_lock' = FALSE
        /\ Members(ready') = Members(ready) \cup (created' \ created)
        /\ created \subseteq created'
        /\ Started' => new_task' \in Members(ready')
        /\ \/ at' = at
           \/ \E t \in Task : at' = [at EXCEPT ![t] = User]
        /\ Started => Started'
    BY <1>1, <1>2, OwnStepsPreserve
  <2>2. at' \in [Task -> {User, Trailing}]
    BY <1>1, <2>1
  <2>3. Members(ready') = created' \ Delayed /\ Members(ready') \subseteq created'
    BY <1>1, <2>1
  <2>4. UNCHANGED <<tick_queue, timeout, timeout_copy, cycle, since>> /\ walk' = walk
    BY <1>2 DEF tickVars
  <2> QED
    BY <2>1, <2>2, <2>3, <2>4, UntouchedTimersPreserve
<1>3. CASE HardwareTimer
  BY <1>3, TickBeginPreserves, TickDecrementPreserves, TickEndDelayPreserves,
     ExpireCyclePreserves, ExpireOncePreserves, ExpireAndRequestPreserves, TickEndPreserves
     DEF HardwareTimer, TickSoftTimer
<1>4. CASE UNCHANGED timerVars
  <2>1. /\ UNCHANGED <<ready, prio, created, new_task, schedule_is_lock, at>>
        /\ UNCHANGED <<tick_queue, timeout, timeout_copy, cycle, since>> /\ walk' = walk
    BY <1>4 DEF timerVars, schedVars, tickVars
  <2>2. TableTypeOK' /\ (Started' <=> Started) /\ Members(ready') = Members(ready)
    BY <1>1, <2>1 DEF TableTypeOK, Started
  <2>3. Started => /\ new_task \in created
                   /\ new_task \in Members(ready) \/ at[new_task] = Trailing
    BY DEF TimerInv, TimerTableInv, ReadyTasks
  <2> QED
    BY <1>1, <2>1, <2>2, <2>3, UntouchedTimersPreserve
<1> QED
  BY <1>2, <1>3, <1>4, OsDelayPreserves, TimerReqPreserves DEF TimerNext

(* The invariant gives what the runs check.                                *)
LEMMA TimerInvIsSafe == TimerInv => TimerSafe
BY DEF TimerInv, TimerTableInv, TimerSafe, TimerPlacement, QueuedOnce, WellFormed, Distinct

(* Every task in exactly one place, an exact bitmap, and every entry       *)
(* counted down exactly once per interrupt, whatever the walk deletes and  *)
(* its callbacks append.                                                   *)
THEOREM TimersCount == TimerSpec => []TimerSafe
BY TimerInvIsSafe, TimerInitEstablishesInv, TimerNextPreservesInv, PTL DEF TimerSpec

(* A delay leaves the tick queue only in hardware_timer, with a timeout of *)
(* 0 and the walk's lag of one.                                            *)
LEMMA DelayStepOnTime ==
    ASSUME TimerInv, TimerNext, NEW t \in Task, Armed(t), ~Armed(t)'
    PROVE  since[t] = timeout_copy[t] + 1
<1>1. InList(tick_queue, t) /\ ~InList(tick_queue', t) /\ tick_queue' # tick_queue
  BY DEF Armed, InList
<1>2. /\ tick_queue \in Seq(Entry) /\ Distinct(tick_queue)
      /\ since \in [Entry -> Nat] /\ timeout_copy \in [Entry -> Nat]
  BY TimerInvFacts
<1>3. ASSUME NEW e \in Entry, tick_queue' = Append(tick_queue, e), ~Armed(e)
      PROVE  FALSE
  <2>1. ~InList(tick_queue, e)
    BY <1>3 DEF Armed, InList
  <2>2. \A u : InList(Append(tick_queue, e), u) <=> u = e \/ InList(tick_queue, u)
    BY <1>2, <2>1, AppendedList
  <2> QED
    BY <1>1, <1>3, <2>2
<1>4. CASE TickEndDelay
  <2> DEFINE c == Current
  <2>1. /\ Walking /\ timeout[c] = 0 /\ tick_queue' = DropAt(tick_queue, walk + 1)
        /\ UNCHANGED <<walk, timeout, timeout_copy, since>>
    BY <1>4 DEF TickEndDelay
  <2>2. \A u : InList(tick_queue', u) <=> u # c /\ InList(tick_queue, u)
    BY <2>1, DropAccounted
  <2>3. t = c
    BY <1>1, <2>2
  <2>4. InTime(c, Lag(c), TRUE) /\ c \in Entry
    BY <2>1, CurrentFacts
  <2> HIDE DEF c
  <2>5. since[c] \in Nat /\ timeout_copy[c] \in Nat
    BY <1>2, <2>4
  <2> QED
    BY <2>1, <2>3, <2>4, <2>5 DEF InTime, Lag
<1>5. ASSUME Walking, Current \in SoftTimer, ExpireOnce
      PROVE  FALSE
  <2>1. \A u : InList(tick_queue', u) <=> u # Current /\ InList(tick_queue, u)
    BY <1>5, DropAccounted DEF ExpireOnce
  <2> QED
    BY <1>1, <1>5, <2>1, TimerAssumption
<1>6. ASSUME Walking, Current \in SoftTimer, NEW e \in SoftTimer, NEW n \in Timeout,
             ExpireAndRequest(e, n)
      PROVE  FALSE
  <2> DEFINE a == Append(tick_queue, e)
  <2>1. e \in Entry /\ ~InList(tick_queue, e)
    BY <1>6 DEF ExpireAndRequest, Armed, InList, Entry
  <2>2. /\ a \in Seq(Entry) /\ Distinct(a)
        /\ \A u : InList(a, u) <=> u = e \/ InList(tick_queue, u)
    BY <1>2, <2>1, AppendedList
  <2>3. tick_queue' = DropAt(a, walk + 1)
    BY <1>3, <1>6, <2>1 DEF ExpireAndRequest
  <2>4. walk + 1 \in DOMAIN a /\ a[walk + 1] = Current
    <3>1. walk + 1 \in 1 .. Len(tick_queue) /\ Current = tick_queue[walk + 1]
          /\ Len(tick_queue) \in Nat
      BY <1>6, CurrentFacts
    <3>2. Len(a) = Len(tick_queue) + 1 /\ a[walk + 1] = tick_queue[walk + 1]
      BY <1>2, <2>1, <3>1, AppendProperties
    <3> HIDE DEF a
    <3>3. DOMAIN a = 1 .. Len(a)
      BY <2>2, LenProperties
    <3> QED
      BY <3>1, <3>2, <3>3
  <2> HIDE DEF a
  <2>5. \A u : InList(DropAt(a, walk + 1), u) <=> u # a[walk + 1] /\ InList(a, u)
    BY <2>2, <2>4, DroppedAt
  <2> QED
    BY <1>1, <1>6, <2>2, <2>3, <2>4, <2>5, TimerAssumption
<1>7. ASSUME NEW u \in Task, NEW n \in Timeout, OsDelay(u, n), NoInterrupt, u # Idle
      PROVE  FALSE
  <2>1. Running(u) /\ at[u] = User /\ User # Trailing
    BY <1>7 DEF OsDelay, InUserCode, User, Trailing
  <2>2. ~Armed(u)
    BY <2>1 DEF TimerInv, TimerTableInv, Running, Delayed
  <2> QED
    BY <1>3, <1>7, <2>2 DEF OsDelay, Enqueue, Entry
<1>8. ASSUME NEW u \in Task, NEW e \in SoftTimer, NEW n \in Timeout, NEW period,
             TimerReq(u, e, n, period)
      PROVE  FALSE
  BY <1>3, <1>8 DEF TimerReq, RequestSoftTimer, Enqueue, Entry
<1> QED
  BY <1>1, <1>4, <1>5, <1>6, <1>7, <1>8
     DEF TimerNext, HardwareTimer, TickSoftTimer, TickBegin, TickDecrement, TickEnd,
         ExpireCycle, tickVars

(* os_delay(n) ends in the timer interrupt number n + 1 after the call.    *)
THEOREM DelaysOnTime == TimerSpec => DelayOnTime
<1> DEFINE OnTime == \A t \in Task : Armed(t) /\ ~Armed(t)' => since[t] = timeout_copy[t] + 1
<1>1. TimerInv /\ [TimerNext]_timerVars => [OnTime]_timerVars
  BY DelayStepOnTime
<1> QED
  BY <1>1, TimerInitEstablishesInv, TimerNextPreservesInv, PTL DEF TimerSpec, DelayOnTime

-----------------------------------------------------------------------------
(* The programs of MCKernelObjects.  What those that change priorities are *)
(* checked for holds of callers that disable interrupts, and of nothing    *)
(* weaker; it is left to the runs.                                         *)

(* The program uses one kind of object, and what that object's proof keeps *)
(* is kept.                                                                *)
ObjectsInv ==
    /\ use \in {"sleep", "nest"} => MutexInv
    /\ use = "msg" => MsgInv
    /\ use = "timer" => TimerInv
    /\ use \in {"sleep", "nest", "msg", "timer", "change"}

(* The invariant of the object in use, in the initial state.               *)
LEMMA ObjectsInitEstablishesInv == ObjectsInit => ObjectsInv
BY MutexInitEstablishesInv, MsgInitEstablishesInv, TimerInitEstablishesInv
   DEF ObjectsInit, ObjectsInv

(* Every step of the object in use keeps its invariant.                    *)
LEMMA ObjectsNextPreservesInv == ObjectsInv /\ [ObjectsNext]_objectVars => ObjectsInv'
<1> SUFFICES ASSUME ObjectsInv, [ObjectsNext]_objectVars
             PROVE  ObjectsInv'
  OBVIOUS
<1>1. use' = use
  BY DEF ObjectsNext, MutexUse, MsgUse, TimerUse, ChangeUse, objectVars
<1>2. ASSUME use \in {"sleep", "nest"}
      PROVE  MutexInv'
  <2>1. [MutexNext]_mutexVars
    BY <1>2 DEF ObjectsNext, MutexUse, MsgUse, TimerUse, ChangeUse, objectVars
  <2> QED
    BY <1>2, <2>1, MutexNextPreservesInv DEF ObjectsInv
<1>3. ASSUME use = "msg"
      PROVE  MsgInv'
  <2>1. [MsgNext]_msgVars
    BY <1>3 DEF ObjectsNext, MutexUse, MsgUse, TimerUse, ChangeUse, objectVars
  <2> QED
    BY <1>3, <2>1, MsgNextPreservesInv DEF ObjectsInv
<1>4. ASSUME use = "timer"
      PROVE  TimerInv'
  <2>1. [TimerNext]_timerVars
    BY <1>4 DEF ObjectsNext, MutexUse, MsgUse, TimerUse, ChangeUse, objectVars
  <2> QED
    BY <1>4, <2>1, TimerNextPreservesInv DEF ObjectsInv
<1> QED
  BY <1>1, <1>2, <1>3, <1>4 DEF ObjectsInv

(* Mutexes, message queues and timers keep their promises, and the bitmap  *)
(* is exact, in every program of the composition.                          *)
THEOREM ObjectsSafe ==
    FairObjects => [](BitmapsExact /\ MutexesSafe /\ QueuesSafe /\ TimersSafe)
<1>1. ObjectsInv => MutexesSafe /\ QueuesSafe /\ TimersSafe
  BY MutexInvIsSafe, MsgInvIsSafe, TimerInvIsSafe
     DEF ObjectsInv, MutexesSafe, QueuesSafe, TimersSafe
<1>2. ObjectsInv => BitmapsExact
  BY MutexInvFacts, MsgInvFacts, TimerInvFacts
     DEF ObjectsInv, BitmapsExact, BitmapExact, WellFormed
<1> QED
  BY <1>1, <1>2, ObjectsInitEstablishesInv, ObjectsNextPreservesInv, PTL DEF FairObjects

-----------------------------------------------------------------------------
(* A mutex step that switches does so with the ready table that the call   *)
(* or the end of a delay has left.                                         *)
LEMMA MutexSwitches ==
    ASSUME MutexInv, MutexNext, Started
    PROVE  new_task' # new_task => Highest(new_task)'
<1>1. /\ TableTypeOK /\ prio \in [Task -> Prio] /\ WellFormed(ready, prio)
      /\ Idle \in Members(ready) /\ new_task \in Task
      /\ Members(ready) = created \ (MutexBlocked \cup asleep)
  BY MutexInvFacts
<1>2. ASSUME NEW t \in Task \ {Idle}, NEW m \in Mutex, MutexGetBlock(t, m)
      PROVE  new_task' # new_task => Highest(new_task)'
  <2> DEFINE r == Delete(ready, prio[t], t)
  <2>1. t \in Members(ready) /\ ScheduleFrom(r) /\ prio' = prio
    BY <1>2, MutexPlacesDiffer, MutexRunningFacts DEF MutexGetBlock, InUserCode
  <2>2. WellFormed(r, prio) /\ Members(r) = Members(ready) \ {t}
    BY <1>1, <2>1, DeletePreserves
  <2> HIDE DEF r
  <2> QED
    BY <1>1, <2>1, <2>2, SwitchIsHighest
<1>3. ASSUME NEW t \in Task \ {Idle}, Wake(t)
      PROVE  new_task' # new_task => Highest(new_task)'
  <2> DEFINE r == InsertTail(ready, prio[t], t)
  <2>1. t \in asleep /\ ScheduleFrom(r) /\ prio' = prio
    BY <1>3 DEF Wake
  <2>2. WellFormed(r, prio) /\ Members(r) = Members(ready) \cup {t}
    BY <1>1, <2>1, InsertTailPreserves
  <2> HIDE DEF r
  <2> QED
    BY <1>1, <2>1, <2>2, SwitchIsHighest
<1>4. CASE Boot \/ Preempt \/ \E t \in Task : Schedule(t)
  BY <1>1, <1>4, OwnStepsSwitch
<1>5. ASSUME NEW t \in Task \ {Idle}, NEW m \in Mutex,
             MutexGetFree(t, m) \/ MutexGetReturn(t, m) \/ MutexPut(t, m)
      PROVE  new_task' = new_task
  BY <1>5 DEF MutexGetFree, MutexGetReturn, MutexPut
<1>6. ASSUME NEW t \in Task \ {Idle}, Sleep(t)
      PROVE  new_task' = new_task
  BY <1>6 DEF Sleep
<1> QED
  BY <1>2, <1>3, <1>4, <1>5, <1>6 DEF MutexNext, MutexBoot, MutexCall

(* Of the steps of the message queues only msg_get's schedule() switches.  *)
LEMMA MsgSwitches ==
    ASSUME MsgInv, MsgNext, Started
    PROVE  new_task' # new_task => Highest(new_task)'
<1>1. /\ TableTypeOK /\ prio \in [Task -> Prio] /\ WellFormed(ready, prio)
      /\ Idle \in Members(ready) /\ new_task \in Task
  BY MsgInvFacts
<1>2. CASE Boot \/ Preempt \/ \E t \in Task : Schedule(t)
  BY <1>1, <1>2, OwnStepsSwitch
<1>3. ASSUME NEW t \in Task \ {Idle}, NEW q \in Queue, MsgGetSwitch(t, q)
      PROVE  new_task' # new_task => Highest(new_task)'
  BY <1>1, <1>3, SwitchIsHighest DEF MsgGetSwitch
<1> QED
  BY <1>2, <1>3
     DEF MsgNext, MsgCall, MsgPut, MsgGetFetch, MsgGetBlock, MsgGetReturnEmpty

(* hardware_timer switches in its last step, when every delay that ended   *)
(* in this interrupt has made its task ready.                              *)
LEMMA TimerSwitches ==
    ASSUME TimerInv, TimerNext, Started
    PROVE  new_task' # new_task => Highest(new_task)'
<1>1. /\ TableTypeOK /\ prio \in [Task -> Prio] /\ WellFormed(ready, prio)
      /\ Idle \in Members(ready) /\ new_task \in Task
  BY TimerInvFacts
<1>2. CASE Boot \/ Preempt \/ \E t \in Task : Schedule(t)
  BY <1>1, <1>2, OwnStepsSwitch
<1>3. CASE TickEnd
  BY <1>1, <1>3, SwitchIsHighest DEF TickEnd
<1>4. CASE TickBegin \/ TickDecrement \/ TickEndDelay \/ TickSoftTimer
  BY <1>4 DEF TickBegin, TickDecrement, TickEndDelay, TickSoftTimer, ExpireCycle,
              ExpireOnce, ExpireAndRequest, schedVars
<1>5. ASSUME NEW t \in Task, NEW n \in Timeout,
             OsDelay(t, n) \/ \E e \in SoftTimer, p \in {"ONCE", "CYCLE"} : TimerReq(t, e, n, p)
      PROVE  new_task' = new_task
  BY <1>5 DEF OsDelay, TimerReq, schedVars
<1> QED
  BY <1>2, <1>3, <1>4, <1>5 DEF TimerNext, HardwareTimer

(* In a program that changes no priorities every switch goes to a task of  *)
(* the highest priority that is then ready, whatever blocks, wakes, sleeps *)
(* or takes the ceiling on the way.                                        *)
THEOREM ObjectsSwitchToHighest ==
    FairObjects /\ [](use # "change") => SwitchToHighest
<1> DEFINE ToHighest == new_task' # new_task /\ Started => Highest(new_task)'
<1>1. ObjectsInv /\ use # "change" /\ [ObjectsNext]_objectVars => [ToHighest]_schedVars
  <2> SUFFICES ASSUME ObjectsInv, use # "change", ObjectsNext, Started
               PROVE  new_task' # new_task => Highest(new_task)'
    BY DEF objectVars, mutexVars, schedVars
  <2>1. CASE MutexUse
    BY <2>1, MutexSwitches DEF MutexUse, ObjectsInv
  <2>2. CASE MsgUse
    BY <2>2, MsgSwitches DEF MsgUse, ObjectsInv
  <2>3. CASE TimerUse
    BY <2>3, TimerSwitches DEF TimerUse, ObjectsInv
  <2> QED
    BY <2>1, <2>2, <2>3 DEF ObjectsNext, ChangeUse
<1> QED
  BY <1>1, ObjectsInitEstablishesInv, ObjectsNextPreservesInv, PTL
     DEF FairObjects, SwitchToHighest
=============================================================================
