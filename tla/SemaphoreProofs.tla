-------------------------- MODULE SemaphoreProofs ---------------------------
(***************************************************************************)
(* The semaphores for any set of tasks, semaphores, priorities and initial *)
(* counts: tasks are in exactly one list, units are conserved, and the     *)
(* kernel implements AbstractSemaphore.  The scheduler is not locked       *)
(* (SemSpec); with schedule_lock the theorems do not hold.                 *)
(***************************************************************************)
EXTENDS Semaphore, PrioSchedProofs, FiniteSetTheorems

(* SemTypeOK without the claim that units is never negative, which needs   *)
(* the conservation of units.                                              *)
SemTypes ==
    /\ TableTypeOK
    /\ at \in [Task -> SemPlace]
    /\ count \in [Sem -> 0 .. MaxCount]
    /\ waiting \in [Sem -> Seq(Task)]
    /\ units \in [Sem -> Int]

(* The part of the invariant that speaks of the ready table: the scheduler *)
(* is unlocked and the table holds the created tasks that do not wait, the *)
(* idle task among them.                                                   *)
TableInv ==
    /\ WellFormed(ready, prio)
    /\ schedule_is_lock = FALSE
    /\ ReadyTasks = created \ Blocked
    /\ RunningIsReady
    /\ Idle \in created
    /\ Blocked \subseteq created

(* The part that speaks of the wait lists.                                 *)
WaitInv ==
    /\ \A s \in Sem : \A i, j \in DOMAIN waiting[s] :
          waiting[s][i] = waiting[s][j] => i = j
    /\ \A t \in Task, s \in Sem : WaitsFor(t, s) => at[t] = InSemGet(s)
    /\ at[Idle] \in {User, Trailing}

SemInv == SemTypes /\ TableInv /\ WaitInv /\ NoUnitWhileWaiting /\ UnitsConserved

-----------------------------------------------------------------------------
(* The places of a task are told apart.                                    *)
LEMMA PlacesDiffer ==
    /\ User # Trailing
    /\ \A s : InSemGet(s) # User /\ InSemGet(s) # Trailing
    /\ \A s, z : InSemGet(s) = InSemGet(z) => s = z
BY DEF User, Trailing, InSemGet

(* Sets of tasks are finite, so the woken tasks can be counted.            *)
LEMMA WokenFinite ==
    ASSUME NEW s \in Sem
    PROVE  IsFiniteSet(Woken(s)) /\ Cardinality(Woken(s)) \in Nat
BY FiniteTasks, FS_Subset, FS_CardinalityType DEF Woken

(* What the invariant says of a task that runs in code of its own.         *)
LEMMA RunningFacts ==
    ASSUME SemInv, NEW t \in Task, Running(t), t # Idle
    PROVE  /\ t \in ReadyTasks /\ t \notin Blocked /\ t \in created
           /\ \A s \in Sem : ~WaitsFor(t, s)
           /\ Started /\ new_task \in Task
           /\ Idle \in ReadyTasks
<1>1. t \in ReadyTasks /\ t \notin Blocked /\ t \in created /\ Started
  BY DEF SemInv, TableInv, RunningIsReady, Running
<1>2. \A s \in Sem : ~WaitsFor(t, s)
  BY <1>1 DEF Blocked
<1>3. Idle \notin Blocked
  BY PlacesDiffer DEF SemInv, WaitInv, Blocked
<1> QED
  BY <1>1, <1>2, <1>3 DEF SemInv, TableInv, Running

-----------------------------------------------------------------------------
(* sem_get of a unit that is there.                                        *)
LEMMA GetAvailablePreserves ==
    ASSUME SemInv, NEW t \in Task \ {Idle}, NEW s \in Sem, SemGetAvailable(t, s)
    PROVE  SemInv'
<1> USE DEF SemInv
<1>1. /\ count[s] \in 0 .. MaxCount /\ count[s] > 0
      /\ count' = [count EXCEPT ![s] = @ - 1] /\ units' = [units EXCEPT ![s] = @ - 1]
      /\ UNCHANGED <<ready, prio, created, new_task, schedule_is_lock, at, waiting>>
  BY DEF SemGetAvailable, SemTypes, schedVars
<1>2. /\ Members(ready)' = Members(ready) /\ Blocked' = Blocked
      /\ \A z \in Sem : Woken(z)' = Woken(z)
  BY <1>1 DEF Blocked, WaitsFor, Woken
<1>3. SemTypes'
  BY <1>1, SemAssumption DEF SemTypes, TableTypeOK
<1>4. TableInv'
  BY <1>1, <1>2 DEF TableInv, ReadyTasks, RunningIsReady, Started
<1>5. WaitInv'
  BY <1>1 DEF WaitInv, WaitsFor
<1>6. NoUnitWhileWaiting'
  BY <1>1 DEF NoUnitWhileWaiting, SemTypes
<1>7. UnitsConserved'
  <2>1. ASSUME NEW z \in Sem PROVE units'[z] = count'[z] + Cardinality(Woken(z))
    BY <1>1, <2>1, WokenFinite DEF UnitsConserved, SemTypes
  <2> QED
    BY <1>2, <2>1 DEF UnitsConserved
<1> QED
  BY <1>3, <1>4, <1>5, <1>6, <1>7

(* sem_get that blocks: the caller goes from the ready table to the end of *)
(* the wait list and the CPU to another task.                              *)
LEMMA GetBlockPreserves ==
    ASSUME SemInv, NEW t \in Task \ {Idle}, NEW s \in Sem, SemGetBlock(t, s)
    PROVE  SemInv'
<1> USE DEF SemInv
<1> DEFINE r == Delete(ready, prio[t], t)
           w == Append(waiting[s], t)
<1>1. /\ Running(t) /\ at[t] = User /\ count[s] = 0
      /\ waiting' = [waiting EXCEPT ![s] = w]
      /\ at' = [at EXCEPT ![t] = InSemGet(s)]
      /\ ScheduleFrom(r)
      /\ UNCHANGED <<prio, created, schedule_is_lock, count, units>>
  BY DEF SemGetBlock, InUserCode
<1>2. /\ t \in ReadyTasks /\ t \notin Blocked /\ t \in created
      /\ \A z \in Sem : ~WaitsFor(t, z)
      /\ Started /\ new_task \in Task /\ Idle \in ReadyTasks
  BY <1>1, RunningFacts
<1>3. /\ prio \in [Task -> Prio] /\ WellFormed(ready, prio)
      /\ schedule_is_lock = FALSE /\ waiting \in [Sem -> Seq(Task)]
  BY DEF SemTypes, TableTypeOK, TableInv
<1>4. WellFormed(r, prio) /\ Members(r) = ReadyTasks \ {t}
  BY <1>2, <1>3, DeletePreserves DEF ReadyTasks
<1> HIDE DEF r
<1>5. /\ WellFormed(ready', prio) /\ Members(ready') = ReadyTasks \ {t}
      /\ new_task' \in Members(ready') /\ new_task' \in Task
  BY <1>1, <1>2, <1>3, <1>4, SwitchGoesToReady
<1>6. /\ w \in Seq(Task) /\ w # <<>>
      /\ \A u : (\E i \in DOMAIN w : w[i] = u) <=> u = t \/ WaitsFor(u, s)
      /\ \A i, j \in DOMAIN w : w[i] = w[j] => i = j
  <2>1. /\ waiting[s] \in Seq(Task) /\ \A i \in DOMAIN waiting[s] : waiting[s][i] # t
        /\ \A i, j \in DOMAIN waiting[s] : waiting[s][i] = waiting[s][j] => i = j
    BY <1>2, <1>3 DEF WaitsFor, WaitInv
  <2>2. /\ w \in Seq(Task)
        /\ Len(w) = Len(waiting[s]) + 1
        /\ \A u : (\E i \in DOMAIN w : w[i] = u)
                    <=> u = t \/ \E i \in DOMAIN waiting[s] : waiting[s][i] = u
        /\ \A i, j \in DOMAIN w : w[i] = w[j] => i = j
    BY <2>1, AppendDistinct
  <2>3. w # <<>>
    BY <2>1, <2>2
  <2> QED
    BY <2>2, <2>3 DEF WaitsFor
<1> HIDE DEF w
<1>7. ASSUME NEW u, NEW z \in Sem
      PROVE  WaitsFor(u, z)' <=> WaitsFor(u, z) \/ (u = t /\ z = s)
  <2>1. CASE z = s
    <3>1. waiting'[s] = w
      BY <1>1, <1>3
    <3> QED
      BY <1>6, <2>1, <3>1 DEF WaitsFor
  <2>2. CASE z # s
    BY <1>1, <1>3, <2>2 DEF WaitsFor
  <2> QED
    BY <2>1, <2>2
<1>8. Blocked' = Blocked \cup {t}
  BY <1>7 DEF Blocked
<1>9. \A z \in Sem : Woken(z)' = Woken(z)
  <2>1. at' = [at EXCEPT ![t] = InSemGet(s)] /\ at \in [Task -> SemPlace]
    BY <1>1 DEF SemTypes
  <2> QED
    BY <1>1, <1>7, <2>1, PlacesDiffer DEF Woken
<1>10. SemTypes'
  <2>1. InSemGet(s) \in SemPlace
    BY DEF SemPlace
  <2> QED
    BY <1>1, <1>3, <1>5, <1>6, <2>1 DEF SemTypes, TableTypeOK, WellFormed
<1>11. TableInv'
  <2>1. Members(ready') = created \ (Blocked \cup {t})
    BY <1>5 DEF TableInv
  <2> QED
    BY <1>1, <1>2, <1>3, <1>5, <1>8, <2>1 DEF TableInv, ReadyTasks, RunningIsReady
<1>12. WaitInv'
  <2>1. ASSUME NEW z \in Sem
        PROVE  \A i, j \in DOMAIN waiting'[z] : waiting'[z][i] = waiting'[z][j] => i = j
    BY <1>1, <1>3, <1>6, <2>1 DEF WaitInv
  <2>2. ASSUME NEW u \in Task, NEW z \in Sem, WaitsFor(u, z)'
        PROVE  at'[u] = InSemGet(z)
    BY <1>1, <1>2, <1>7, <2>2 DEF WaitInv, SemTypes
  <2>3. at'[Idle] = at[Idle]
    BY <1>1, IdleAssumption DEF SemTypes
  <2> QED
    BY <2>1, <2>2, <2>3 DEF WaitInv
<1>13. NoUnitWhileWaiting'
  BY <1>1, <1>3 DEF NoUnitWhileWaiting
<1>14. UnitsConserved'
  BY <1>1, <1>9 DEF UnitsConserved
<1> QED
  BY <1>10, <1>11, <1>12, <1>13, <1>14

(* sem_get returns to a task that was woken.                               *)
LEMMA GetReturnPreserves ==
    ASSUME SemInv, NEW t \in Task \ {Idle}, SemGetReturn(t)
    PROVE  SemInv'
<1> USE DEF SemInv
<1>1. PICK s \in Sem : at[t] = InSemGet(s) /\ units' = [units EXCEPT ![s] = @ - 1]
  BY DEF SemGetReturn
<1>2. /\ Running(t) /\ at' = [at EXCEPT ![t] = User]
      /\ UNCHANGED <<ready, prio, created, new_task, schedule_is_lock, count, waiting>>
  BY DEF SemGetReturn
<1>3. \A z \in Sem : ~WaitsFor(t, z)
  BY <1>2, RunningFacts
<1>4. Blocked' = Blocked /\ Members(ready)' = Members(ready)
  BY <1>2 DEF Blocked, WaitsFor
<1>5. \A z \in Sem : Woken(z)' = IF z = s THEN Woken(s) \ {t} ELSE Woken(z)
  BY <1>1, <1>2, PlacesDiffer DEF Woken, WaitsFor, SemTypes
<1>6. t \in Woken(s)
  BY <1>1, <1>3 DEF Woken
<1>7. SemTypes'
  BY <1>1, <1>2 DEF SemTypes, TableTypeOK, SemPlace
<1>8. TableInv'
  BY <1>2, <1>4 DEF TableInv, ReadyTasks, RunningIsReady, Started
<1>9. WaitInv'
  BY <1>2, <1>3 DEF WaitInv, WaitsFor, SemTypes
<1>10. NoUnitWhileWaiting'
  BY <1>2 DEF NoUnitWhileWaiting
<1>11. UnitsConserved'
  <2>1. Cardinality(Woken(s) \ {t}) = Cardinality(Woken(s)) - 1
    BY <1>6, WokenFinite, FS_RemoveElement
  <2>2. /\ units \in [Sem -> Int] /\ count[s] \in Nat
        /\ units[s] = count[s] + Cardinality(Woken(s))
    BY DEF SemTypes, UnitsConserved
  <2>3. units'[s] = count[s] + Cardinality(Woken(s)')
    <3>1. Woken(s)' = Woken(s) \ {t}
      BY <1>5
    <3>2. units'[s] = units[s] - 1
      BY <1>1, <2>2
    <3> QED
      BY <2>1, <2>2, <3>1, <3>2, WokenFinite
  <2>4. ASSUME NEW z \in Sem, z # s PROVE units'[z] = count[z] + Cardinality(Woken(z)')
    BY <1>1, <1>5, <2>2, <2>4 DEF UnitsConserved
  <2> QED
    BY <1>2, <2>3, <2>4 DEF UnitsConserved
<1> QED
  BY <1>7, <1>8, <1>9, <1>10, <1>11

(* sem_put with nobody waiting: count grows up to its limit.               *)
LEMMA PutCountsPreserves ==
    ASSUME SemInv, NEW t \in Task \ {Idle}, NEW s \in Sem, SemPut(t, s),
           waiting[s] = <<>>
    PROVE  SemInv'
<1> USE DEF SemInv
<1>1. /\ count' = [count EXCEPT ![s] = IF @ = MaxCount THEN @ ELSE @ + 1]
      /\ units' = [units EXCEPT ![s] = IF count[s] = MaxCount THEN @ ELSE @ + 1]
      /\ at' = [at EXCEPT ![t] = Trailing] /\ at[t] = User
      /\ UNCHANGED <<ready, prio, created, new_task, schedule_is_lock, waiting>>
      /\ Running(t)
  BY DEF SemPut, CountPut, InUserCode
<1>2. \A z \in Sem : ~WaitsFor(t, z)
  BY <1>1, RunningFacts
<1>3. Blocked' = Blocked /\ Members(ready)' = Members(ready)
  BY <1>1 DEF Blocked, WaitsFor
<1>4. \A z \in Sem : Woken(z)' = Woken(z)
  BY <1>1, PlacesDiffer DEF Woken, WaitsFor, SemTypes
<1>5. SemTypes'
  BY <1>1, SemAssumption DEF SemTypes, TableTypeOK, SemPlace
<1>6. TableInv'
  BY <1>1, <1>3 DEF TableInv, ReadyTasks, RunningIsReady, Started
<1>7. WaitInv'
  BY <1>1, <1>2 DEF WaitInv, WaitsFor, SemTypes
<1>8. NoUnitWhileWaiting'
  BY <1>1 DEF NoUnitWhileWaiting, SemTypes
<1>9. UnitsConserved'
  <2>1. ASSUME NEW z \in Sem PROVE units'[z] = count'[z] + Cardinality(Woken(z))
    BY <1>1, <2>1, WokenFinite, SemAssumption DEF UnitsConserved, SemTypes
  <2> QED
    BY <1>4, <2>1 DEF UnitsConserved
<1> QED
  BY <1>5, <1>6, <1>7, <1>8, <1>9

(* sem_put with a waiter: the first one goes to the ready table and the    *)
(* unit with it.                                                           *)
LEMMA PutWakesPreserves ==
    ASSUME SemInv, NEW t \in Task \ {Idle}, NEW s \in Sem, SemPut(t, s),
           waiting[s] # <<>>
    PROVE  SemInv'
<1> USE DEF SemInv
<1> DEFINE u == Head(waiting[s])
           w == Tail(waiting[s])
           r == InsertHead(ready, prio[u], u)
<1>1. /\ waiting' = [waiting EXCEPT ![s] = w]
      /\ ready' = r
      /\ units' = [units EXCEPT ![s] = @ + 1]
      /\ at' = [at EXCEPT ![t] = Trailing] /\ at[t] = User
      /\ UNCHANGED <<prio, created, new_task, schedule_is_lock, count>>
      /\ Running(t)
  BY DEF SemPut, CountPut, InUserCode
<1>2. \A z \in Sem : ~WaitsFor(t, z)
  BY <1>1, RunningFacts
<1>3. /\ prio \in [Task -> Prio] /\ WellFormed(ready, prio)
      /\ waiting \in [Sem -> Seq(Task)]
  BY DEF SemTypes, TableTypeOK, TableInv
<1>4. /\ u \in Task /\ w \in Seq(Task)
      /\ WaitsFor(u, s)
      /\ \A x : (\E i \in DOMAIN w : w[i] = x) <=> x # u /\ WaitsFor(x, s)
      /\ \A i, j \in DOMAIN w : w[i] = w[j] => i = j
  <2>1. /\ waiting[s] \in Seq(Task)
        /\ \A i, j \in DOMAIN waiting[s] : waiting[s][i] = waiting[s][j] => i = j
    BY <1>3 DEF WaitInv
  <2> QED
    BY <2>1, TailDistinct DEF WaitsFor
<1>5. u \in Blocked /\ u \notin Members(ready) /\ at[u] = InSemGet(s) /\ u # t
  BY <1>2, <1>4 DEF Blocked, TableInv, ReadyTasks, WaitInv
<1>6. WellFormed(r, prio) /\ Members(r) = Members(ready) \cup {u}
  BY <1>3, <1>4, <1>5, InsertHeadPreserves
<1> HIDE DEF u, w, r
<1>7. ASSUME NEW x, NEW z \in Sem
      PROVE  WaitsFor(x, z)' <=> WaitsFor(x, z) /\ ~(x = u /\ z = s)
  <2>1. CASE z = s
    <3>1. waiting'[s] = w
      BY <1>1, <1>3
    <3> QED
      BY <1>4, <2>1, <3>1 DEF WaitsFor
  <2>2. CASE z # s
    BY <1>1, <1>3, <2>2 DEF WaitsFor
  <2> QED
    BY <2>1, <2>2
<1>8. \A z \in Sem : WaitsFor(u, z) => z = s
  BY <1>4, <1>5, PlacesDiffer DEF WaitInv
<1>9. Blocked' = Blocked \ {u}
  BY <1>7, <1>8 DEF Blocked
<1>10. \A z \in Sem : Woken(z)' = IF z = s THEN Woken(s) \cup {u} ELSE Woken(z)
  <2>1. at \in [Task -> SemPlace]
    BY DEF SemTypes
  <2>2. ASSUME NEW z \in Sem, NEW x \in Task
        PROVE  x \in Woken(z)' <=> x \in Woken(z) \/ (z = s /\ x = u)
    BY <1>1, <1>4, <1>5, <1>7, <2>1, PlacesDiffer DEF Woken
  <2> QED
    BY <1>4, <2>2 DEF Woken
<1>11. u \notin Woken(s)
  BY <1>4 DEF Woken
<1>12. SemTypes'
  BY <1>1, <1>3, <1>4, <1>6 DEF SemTypes, TableTypeOK, SemPlace, WellFormed
<1>13. TableInv'
  <2>1. Members(ready') = created \ (Blocked \ {u})
    BY <1>1, <1>4, <1>5, <1>6 DEF TableInv, ReadyTasks
  <2> QED
    BY <1>1, <1>6, <1>9, <2>1 DEF TableInv, ReadyTasks, RunningIsReady, Started
<1>14. WaitInv'
  <2>1. ASSUME NEW z \in Sem
        PROVE  \A i, j \in DOMAIN waiting'[z] : waiting'[z][i] = waiting'[z][j] => i = j
    BY <1>1, <1>3, <1>4, <2>1 DEF WaitInv
  <2>2. ASSUME NEW x \in Task, NEW z \in Sem, WaitsFor(x, z)'
        PROVE  at'[x] = InSemGet(z)
    BY <1>1, <1>2, <1>7, <2>2 DEF WaitInv, SemTypes
  <2>3. at'[Idle] = at[Idle]
    BY <1>1, IdleAssumption DEF SemTypes
  <2> QED
    BY <2>1, <2>2, <2>3 DEF WaitInv
<1>15. NoUnitWhileWaiting'
  BY <1>1, <1>3 DEF NoUnitWhileWaiting
<1>16. UnitsConserved'
  <2>1. Cardinality(Woken(s) \cup {u}) = Cardinality(Woken(s)) + 1
    BY <1>11, WokenFinite, FS_AddElement
  <2>2. /\ units \in [Sem -> Int] /\ count[s] \in Nat
        /\ units[s] = count[s] + Cardinality(Woken(s))
    BY DEF SemTypes, UnitsConserved
  <2>3. units'[s] = count[s] + Cardinality(Woken(s)')
    <3>1. Woken(s)' = Woken(s) \cup {u}
      BY <1>10
    <3>2. units'[s] = units[s] + 1
      BY <1>1, <2>2
    <3> QED
      BY <2>1, <2>2, <3>1, <3>2, WokenFinite
  <2>4. ASSUME NEW z \in Sem, z # s PROVE units'[z] = count[z] + Cardinality(Woken(z)')
    BY <1>1, <1>10, <2>2, <2>4 DEF UnitsConserved
  <2> QED
    BY <1>1, <2>3, <2>4 DEF UnitsConserved
<1> QED
  BY <1>12, <1>13, <1>14, <1>15, <1>16

-----------------------------------------------------------------------------
(* system_init and sem_init.                                               *)
LEMMA SemInitEstablishesInv == SemInit => SemInv
<1> SUFFICES ASSUME SemInit
             PROVE  SemInv
  OBVIOUS
<1>1. /\ SchedTypeOK /\ WellFormed(ready, prio) /\ ReadyTasks = created
      /\ Idle \in created
  BY InitEstablishesInv DEF SemInit, SchedInv, AllReady
<1>2. /\ at = [t \in Task |-> User] /\ schedule_is_lock = FALSE
      /\ new_task = NoTask /\ count = InitCount /\ units = InitCount
      /\ waiting = [s \in Sem |-> <<>>]
  BY DEF SemInit, SchedInit
<1>3. Blocked = {} /\ \A t : \A s \in Sem : ~WaitsFor(t, s)
  BY <1>2 DEF Blocked, WaitsFor
<1>4. SemTypes
  BY <1>1, <1>2, SemAssumption, EmptySeq DEF SemTypes, SchedTypeOK, SemPlace
<1>5. TableInv
  BY <1>1, <1>2, <1>3 DEF TableInv, RunningIsReady, Started
<1>6. WaitInv
  BY <1>2, <1>3, IdleAssumption DEF WaitInv
<1>7. NoUnitWhileWaiting
  BY <1>2 DEF NoUnitWhileWaiting
<1>8. UnitsConserved
  <2>1. \A s \in Sem : Woken(s) = {}
    BY <1>2, PlacesDiffer DEF Woken
  <2>2. ASSUME NEW s \in Sem PROVE Cardinality(Woken(s)) = 0 /\ InitCount[s] \in Nat
    BY <2>1, FS_EmptySet, SemAssumption
  <2> QED
    BY <1>2, <2>2 DEF UnitsConserved
<1> QED
  BY <1>4, <1>5, <1>6, <1>7, <1>8 DEF SemInv

(* A step that leaves the wait lists and the counts alone, and every task  *)
(* where it is or on its way from Trailing to User, keeps the invariant if *)
(* it keeps the tables.                                                    *)
LEMMA OutsideCallsPreserves ==
    ASSUME SemInv, UNCHANGED <<count, waiting, units>>,
           at' \in [Task -> SemPlace],
           \A t \in Task : at'[t] = at[t]
                           \/ (at[t] \in {User, Trailing} /\ at'[t] = User),
           TableTypeOK', WellFormed(ready', prio'), schedule_is_lock' = FALSE,
           Members(ready)' = Members(ready) \cup (created' \ created),
           created \subseteq created', created' \subseteq Task,
           Started' => new_task' \in Members(ready')
    PROVE  SemInv'
<1> USE DEF SemInv
<1>1. Blocked' = Blocked
  BY DEF Blocked, WaitsFor
<1>2. \A z \in Sem, t \in Task : at'[t] = InSemGet(z) <=> at[t] = InSemGet(z)
  BY PlacesDiffer
<1>3. \A z \in Sem : Woken(z)' = Woken(z)
  BY <1>2 DEF Woken, WaitsFor
<1>4. SemTypes'
  BY DEF SemTypes
<1>5. TableInv'
  BY <1>1 DEF TableInv, ReadyTasks, RunningIsReady
<1>6. WaitInv'
  BY <1>2, IdleAssumption DEF WaitInv, WaitsFor
<1>7. NoUnitWhileWaiting' /\ UnitsConserved'
  BY <1>3 DEF NoUnitWhileWaiting, UnitsConserved
<1> QED
  BY <1>4, <1>5, <1>6, <1>7

(* Every step of the kernel with semaphores keeps the invariant.           *)
LEMMA SemNextPreservesInv == SemInv /\ [SemNext]_semVars => SemInv'
<1> SUFFICES ASSUME SemInv, [SemNext]_semVars
             PROVE  SemInv'
  OBVIOUS
<1>1. /\ TableTypeOK /\ at \in [Task -> SemPlace] /\ WellFormed(ready, prio)
      /\ prio \in [Task -> Prio] /\ Members(ready) = created \ Blocked
      /\ schedule_is_lock = FALSE /\ Idle \in created /\ Idle \in Members(ready)
      /\ (Started => new_task \in Members(ready)) /\ Blocked \subseteq created
      /\ created \subseteq Task
  BY IdleAssumption, PlacesDiffer
     DEF SemInv, SemTypes, TableTypeOK, TableInv, ReadyTasks, RunningIsReady, WaitInv, Blocked
<1>2. CASE /\ Boot \/ Preempt \/ \E t \in Task : Schedule(t)
           /\ UNCHANGED <<count, waiting, units>>
  <2>1. /\ TableTypeOK' /\ WellFormed(ready', prio') /\ schedule_is_lock' = FALSE
        /\ Members(ready') = Members(ready) \cup (created' \ created)
        /\ created \subseteq created'
        /\ Started' => new_task' \in Members(ready')
        /\ \/ at' = at
           \/ \E t \in Task : at[t] \in {User, Trailing} /\ at' = [at EXCEPT ![t] = User]
    BY <1>1, <1>2, OwnStepsPreserve
  <2>2. /\ at' \in [Task -> SemPlace]
        /\ \A t \in Task : at'[t] = at[t]
                           \/ (at[t] \in {User, Trailing} /\ at'[t] = User)
    BY <1>1, <2>1 DEF SemPlace
  <2> QED
    BY <1>1, <1>2, <2>1, <2>2, OutsideCallsPreserves DEF TableTypeOK
<1>3. ASSUME NEW t \in Task \ {Idle}, SemCall(t)
      PROVE  SemInv'
  BY <1>3, GetAvailablePreserves, GetBlockPreserves, GetReturnPreserves,
     PutCountsPreserves, PutWakesPreserves DEF SemCall
<1>4. CASE UNCHANGED semVars
  BY <1>1, <1>4, OutsideCallsPreserves DEF semVars, schedVars, TableTypeOK, Started
<1> QED
  BY <1>2, <1>3, <1>4 DEF SemNext

-----------------------------------------------------------------------------
(* Everything the semaphore runs check as an invariant: the types, every   *)
(* task in exactly one list, no unit left while a task waits, the running  *)
(* task ready, no unit lost or invented by sem_get and sem_put, and the    *)
(* bitmap of the ready table exact.                                        *)
THEOREM SemaphoreSafe ==
    SemSpec => [](SemSafe /\ NoUnitWhileWaiting /\ BitmapExact)
<1>1. SemInv => SemSafe /\ NoUnitWhileWaiting /\ BitmapExact
  <2> SUFFICES ASSUME SemInv PROVE SemTypeOK /\ SemPlacement
    BY DEF SemInv, TableInv, WellFormed, BitmapExact, SemSafe
  <2>1. ASSUME NEW s \in Sem PROVE units[s] \in Nat
    BY WokenFinite DEF SemInv, SemTypes, UnitsConserved
  <2>2. SemTypeOK
    BY <2>1 DEF SemInv, SemTypes, SemTypeOK
  <2>3. SemPlacement
    BY DEF SemInv, TableInv, WaitInv, SemPlacement, WellFormed, QueuedOnce
  <2> QED
    BY <2>2, <2>3
<1> QED
  BY <1>1, SemInitEstablishesInv, SemNextPreservesInv, PTL DEF SemSpec

(* A task comes back from sem_get only after it left the wait list.        *)
THEOREM GetReturnsWithUnit == SemSpec => ReturnsWithUnit
<1> DEFINE Returns == \A t \in Task :
              at[t] # User /\ at[t] # Trailing /\ at'[t] = User => t \notin Blocked
<1>1. SemInv /\ [SemNext]_semVars => [Returns]_semVars
  <2> SUFFICES ASSUME SemInv, SemNext, NEW t \in Task,
                      at[t] # User, at[t] # Trailing, at'[t] = User
               PROVE  t \notin Blocked
    OBVIOUS
  <2>1. at \in [Task -> SemPlace]
    BY DEF SemInv, SemTypes
  <2>2. PICK u \in Task \ {Idle} : SemCall(u)
    BY <2>1 DEF SemNext, Boot, TaskCreate, StartWhichTask, Preempt, Schedule
  <2>3. SemGetReturn(t) /\ t # Idle
    BY <2>1, <2>2, PlacesDiffer
       DEF SemCall, SemGetAvailable, SemGetBlock, SemGetReturn, SemPut, schedVars, InUserCode
  <2> QED
    BY <2>3, RunningFacts DEF SemGetReturn
<1> QED
  BY <1>1, SemInitEstablishesInv, SemNextPreservesInv, PTL DEF SemSpec, ReturnsWithUnit

-----------------------------------------------------------------------------
(* A task that runs its own code has no sem_get pending.                   *)
LEMMA UserHasNoPending ==
    ASSUME NEW t \in Task, at[t] = User
    PROVE  \A s \in Sem : <<t, s>> \notin {cs \in Task \X Sem : at[cs[1]] = InSemGet(cs[2])}
BY PlacesDiffer

(* Each step of the kernel's semaphores is a step of AbstractSemaphore or  *)
(* changes nothing that a user sees.                                       *)
LEMMA StepsImplementPromise ==
    SemInv /\ [SemNext]_semVars => [Promise!Next]_(Promise!vars)
<1> DEFINE pending == {cs \in Task \X Sem : at[cs[1]] = InSemGet(cs[2])}
<1> USE DEF Promise!vars
<1> SUFFICES ASSUME SemInv, [SemNext]_semVars
             PROVE  Promise!Next \/ (units' = units /\ pending' = pending)
  OBVIOUS
<1>1. /\ at \in [Task -> SemPlace] /\ units \in [Sem -> Int] /\ count \in [Sem -> 0 .. MaxCount]
      /\ \A s \in Sem : /\ units[s] = count[s] + Cardinality(Woken(s))
                        /\ Cardinality(Woken(s)) \in Nat
  BY WokenFinite DEF SemInv, SemTypes, UnitsConserved
<1>2. ASSUME NEW t \in Task \ {Idle}, NEW s \in Sem, SemGetAvailable(t, s)
      PROVE  Promise!GetAtOnce(t, s)
  <2>1. /\ count[s] > 0 /\ at[t] = User /\ at' = at
        /\ units' = [units EXCEPT ![s] = @ - 1]
    BY <1>2 DEF SemGetAvailable, InUserCode, schedVars
  <2>2. units[s] > 0
    BY <1>1, <2>1, SemAssumption
  <2> QED
    BY <2>1, <2>2, UserHasNoPending DEF Promise!GetAtOnce, Promise!NotPending, Promise!Use
<1>3. ASSUME NEW t \in Task \ {Idle}, NEW s \in Sem, SemGetBlock(t, s)
      PROVE  Promise!GetLater(t, s)
  <2>1. /\ at[t] = User /\ at' = [at EXCEPT ![t] = InSemGet(s)] /\ units' = units
    BY <1>3 DEF SemGetBlock, InUserCode
  <2>2. pending' = pending \cup {<<t, s>>}
    <3>1. ASSUME NEW u \in Task, NEW z \in Sem
          PROVE  at'[u] = InSemGet(z) <=> at[u] = InSemGet(z) \/ (u = t /\ z = s)
      BY <1>1, <2>1, PlacesDiffer
    <3> QED
      BY <3>1
  <2> QED
    BY <2>1, <2>2, UserHasNoPending DEF Promise!GetLater, Promise!NotPending
<1>4. ASSUME NEW t \in Task \ {Idle}, SemGetReturn(t)
      PROVE  \E s \in Sem : Promise!Return(t, s)
  <2>1. PICK s \in Sem : at[t] = InSemGet(s) /\ units' = [units EXCEPT ![s] = @ - 1]
    BY <1>4 DEF SemGetReturn
  <2>2. at' = [at EXCEPT ![t] = User] /\ Running(t)
    BY <1>4 DEF SemGetReturn
  <2>3. t \in Woken(s)
    BY <2>1, <2>2, RunningFacts DEF Woken
  <2>4. units[s] > 0
    <3>1. Cardinality(Woken(s)) # 0
      BY <2>3, WokenFinite, FS_EmptySet
    <3>2. /\ units[s] = count[s] + Cardinality(Woken(s))
          /\ count[s] \in Nat /\ Cardinality(Woken(s)) \in Nat
      BY <1>1, SemAssumption
    <3> QED
      BY <3>1, <3>2
  <2>5. pending' = pending \ {<<t, s>>}
    <3>1. ASSUME NEW u \in Task, NEW z \in Sem
          PROVE  at'[u] = InSemGet(z) <=> at[u] = InSemGet(z) /\ ~(u = t /\ z = s)
      BY <1>1, <2>1, <2>2, PlacesDiffer
    <3> QED
      BY <3>1
  <2> QED
    BY <2>1, <2>4, <2>5 DEF Promise!Return, Promise!Use
<1>5. ASSUME NEW t \in Task \ {Idle}, NEW s \in Sem, SemPut(t, s)
      PROVE  Promise!Put(s) \/ (units' = units /\ pending' = pending)
  <2>1. /\ at[t] = User /\ at' = [at EXCEPT ![t] = Trailing]
        /\ units' = [units EXCEPT ![s] =
                        IF waiting[s] = <<>> /\ count[s] = MaxCount THEN @ ELSE @ + 1]
    BY <1>5 DEF SemPut, CountPut, InUserCode
  <2>2. pending' = pending
    BY <1>1, <2>1, PlacesDiffer
  <2> QED
    BY <1>1, <2>1, <2>2 DEF Promise!Put
<1>6. ASSUME NEW t \in Task, Schedule(t), units' = units
      PROVE  pending' = pending
  BY <1>1, <1>6, PlacesDiffer DEF Schedule
<1>7. CASE (Boot \/ Preempt) /\ units' = units
  BY <1>7 DEF Boot, TaskCreate, StartWhichTask, Preempt
<1>8. CASE UNCHANGED semVars
  BY <1>8 DEF semVars, schedVars
<1>9. ASSUME NEW t \in Task \ {Idle}, SemCall(t)
      PROVE  Promise!Next \/ (units' = units /\ pending' = pending)
  BY <1>2, <1>3, <1>4, <1>5, <1>9 DEF SemCall, Promise!Next
<1> QED
  BY <1>6, <1>7, <1>8, <1>9 DEF SemNext

(* sem_init, sem_get and sem_put implement counting semaphores.            *)
THEOREM SemaphoreImplementsPromise == SemSpec => ImplementsPromise
<1>1. SemInit => Promise!Init
  BY PlacesDiffer DEF SemInit, SchedInit, Promise!Init
<1> QED
  BY <1>1, StepsImplementPromise, SemInitEstablishesInv, SemNextPreservesInv, PTL
     DEF SemSpec, ImplementsPromise, Promise!Spec
=============================================================================
