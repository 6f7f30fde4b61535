----------------------------- MODULE Semaphore ------------------------------
(***************************************************************************)
(* kernel/semaphore.c on top of the scheduler core.  sem_get that finds    *)
(* count 0 moves the caller to the semaphore's wait list and switches away *)
(* inside its critical section; sem_put hands the unit to the first waiter *)
(* without touching count and reschedules after its critical section.      *)
(***************************************************************************)
EXTENDS PrioSched, FiniteSets

CONSTANTS
    Sem,        \* the semaphores
    MaxCount,   \* where count saturates (0xffffffff in the code)
    InitCount   \* the num given to sem_init, per semaphore

ASSUME SemAssumption ==
    /\ MaxCount \in Nat
    /\ InitCount \in [Sem -> 0 .. MaxCount]

(* TCBs are C objects.                                                     *)
ASSUME FiniteTasks == IsFiniteSet(Task)

VARIABLES
    count,      \* semaphore->count
    waiting,    \* semaphore->list: the tasks blocked on it, first come first
    units       \* history: initial units plus puts less completed gets (a
                \* put at MaxCount is dropped and not counted)

semVars == <<schedVars, count, waiting, units>>

InSemGet(s) == <<"sem_get", s>>   \* switched away inside sem_get(s)

SemPlace == {User, Trailing} \cup {InSemGet(s) : s \in Sem}

-----------------------------------------------------------------------------
(* sem_init; the scheduler as system_init leaves it                        *)
SemInit ==
    /\ SchedInit
    /\ count = InitCount
    /\ waiting = [s \in Sem |-> <<>>]
    /\ units = InitCount

(* Faulty variant: count is not decremented.                               *)
SemGetFree(t, s) ==
    /\ InUserCode(t)
    /\ count[s] > 0
    /\ units' = [units EXCEPT ![s] = @ - 1]
    /\ UNCHANGED <<schedVars, count, waiting>>

SemGetAvailable(t, s) ==
    /\ InUserCode(t)
    /\ count[s] > 0
    /\ count' = [count EXCEPT ![s] = @ - 1]
    /\ units' = [units EXCEPT ![s] = @ - 1]
    /\ UNCHANGED <<schedVars, waiting>>

(* Faulty variants: the caller is not switched away; it queues before the *)
(* other waiters.                                                          *)
SemGetBlockNoSwitch(t, s) ==
    /\ InUserCode(t)
    /\ count[s] = 0
    /\ waiting' = [waiting EXCEPT ![s] = Append(@, t)]
    /\ at' = [at EXCEPT ![t] = InSemGet(s)]
    /\ ready' = Delete(ready, prio[t], t)
    /\ UNCHANGED <<prio, created, new_task, schedule_is_lock, count, units>>

SemGetBlockFirst(t, s) ==
    /\ InUserCode(t)
    /\ count[s] = 0
    /\ waiting' = [waiting EXCEPT ![s] = PushFront(@, t)]
    /\ at' = [at EXCEPT ![t] = InSemGet(s)]
    /\ ScheduleFrom(Delete(ready, prio[t], t))
    /\ UNCHANGED <<prio, created, schedule_is_lock, count, units>>

SemGetBlock(t, s) ==
    /\ InUserCode(t)
    /\ count[s] = 0
    /\ waiting' = [waiting EXCEPT ![s] = Append(@, t)]
    /\ at' = [at EXCEPT ![t] = InSemGet(s)]
    /\ ScheduleFrom(Delete(ready, prio[t], t))
    /\ UNCHANGED <<prio, created, schedule_is_lock, count, units>>

(* The task that blocked runs again: its schedule() returns and sem_get    *)
(* returns TRUE.                                                           *)
SemGetReturn(t) ==
    /\ Running(t)
    /\ \E s \in Sem :
          /\ at[t] = InSemGet(s)
          /\ units' = [units EXCEPT ![s] = @ - 1]
    /\ at' = [at EXCEPT ![t] = User]
    /\ UNCHANGED <<ready, prio, created, new_task, schedule_is_lock, count, waiting>>

CountPut(s) ==
    units' = [units EXCEPT ![s] =
                 IF waiting[s] = <<>> /\ count[s] = MaxCount THEN @ ELSE @ + 1]

(* Faulty variants of sem_put with one waiter or more and with none.       *)
PutVariant(t, s, wake, counted) ==
    /\ InUserCode(t)
    /\ IF waiting[s] = <<>> THEN UNCHANGED <<ready, waiting>>
       ELSE /\ waiting' = IF wake THEN [waiting EXCEPT ![s] = Tail(@)] ELSE waiting
            /\ ready' = InsertHead(ready, prio[Head(waiting[s])], Head(waiting[s]))
    /\ count' = [count EXCEPT ![s] = counted]
    /\ CountPut(s)
    /\ at' = [at EXCEPT ![t] = Trailing]
    /\ UNCHANGED <<prio, created, new_task, schedule_is_lock>>

\* a unit is handed over and counted too
SemPutTwice(t, s) ==
    PutVariant(t, s, TRUE, IF count[s] = MaxCount THEN count[s] ELSE count[s] + 1)

\* the woken task stays in the wait list
SemPutKeepsWaiter(t, s) == PutVariant(t, s, FALSE, count[s])

SemPut(t, s) ==
    /\ InUserCode(t)
    /\ \/ /\ waiting[s] # <<>>
          /\ waiting' = [waiting EXCEPT ![s] = Tail(@)]
          /\ ready' = InsertHead(ready, prio[Head(waiting[s])], Head(waiting[s]))
          /\ UNCHANGED count
       \/ /\ waiting[s] = <<>>
          /\ count' = [count EXCEPT ![s] = IF @ = MaxCount THEN @ ELSE @ + 1]
          /\ UNCHANGED <<ready, waiting>>
    /\ CountPut(s)
    /\ at' = [at EXCEPT ![t] = Trailing]
    /\ UNCHANGED <<prio, created, new_task, schedule_is_lock>>

SemCall(t) ==
    \/ \E s \in Sem : SemGetAvailable(t, s) \/ SemGetBlock(t, s) \/ SemPut(t, s)
    \/ SemGetReturn(t)

(* The scheduler is not locked here: see SemLockNext.  The idle task never *)
(* blocks.                                                                 *)
SemNext ==
    \/ Boot /\ UNCHANGED <<count, waiting, units>>
    \/ Preempt /\ UNCHANGED <<count, waiting, units>>
    \/ \E t \in Task : Schedule(t) /\ UNCHANGED <<count, waiting, units>>
    \/ \E t \in Task \ {Idle} : SemCall(t)

SemSpec == SemInit /\ [][SemNext]_semVars

FinishCall(t) ==
    \/ SemGetReturn(t)
    \/ at[t] = Trailing /\ Schedule(t) /\ UNCHANGED <<count, waiting, units>>

(* The timer keeps ticking, and a task that gets the CPU again and again   *)
(* gets on with its kernel call: a time slice is longer than the few       *)
(* instructions left of it.                                                *)
FairSemSpec ==
    /\ SemSpec
    /\ WF_semVars(Preempt /\ UNCHANGED <<count, waiting, units>>)
    /\ \A t \in Task \ {Idle} : SF_semVars(FinishCall(t))

(* The same program when tasks also use schedule_lock.                     *)
SemLockNext ==
    \/ SemNext
    \/ \E t \in Task \ {Idle} :
          (ScheduleLock(t) \/ ScheduleUnlock(t)) /\ UNCHANGED <<count, waiting, units>>

SemLockSpec == SemInit /\ [][SemLockNext]_semVars

-----------------------------------------------------------------------------
SemTypeOK ==
    /\ TableTypeOK
    /\ at \in [Task -> SemPlace]
    /\ count \in [Sem -> 0 .. MaxCount]
    /\ waiting \in [Sem -> Seq(Task)]
    /\ units \in [Sem -> Nat]

WaitsFor(t, s) == \E i \in DOMAIN waiting[s] : waiting[s][i] = t

Blocked == {t \in Task : \E s \in Sem : WaitsFor(t, s)}

(* A TCB has one list node, so a task is in the ready table or in one wait *)
(* list, never in both, never in none, and never twice (sem_get, sem_put). *)
SemPlacement ==
    /\ QueuedOnce
    /\ ReadyTasks = created \ Blocked
    /\ Blocked \subseteq created
    /\ \A s \in Sem : \A i, j \in DOMAIN waiting[s] :
          waiting[s][i] = waiting[s][j] => i = j
    /\ \A t \in Task, s \in Sem : WaitsFor(t, s) => at[t] = InSemGet(s)

(* No unit is left in count while a task waits for one.                    *)
NoUnitWhileWaiting == \A s \in Sem : waiting[s] # <<>> => count[s] = 0

(* The running task is one the ready table holds, so a tick in sem_get or  *)
(* sem_put never leaves a task that nothing will resume.                   *)
RunningIsReady == Started => new_task \in ReadyTasks

(* A task returns from sem_get only after it left the wait list.           *)
ReturnsWithUnit ==
    [][\A t \in Task : at[t] # User /\ at[t] # Trailing /\ at'[t] = User
          => t \notin Blocked]_semVars

-----------------------------------------------------------------------------
(* Tasks that were handed a unit and have not returned from sem_get yet    *)
Woken(s) == {t \in Task : at[t] = InSemGet(s) /\ ~WaitsFor(t, s)}

(* Whatever sem_get and sem_put do with count and the wait list, seen from *)
(* outside they implement plain counting semaphores: no sem_get completes  *)
(* without a unit of its own.                                              *)
Promise == INSTANCE AbstractSemaphore WITH
    Client  <- Task,
    Units0  <- InitCount,
    value   <- units,
    pending <- {cs \in Task \X Sem : at[cs[1]] = InSemGet(cs[2])}

ImplementsPromise == Promise!Spec

(* Every unit is in count or has been handed to a woken task: sem_put and  *)
(* sem_get neither lose nor invent one, at the limit of count either.      *)
UnitsConserved == \A s \in Sem : units[s] = count[s] + Cardinality(Woken(s))

(* While units keep coming, every waiter is served in the end: the wait    *)
(* list is first come first served, whatever the priorities (sem_get       *)
(* inserts behind, sem_put takes the first).                               *)
WaiterServed ==
    \A s \in Sem :
        []<><<\E u \in Task : SemPut(u, s)>>_semVars =>
            \A t \in Task : []<>~WaitsFor(t, s)

(* A woken task that is of the highest ready priority does not stay inside *)
(* sem_get for ever (sem_put queues it first; fetch rotates).              *)
WokenReturns ==
    \A t \in Task : []<>~(Highest(t) /\ \E s \in Sem : t \in Woken(s))

(* The tables as one property: no task is in two lists or in none, the     *)
(* running task is ready, and no unit is lost or invented.                 *)
SemSafe == SemTypeOK /\ SemPlacement /\ RunningIsReady /\ UnitsConserved

(* Nobody waits for ever: a waiter is handed a unit, and then returns.     *)
WaitersReturn == WaiterServed /\ WokenReturns
=============================================================================
