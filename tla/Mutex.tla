------------------------------- MODULE Mutex --------------------------------
(***************************************************************************)
(* kernel/mutex.c on top of the scheduler core.  mutex_get raises the      *)
(* caller to PRIO_MUTEX and clears enable; mutex_put gives back copy_prio, *)
(* sets enable and makes the first waiter ready.  os_delay appears here    *)
(* only as Sleep and Wake, without its timeout: a task that leaves the     *)
(* ready table for a while and comes back at the tail of its FIFO.         *)
(***************************************************************************)
EXTENDS PrioSched

CONSTANTS
    Mutex,
    PrioMutex,        \* PRIO_MUTEX, 1 in the code
    SleepHolding      \* the programs considered: TRUE, tasks sleep while they
                      \* hold a mutex; FALSE, they do not

ASSUME MutexAssumption == PrioMutex \in Prio /\ SleepHolding \subseteq BOOLEAN

VARIABLES
    enable,     \* mutex->enable
    copy_prio,  \* mutex->copy_prio
    mutex_list, \* mutex->list
    asleep,     \* tasks with their delay in the tick queue
    holds,      \* history: the mutexes whose mutex_get returned to the task
                \* and that it has not put, in the order it got them
    base,       \* history: the priority the task was created with
    sleepers    \* whether this program's tasks sleep while they hold a mutex

mutexVars == <<schedVars, enable, copy_prio, mutex_list, asleep, holds, base, sleepers>>

InMutexGet(m) == <<"mutex_get", m>>

MutexPlace == {User, Trailing} \cup {InMutexGet(m) : m \in Mutex}

Holds(t, m) == \E i \in DOMAIN holds[t] : holds[t][i] = m

-----------------------------------------------------------------------------
MutexInit ==
    /\ SchedInit
    /\ enable = [m \in Mutex |-> TRUE]
    /\ copy_prio = [m \in Mutex |-> 0]
    /\ mutex_list = [m \in Mutex |-> <<>>]
    /\ asleep = {}
    /\ holds = [t \in Task |-> <<>>]
    /\ base = prio
    /\ sleepers \in SleepHolding

(* Faulty variant: the caller keeps its priority.                          *)
MutexGetNoCeiling(t, m) ==
    /\ InUserCode(t)
    /\ ~Holds(t, m)
    /\ enable[m]
    /\ copy_prio' = [copy_prio EXCEPT ![m] = prio[t]]
    /\ enable' = [enable EXCEPT ![m] = FALSE]
    /\ holds' = [holds EXCEPT ![t] = Append(@, m)]
    /\ UNCHANGED <<ready, prio, created, new_task, schedule_is_lock, at, mutex_list,
                   asleep, base, sleepers>>

(* The program does not get a mutex it already has.                        *)
MutexGetFree(t, m) ==
    /\ InUserCode(t)
    /\ ~Holds(t, m)
    /\ enable[m]
    /\ copy_prio' = [copy_prio EXCEPT ![m] = prio[t]]
    /\ ready' = InsertHead(Delete(ready, prio[t], t), PrioMutex, t)
    /\ prio' = [prio EXCEPT ![t] = PrioMutex]
    /\ enable' = [enable EXCEPT ![m] = FALSE]
    /\ holds' = [holds EXCEPT ![t] = Append(@, m)]
    /\ UNCHANGED <<created, new_task, schedule_is_lock, at, mutex_list,
                   asleep, base, sleepers>>

MutexGetBlock(t, m) ==
    /\ InUserCode(t)
    /\ ~Holds(t, m)
    /\ ~enable[m]
    /\ mutex_list' = [mutex_list EXCEPT ![m] = Append(@, t)]
    /\ at' = [at EXCEPT ![t] = InMutexGet(m)]
    /\ ScheduleFrom(Delete(ready, prio[t], t))
    /\ UNCHANGED <<prio, created, schedule_is_lock, enable, copy_prio,
                   asleep, holds, base, sleepers>>

(* The woken task's schedule() returns and mutex_get returns TRUE.         *)
MutexGetReturn(t, m) ==
    /\ Running(t)
    /\ at[t] = InMutexGet(m)
    /\ at' = [at EXCEPT ![t] = User]
    /\ holds' = [holds EXCEPT ![t] = Append(@, m)]
    /\ UNCHANGED <<ready, prio, created, new_task, schedule_is_lock,
                   enable, copy_prio, mutex_list, asleep, base, sleepers>>

(* Faulty variant: nobody is woken.                                        *)
MutexPutWakesNone(t, m) ==
    /\ InUserCode(t)
    /\ holds[t] # <<>> /\ m = holds[t][Len(holds[t])]
    /\ prio' = [prio EXCEPT ![t] = copy_prio[m]]
    /\ ready' = InsertHead(Delete(ready, prio[t], t), copy_prio[m], t)
    /\ enable' = [enable EXCEPT ![m] = TRUE]
    /\ holds' = [holds EXCEPT ![t] = SubSeq(@, 1, Len(@) - 1)]
    /\ at' = [at EXCEPT ![t] = Trailing]
    /\ UNCHANGED <<created, new_task, schedule_is_lock, copy_prio, asleep,
                   base, sleepers, mutex_list>>

(* Only a task that got the mutex puts it, the last one it got first.      *)
MutexPut(t, m) ==
    /\ InUserCode(t)
    /\ holds[t] # <<>> /\ m = holds[t][Len(holds[t])]
    /\ LET p       == copy_prio[m]
           lowered == InsertHead(Delete(ready, prio[t], t), p, t)
       IN  /\ prio' = [prio EXCEPT ![t] = p]
           /\ \/ /\ mutex_list[m] = <<>>
                 /\ ready' = lowered
                 /\ UNCHANGED mutex_list
              \/ /\ mutex_list[m] # <<>>
                 /\ ready' = InsertHead(lowered, prio[Head(mutex_list[m])],
                                        Head(mutex_list[m]))
                 /\ mutex_list' = [mutex_list EXCEPT ![m] = Tail(@)]
    /\ enable' = [enable EXCEPT ![m] = TRUE]
    /\ holds' = [holds EXCEPT ![t] = SubSeq(@, 1, Len(@) - 1)]
    /\ at' = [at EXCEPT ![t] = Trailing]
    /\ UNCHANGED <<created, new_task, schedule_is_lock, copy_prio, asleep, base, sleepers>>

lockVars == <<enable, copy_prio, mutex_list, holds, base, sleepers>>

(* os_delay up to its interrupt_enable                                     *)
Sleep(t) ==
    /\ InUserCode(t)
    /\ sleepers \/ holds[t] = <<>>
    /\ ready' = Delete(ready, prio[t], t)
    /\ asleep' = asleep \cup {t}
    /\ at' = [at EXCEPT ![t] = Trailing]
    /\ UNCHANGED <<prio, created, new_task, schedule_is_lock, lockVars>>

(* A timer interrupt in which the delay of t ends                          *)
Wake(t) ==
    /\ t \in asleep
    /\ asleep' = asleep \ {t}
    /\ ScheduleFrom(InsertTail(ready, prio[t], t))
    /\ UNCHANGED <<prio, created, schedule_is_lock, at, lockVars>>

MutexBoot ==
    /\ Boot
    /\ base' = prio'
    /\ UNCHANGED <<enable, copy_prio, mutex_list, asleep, holds, sleepers>>

MutexCall(t) ==
    \/ \E m \in Mutex :
          \/ MutexGetFree(t, m)
          \/ MutexGetBlock(t, m)
          \/ MutexGetReturn(t, m)
          \/ MutexPut(t, m)
    \/ Sleep(t)
    \/ Wake(t)

MutexNext ==
    \/ MutexBoot
    \/ Preempt /\ UNCHANGED <<asleep, lockVars>>
    \/ \E t \in Task : Schedule(t) /\ UNCHANGED <<asleep, lockVars>>
    \/ \E t \in Task \ {Idle} : MutexCall(t)

MutexSpec == MutexInit /\ [][MutexNext]_mutexVars

-----------------------------------------------------------------------------
MutexTypeOK ==
    /\ TableTypeOK
    /\ at \in [Task -> MutexPlace]
    /\ enable \in [Mutex -> BOOLEAN]
    /\ copy_prio \in [Mutex -> Prio]
    /\ mutex_list \in [Mutex -> Seq(Task)]
    /\ asleep \subseteq Task
    /\ holds \in [Task -> Seq(Mutex)]
    /\ base \in [Task -> Prio]
    /\ sleepers \in BOOLEAN

WaitsForMutex(t, m) == \E i \in DOMAIN mutex_list[m] : mutex_list[m][i] = t

MutexBlocked == {t \in Task : \E m \in Mutex : WaitsForMutex(t, m)}

MutexWoken(m) == {t \in Task : at[t] = InMutexGet(m) /\ ~WaitsForMutex(t, m)}

(* The list node of a TCB is in the ready table, in one mutex's wait list, *)
(* or in neither while the task's delay is in the tick queue; priority     *)
(* changes never leave it in the FIFO of another priority.                 *)
MutexPlacement ==
    /\ QueuedOnce
    /\ ReadyTasks = created \ (MutexBlocked \cup asleep)
    /\ MutexBlocked \cap asleep = {}
    /\ \A m \in Mutex : \A i, j \in DOMAIN mutex_list[m] :
          mutex_list[m][i] = mutex_list[m][j] => i = j
    /\ \A t \in Task, m \in Mutex : WaitsForMutex(t, m) => at[t] = InMutexGet(m)

(* Whoever waits, somebody is there whose mutex_put will wake it: a holder *)
(* or a woken task on its way out of mutex_get (mutex_put wakes only one). *)
NoStrandedWaiter ==
    \A m \in Mutex : mutex_list[m] # <<>> =>
        MutexWoken(m) # {} \/ \E t \in Task : Holds(t, m)

(* mutex_get and mutex_put enclose critical regions.                       *)
MutualExclusion ==
    \A m \in Mutex : \A t, u \in Task : Holds(t, m) /\ Holds(u, m) => t = u

(* A task that holds nothing runs at the priority it was created with, one *)
(* that holds a mutex at PRIO_MUTEX (copy_prio, one slot per mutex).       *)
PriorityRestored ==
    \A t \in created :
        prio[t] = IF holds[t] = <<>> THEN base[t] ELSE PrioMutex

(* "Release the mutex, recover the task priority": a task that has put the *)
(* last mutex it held is back at its own priority (mutex_put).             *)
PutRestoresPriority ==
    [][\A t \in Task : holds[t] # <<>> /\ holds'[t] = <<>> => prio'[t] = base[t]]_mutexVars

(* The ceiling at work: when a task asks for a mutex, no other task holds  *)
(* any, so the blocking branch of mutex_get is never needed.               *)
NobodyWaits ==
    \A t \in Task : holds[t] # <<>> =>
        new_task = t /\ \A m \in Mutex : mutex_list[m] = <<>>

(* Tables, lists and waiters, whether or not tasks sleep with a mutex.     *)
MutexSafe == BitmapExact /\ MutexTypeOK /\ MutexPlacement /\ NoStrandedWaiter

(* What the ceiling promises to tasks that do not sleep while they hold a  *)
(* mutex: one holder, its own priority back, and nobody ever waits.        *)
CeilingWorks == ~sleepers => MutualExclusion /\ PriorityRestored /\ NobodyWaits
=============================================================================
