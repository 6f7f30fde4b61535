----------------------------- MODULE PrioSched ------------------------------
(***************************************************************************)
(* The scheduler core: kernel/prio_sched.c, task creation of kernel/task.c *)
(* and the start-up of app/system_start.c, under the contract that the     *)
(* kernel files expect from a port: a section between interrupt_disable    *)
(* and interrupt_enable is not interrupted, and port_schedule() leaves the *)
(* CPU to new_task.  A kernel call is one action per such section; the     *)
(* timer interrupt may come between any two actions.                       *)
(*                                                                         *)
(* old_task is not a variable here: it is the value new_task had before    *)
(* the last switch and only the ports read it.                             *)
(***************************************************************************)
EXTENDS ReadyQueue

CONSTANTS
    Idle,       \* idle_tcb, which only ever calls schedule()
    UserPrio    \* the priorities given to task_create by the program

ASSUME IdleAssumption == Idle \in Task

ASSUME UserPrioAssumption == UserPrio \subseteq Prio

VARIABLES
    ready,            \* task_prio_queue, y and c
    prio,             \* tcb->prio
    created,          \* tasks that went through task_create
    new_task,         \* the running task; NoTask before the start
    schedule_is_lock,
    at                \* where each task is: in code of its own, or inside a
                      \* kernel call

schedVars == <<ready, prio, created, new_task, schedule_is_lock, at>>

User     == <<"user">>
Trailing == <<"schedule">>  \* interrupts are enabled again and the schedule()
                            \* with which the kernel call ends is to come

LowestPrio == SystemWord - 1

Started    == new_task # NoTask
Running(t) == Started /\ new_task = t

InUserCode(t) == Running(t) /\ at[t] = User

-----------------------------------------------------------------------------
(* system_init: the tables are empty and the idle task has been created    *)
SchedInit ==
    /\ ready = InsertTail(EmptyTable, LowestPrio, Idle)
    /\ prio = [t \in Task |-> LowestPrio]
    /\ created = {Idle}
    /\ new_task = NoTask
    /\ schedule_is_lock = FALSE
    /\ at = [t \in Task |-> User]

(* shell_init, uip_thread_init and app_main create the other tasks before  *)
(* the hardware timer is started.                                          *)
TaskCreate(t, p) ==
    /\ ~Started
    /\ t \notin created
    /\ created' = created \cup {t}
    /\ prio' = [prio EXCEPT ![t] = p]
    /\ ready' = InsertTail(ready, p, t)
    /\ UNCHANGED <<new_task, schedule_is_lock, at>>

StartWhichTask(first_task) ==
    /\ ~Started
    /\ first_task \in created
    /\ new_task' = first_task
    /\ UNCHANGED <<ready, prio, created, schedule_is_lock, at>>

(* What schedule() does when the ready table has become r                  *)
ScheduleFrom(r) ==
    IF schedule_is_lock
    THEN ready' = r /\ new_task' = new_task
    ELSE ready' = Rotate(r) /\ new_task' = BitFirstOneSearch(r)

(* A running task calls schedule(): the idle loop, an application's yield, *)
(* or the end of a kernel call.                                            *)
Schedule(t) ==
    /\ Running(t)
    /\ at[t] \in {User, Trailing}
    /\ ScheduleFrom(ready)
    /\ at' = [at EXCEPT ![t] = User]
    /\ UNCHANGED <<prio, created, schedule_is_lock>>

(* The schedule() with which a timer interrupt ends, nothing having        *)
(* expired; the interrupted task keeps its place in its code.              *)
Preempt ==
    /\ Started
    /\ ScheduleFrom(ready)
    /\ UNCHANGED <<prio, created, schedule_is_lock, at>>

ScheduleLock(t) ==
    /\ InUserCode(t)
    /\ schedule_is_lock' = TRUE
    /\ UNCHANGED <<ready, prio, created, new_task, at>>

ScheduleUnlock(t) ==
    /\ InUserCode(t)
    /\ schedule_is_lock' = FALSE
    /\ UNCHANGED <<ready, prio, created, new_task, at>>

Boot ==
    \/ \E t \in Task \ {Idle}, p \in UserPrio : TaskCreate(t, p)
    \/ StartWhichTask(Idle)

SchedNext ==
    \/ Boot
    \/ Preempt
    \/ \E t \in Task :
          \/ Schedule(t)
          \/ t # Idle /\ (ScheduleLock(t) \/ ScheduleUnlock(t))

SchedSpec == SchedInit /\ [][SchedNext]_schedVars

(* The hardware timer keeps ticking.                                       *)
FairSchedSpec == SchedSpec /\ WF_schedVars(Preempt)

-----------------------------------------------------------------------------
TableTypeOK ==
    /\ ready \in ReadyTable
    /\ prio \in [Task -> Prio]
    /\ created \subseteq Task
    /\ new_task \in Task \cup {NoTask}
    /\ schedule_is_lock \in BOOLEAN

SchedTypeOK == TableTypeOK /\ at \in [Task -> {User, Trailing}]

ReadyTasks == Members(ready)

(* Bit search finds a queued task because the two bitmap levels follow     *)
(* every insertion and removal, also the one that empties a byte           *)
(* (bitmap_set, bitmap_clear and their callers).                           *)
BitmapExact == BitmapMatches(ready)

(* A task sits in the FIFO of its own priority and is there once: TCB has  *)
(* a single list node, so a second insertion would cut a FIFO short.       *)
QueuedOnce == PlacedOnce(ready, prio)

(* No task is lost by the rotation of prio_ready_queue_fetch.              *)
AllReady == ReadyTasks = created

(* The queues as one property: no task is lost, queued twice or misplaced. *)
SchedSafe == SchedTypeOK /\ QueuedOnce /\ AllReady

Highest(t) == t \in ReadyTasks /\ \A u \in ReadyTasks : prio[t] <= prio[u]

(* A switch goes to a task of the highest priority that is ready when it   *)
(* is made, with the tasks the same call blocked or woke taken out and put *)
(* in, and never to a list head taken for a TCB (bit_first_one_search).    *)
SwitchToHighest ==
    [][new_task' # new_task /\ Started => Highest(new_task)']_schedVars

(* Once the scheduler stays unlocked, the tasks of the highest priority    *)
(* take turns: each of them gets the CPU again and again                   *)
(* (prio_ready_queue_fetch puts the fetched task last).                    *)
RoundRobin ==
    <>[](~schedule_is_lock) =>
        \A t \in Task : (Started /\ Highest(t)) ~> Running(t)
=============================================================================
