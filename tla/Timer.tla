------------------------------- MODULE Timer --------------------------------
(***************************************************************************)
(* kernel/timer.c on top of the scheduler core: os_delay, timer_req and    *)
(* the walk of hardware_timer over the tick queue, one entry per step with *)
(* interrupts off, so that a callback may add entries while the walk is    *)
(* under way.  An entry of the tick queue is a task (its TCB's delay,      *)
(* style DELAY) or a software timer.                                       *)
(***************************************************************************)
EXTENDS PrioSched

CONSTANTS
    SoftTimer,  \* the TICK objects the program passes to timer_req
    Timeout     \* the timeouts the program asks for

ASSUME TimerAssumption ==
    /\ SoftTimer \cap Task = {}
    /\ Timeout \subseteq Nat

Entry == Task \cup SoftTimer

VARIABLES
    tick_queue,     \* the list, as the sequence of its entries
    timeout,        \* tick->timeout
    timeout_copy,   \* tick->timeout_copy
    cycle,          \* the software timers requested with CYCLE
    walk,           \* hardware_timer's position: how many entries it has
                    \* passed; OffWalk outside the interrupt
    since           \* history: timer interrupts since the entry was queued
                    \* or last expired (fos_tick then and now)

tickVars == <<tick_queue, timeout, timeout_copy, cycle, since>>
timerVars == <<schedVars, tickVars, walk>>

Armed(e) == \E i \in DOMAIN tick_queue : tick_queue[i] = e

OffWalk == -1

NoInterrupt == walk = OffWalk

-----------------------------------------------------------------------------
(* tick_queue_init; the scheduler as system_init leaves it                 *)
TimerInit ==
    /\ SchedInit
    /\ tick_queue = <<>>
    /\ timeout = [e \in Entry |-> 0]
    /\ timeout_copy = [e \in Entry |-> 0]
    /\ cycle = {}
    /\ walk = OffWalk
    /\ since = [e \in Entry |-> 0]

Enqueue(e, n) ==
    /\ tick_queue' = Append(tick_queue, e)
    /\ timeout' = [timeout EXCEPT ![e] = n]
    /\ timeout_copy' = [timeout_copy EXCEPT ![e] = n]
    /\ since' = [since EXCEPT ![e] = 0]

(* os_delay up to its interrupt_enable; Schedule(t) is the rest.           *)
OsDelay(t, n) ==
    /\ InUserCode(t)
    /\ Enqueue(t, n)
    /\ ready' = Delete(ready, prio[t], t)
    /\ at' = [at EXCEPT ![t] = Trailing]
    /\ UNCHANGED <<prio, created, new_task, schedule_is_lock, cycle, walk>>

(* The program requests a timer that is not pending, with a positive       *)
(* timeout (timer_req returns early on 0).                                 *)
RequestSoftTimer(e, n, period) ==
    /\ n > 0
    /\ ~Armed(e)
    /\ Enqueue(e, n)
    /\ cycle' = IF period = "CYCLE" THEN cycle \cup {e} ELSE cycle \ {e}

TimerReq(t, e, n, period) ==
    /\ InUserCode(t)
    /\ RequestSoftTimer(e, n, period)
    /\ UNCHANGED <<schedVars, walk>>

-----------------------------------------------------------------------------
(* hardware_timer                                                          *)

(* Bound of the history counter: an entry should expire one tick earlier.  *)
SinceBound(e) == timeout_copy[e] + 2

TickBegin ==
    /\ Started
    /\ NoInterrupt
    /\ walk' = 0
    /\ since' = [e \in Entry |-> IF Armed(e) /\ since[e] < SinceBound(e)
                                THEN since[e] + 1 ELSE since[e]]
    /\ UNCHANGED <<schedVars, tick_queue, timeout, timeout_copy, cycle>>

Walking == walk # OffWalk /\ walk < Len(tick_queue)

Current == tick_queue[walk + 1]

TickDecrement ==
    /\ Walking
    /\ timeout[Current] # 0
    /\ timeout' = [timeout EXCEPT ![Current] = @ - 1]
    /\ walk' = walk + 1
    /\ UNCHANGED <<schedVars, tick_queue, timeout_copy, cycle, since>>

(* Faulty variants: the walk skips the entry behind the deleted one; the   *)
(* delay starts again as a CYCLE timer does.                               *)
TickEndDelaySkips ==
    /\ Walking
    /\ timeout[Current] = 0
    /\ Current \in Task
    /\ tick_queue' = DropAt(tick_queue, walk + 1)
    /\ walk' = IF walk + 1 <= Len(tick_queue) - 1 THEN walk + 1 ELSE walk
    /\ ready' = InsertTail(ready, prio[Current], Current)
    /\ UNCHANGED <<prio, created, new_task, schedule_is_lock, at,
                   timeout, timeout_copy, cycle, since>>

TickRestartDelay ==
    /\ Walking
    /\ timeout[Current] = 0
    /\ Current \in Task
    /\ timeout' = [timeout EXCEPT ![Current] = timeout_copy[Current]]
    /\ walk' = walk + 1
    /\ UNCHANGED <<schedVars, tick_queue, timeout_copy, cycle, since>>

(* After the deletion, tmp still leads to the entry behind the deleted one.*)
TickEndDelay ==
    /\ Walking
    /\ timeout[Current] = 0
    /\ Current \in Task
    /\ tick_queue' = DropAt(tick_queue, walk + 1)
    /\ ready' = InsertTail(ready, prio[Current], Current)
    /\ UNCHANGED <<prio, created, new_task, schedule_is_lock, at, walk,
                   timeout, timeout_copy, cycle, since>>

(* The callback has run: it left the timers alone, or requested one that   *)
(* is not pending.                                                         *)
ExpireCycle ==
    /\ Current \in cycle
    /\ timeout' = [timeout EXCEPT ![Current] = timeout_copy[Current]]
    /\ since' = [since EXCEPT ![Current] = 0]
    /\ walk' = walk + 1
    /\ UNCHANGED <<schedVars, tick_queue, timeout_copy, cycle>>

ExpireOnce ==
    /\ Current \notin cycle
    /\ tick_queue' = DropAt(tick_queue, walk + 1)
    /\ UNCHANGED <<schedVars, walk, timeout, timeout_copy, cycle, since>>

(* The callback of Current requests e, which goes behind all others.       *)
ExpireAndRequest(e, n) ==
    /\ e # Current
    /\ ~Armed(e)
    /\ n > 0
    /\ LET appended == Append(tick_queue, e)
       IN  IF Current \in cycle
           THEN /\ tick_queue' = appended
                /\ timeout' = [timeout EXCEPT ![e] = n, ![Current] = timeout_copy[Current]]
                /\ since' = [since EXCEPT ![e] = 0, ![Current] = 0]
                /\ walk' = walk + 1
           ELSE /\ tick_queue' = DropAt(appended, walk + 1)
                /\ timeout' = [timeout EXCEPT ![e] = n]
                /\ since' = [since EXCEPT ![e] = 0]
                /\ walk' = walk
    /\ timeout_copy' = [timeout_copy EXCEPT ![e] = n]
    /\ \E period \in {"ONCE", "CYCLE"} :
          cycle' = IF period = "CYCLE" THEN cycle \cup {e} ELSE cycle \ {e}
    /\ UNCHANGED schedVars

TickSoftTimer ==
    /\ Walking
    /\ timeout[Current] = 0
    /\ Current \in SoftTimer
    /\ \/ ExpireCycle
       \/ ExpireOnce
       \/ \E e \in SoftTimer, n \in Timeout : ExpireAndRequest(e, n)

TickEnd ==
    /\ walk = Len(tick_queue)
    /\ walk' = OffWalk
    /\ ScheduleFrom(ready)
    /\ UNCHANGED <<prio, created, schedule_is_lock, at, tickVars>>

HardwareTimer ==
    \/ TickBegin
    \/ TickDecrement
    \/ TickEndDelay
    \/ TickSoftTimer
    \/ TickEnd

TimerNext ==
    \/ HardwareTimer
    \/ /\ NoInterrupt
       /\ \/ Boot /\ UNCHANGED <<tickVars, walk>>
          \/ \E t \in Task : Schedule(t) /\ UNCHANGED <<tickVars, walk>>
          \/ \E t \in Task \ {Idle}, n \in Timeout :
                \/ OsDelay(t, n)
                \/ \E e \in SoftTimer, period \in {"ONCE", "CYCLE"} :
                      TimerReq(t, e, n, period)

TimerSpec == TimerInit /\ [][TimerNext]_timerVars

(* The hardware timer keeps interrupting and each interrupt is handled.    *)
FairTimerSpec == TimerSpec /\ WF_timerVars(HardwareTimer)

-----------------------------------------------------------------------------
TimerTypeOK ==
    /\ TableTypeOK
    /\ at \in [Task -> {User, Trailing}]
    /\ tick_queue \in Seq(Entry)
    /\ timeout \in [Entry -> Nat]
    /\ timeout_copy \in [Entry -> Nat]
    /\ cycle \subseteq SoftTimer
    /\ walk \in {OffWalk} \cup 0 .. Len(tick_queue)
    /\ since \in [Entry -> Nat]

Delayed == {t \in Task : Armed(t)}

(* A task is ready or its delay is in the tick queue, never both and never *)
(* neither; no entry is in the tick queue twice (os_delay, hardware_timer).*)
TimerPlacement ==
    /\ QueuedOnce
    /\ ReadyTasks = created \ Delayed
    /\ Delayed \subseteq created \ {Idle}
    /\ \A i, j \in DOMAIN tick_queue : tick_queue[i] = tick_queue[j] => i = j

(* The walk counts each entry down once per interrupt, whatever it deletes *)
(* or callbacks append on the way: an entry is late by one only while the  *)
(* walk has not reached it, and early by one only if a callback of the     *)
(* walk that counted it down had requested it.                             *)
TickAccounting ==
    \A i \in DOMAIN tick_queue :
        LET e   == tick_queue[i]
            lag == since[e] + timeout[e] - timeout_copy[e]
        IN  IF e \in Task
            THEN lag = IF i > walk /\ ~NoInterrupt THEN 1 ELSE 0
            ELSE lag \in IF i > walk /\ ~NoInterrupt THEN {0, 1} ELSE {-1, 0}

(* os_delay(n) ends in the timer interrupt number n + 1 after the call, so *)
(* it never lasts less than n whole ticks.                                 *)
DelayOnTime ==
    [][\A t \in Task : Armed(t) /\ ~Armed(t)' =>
          since[t] = timeout_copy[t] + 1]_timerVars

(* Every delay ends.                                                       *)
DelayEnds == \A t \in Task : []<>(~Armed(t))

(* Tables and lists, and the count of ticks.                               *)
TimerSafe == TimerTypeOK /\ TimerPlacement /\ TickAccounting
=============================================================================
