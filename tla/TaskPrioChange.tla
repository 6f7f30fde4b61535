--------------------------- MODULE TaskPrioChange ---------------------------
(***************************************************************************)
(* task_prio_change of kernel/task.c on top of the scheduler core.  The    *)
(* call does not disable interrupts: it unlinks the task, clears the bit   *)
(* of a FIFO that became empty, stores the new priority, sets its bit and  *)
(* links the task, and the timer may interrupt between any two of these.   *)
(***************************************************************************)
EXTENDS PrioSched

CONSTANTS
    PrioArg,       \* the priorities passed to task_prio_change
    CallerMasks    \* whether callers disable interrupts around the call

ASSUME PrioArgAssumption ==
    /\ PrioArg \subseteq 1 .. SystemWord
    /\ CallerMasks \in BOOLEAN

VARIABLE
    wanted         \* the argument prio of the call a task is in

changeVars == <<schedVars, wanted>>

Unlinked == <<"unlinked">>    \* list_delete done
Cleared  == <<"cleared">>     \* prio_ready_queue_delete done
Stored   == <<"stored">>      \* tcb->prio = prio done
BitIsSet == <<"bit set">>     \* bitmap_set done

Changing(t) == at[t] \in {Unlinked, Cleared, Stored, BitIsSet}

(* A timer interrupt may come now.                                         *)
Interruptible == ~CallerMasks \/ \A t \in Task : ~Changing(t)

-----------------------------------------------------------------------------
ChangeInit == SchedInit /\ wanted = [t \in Task |-> 0]

(* The argument checks, then list_delete; the task names itself, as the    *)
(* assertion wants.                                                        *)
PrioChangeUnlink(t, p) ==
    /\ InUserCode(t)
    /\ p >= 1 /\ p <= SystemWord
    /\ wanted' = [wanted EXCEPT ![t] = p]
    /\ ready' = [ready EXCEPT !.queue[prio[t]] = Unlink(@, t)]
    /\ at' = [at EXCEPT ![t] = Unlinked]
    /\ UNCHANGED <<prio, created, new_task, schedule_is_lock>>

Step(t, from, to) ==
    /\ Running(t)
    /\ at[t] = from
    /\ at' = [at EXCEPT ![t] = to]
    /\ UNCHANGED <<created, new_task, schedule_is_lock, wanted>>

PrioChangeClear(t) ==
    /\ Step(t, Unlinked, Cleared)
    /\ ready' = IF ready.queue[prio[t]] = <<>> THEN BitmapClear(ready, prio[t])
                ELSE ready
    /\ UNCHANGED prio

PrioChangeStore(t) ==
    /\ Step(t, Cleared, Stored)
    /\ prio' = [prio EXCEPT ![t] = wanted[t]]
    /\ UNCHANGED ready

(* From here on a priority of SystemWord indexes past task_prio_queue:     *)
(* the model stops there.                                                  *)
PrioChangeSetBit(t) ==
    /\ prio[t] \in Prio
    /\ Step(t, Stored, BitIsSet)
    /\ ready' = BitmapSet(ready, prio[t])
    /\ UNCHANGED prio

(* Faulty variant: the task is not linked again.                           *)
PrioChangeNoLink(t) ==
    /\ Step(t, BitIsSet, User)
    /\ UNCHANGED <<ready, prio>>

PrioChangeLink(t) ==
    /\ Step(t, BitIsSet, User)
    /\ ready' = [ready EXCEPT !.queue[prio[t]] = PushFront(@, t)]
    /\ UNCHANGED prio

ChangeNext ==
    \/ Interruptible /\ Preempt /\ UNCHANGED wanted
    \/ Boot /\ UNCHANGED wanted
    \/ \E t \in Task : Schedule(t) /\ UNCHANGED wanted
    \/ \E t \in Task \ {Idle} :
          \/ \E p \in PrioArg : PrioChangeUnlink(t, p)
          \/ PrioChangeClear(t)
          \/ PrioChangeStore(t)
          \/ PrioChangeSetBit(t)
          \/ PrioChangeLink(t)

ChangeSpec == ChangeInit /\ [][ChangeNext]_changeVars

-----------------------------------------------------------------------------
ChangeTypeOK ==
    /\ TableTypeOK
    /\ at \in [Task -> {User, Trailing, Unlinked, Cleared, Stored, BitIsSet}]
    /\ wanted \in [Task -> Nat]

(* A task_prio_change that callers protect leaves the tables as they       *)
(* should be whenever it is not under way.                                 *)
ChangeKeepsTables ==
    (\A t \in Task : ~Changing(t)) => BitmapExact /\ QueuedOnce /\ AllReady

(* A created task that is not the running one is in the ready table, where *)
(* a later schedule() finds it.                                            *)
PreemptedIsReady ==
    Started => \A t \in created \ {new_task} : t \in ReadyTasks

(* schedule() finds a task (OS_ASSERT(tmp), prio_sched.c:171).             *)
FetchFindsTask == [][Started => new_task' # NoTask]_changeVars

(* What task_prio_change promises to callers that protect it.              *)
ChangeSafe == ChangeTypeOK /\ ChangeKeepsTables /\ PreemptedIsReady
=============================================================================
