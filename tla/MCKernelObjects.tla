--------------------------- MODULE MCKernelObjects ---------------------------
(* One behaviour is a program that uses one kind of object, `use`: mutexes *)
(* that tasks hold while they sleep, mutexes that they nest, a message     *)
(* queue of length two and three messages, delays and two software timers, *)
(* or changes of priority within a bitmap byte and across bytes.           *)
EXTENDS Mutex, MsgQueue, Timer, TaskPrioChange

CONSTANTS idle, t1, t2, t3, none, m1, m2, q1, msg1, msg2, msg3, soft1, soft2

VARIABLE use
objectVars == <<mutexVars, msgVars, timerVars, changeVars, use>>

MCTask == {idle, t1, t2, t3}
MCUserPrio == {0, 1, 2}
MCLength == [q \in Queue |-> 2]

mutexOwn == <<enable, copy_prio, mutex_list, asleep, holds, base, sleepers>>
timerOwn == <<tick_queue, timeout, timeout_copy, cycle, since, walk>>

\* The number of tasks a program creates and their priorities.  Tasks are interchangeable,
\* and the order of creation shows within a priority only: it is enough that t1, t2 and t3
\* are created in this order with priorities that do not fall.
Order == <<t1, t2, t3>>
Fits(n, prios) == /\ created' \in {{idle} \cup {Order[i] : i \in 1 .. k} : k \in 0 .. n}
                  /\ \A t \in created' \ created :
                        prio'[t] \in prios /\ \A u \in created \ {idle} : prio[u] <= prio'[t]
MutexUse == /\ use = (IF sleepers THEN "sleep" ELSE "nest") /\ MutexNext
            /\ Fits(3, {1, 2})
            /\ sleepers => \A t \in Task : \A i \in DOMAIN holds'[t] : holds'[t][i] = m1
            /\ UNCHANGED <<use, queueVars, timerOwn, wanted>>
MsgUse == /\ use = "msg" /\ MsgNext /\ Fits(3, {0, 1})
          /\ UNCHANGED <<use, mutexOwn, timerOwn, wanted>>
TimerUse == /\ use = "timer" /\ TimerNext /\ Fits(2, {1})
            /\ UNCHANGED <<use, mutexOwn, queueVars, wanted>>
ChangeUse == /\ use = "change" /\ ChangeNext /\ Fits(2, {1, 2})
             /\ UNCHANGED <<use, mutexOwn, queueVars, timerOwn>>

ObjectsInit == /\ MutexInit /\ MsgInit /\ TimerInit /\ ChangeInit
               /\ use \in {"sleep", "nest", "msg", "timer", "change"} /\ sleepers = (use # "nest")
ObjectsNext == MutexUse \/ MsgUse \/ TimerUse \/ ChangeUse

\* The fairness of FairMsgSpec and FairTimerSpec.
FairObjects ==
    /\ ObjectsInit /\ [][ObjectsNext]_objectVars
    /\ WF_objectVars(MsgUse /\ Preempt /\ UNCHANGED queueVars)
    /\ \A t \in Task \ {Idle} : SF_objectVars(MsgUse /\ ContinueGet(t))
    /\ WF_objectVars(TimerUse /\ HardwareTimer)

\* Each object's invariant, where the program uses that object.
MutexesSafe == use \in {"sleep", "nest"} => MutexSafe
QueuesSafe  == use = "msg" => MsgSafe
TimersSafe  == use = "timer" => TimerSafe
ChangesSafe == use = "change" => ChangeSafe

\* The two bitmap levels follow every insertion and removal, also the one that empties a
\* FIFO or a byte because its task blocks, sleeps or takes the ceiling priority
\* (bitmap_set, bitmap_clear and their callers).  Of changes of priority ChangesSafe says it.
BitmapsExact == use # "change" => BitmapExact
=============================================================================
