------------------------------ MODULE MsgQueue ------------------------------
(***************************************************************************)
(* kernel/queue.c on top of the scheduler core.  msg_put wakes the first   *)
(* waiter, then stores the message or drops it when the queue is full, and *)
(* does not reschedule.  msg_get on an empty queue blocks and, once woken, *)
(* returns EMPTY without having looked at the queue again: the programs    *)
(* modelled here know this and repeat the call.                            *)
(***************************************************************************)
EXTENDS PrioSched, FiniteSets

CONSTANTS
    Queue,
    Msg,        \* the MSG objects of the program
    Length,     \* the length given to msg_queue_create, per queue
    Method      \* "FIFO" or "LIFO" as the program passes them to msg_put

ASSUME QueueAssumption ==
    /\ Length \in [Queue -> Nat \ {0}]
    /\ Method \subseteq {"FIFO", "LIFO"}

(* TCBs are C objects: there are finitely many.                            *)
ASSUME FiniteGetters == IsFiniteSet(Task)

VARIABLES
    msgs,       \* entry->msg_head
    count,      \* entry->count
    msg_list    \* entry->list

msgVars == <<schedVars, msgs, count, msg_list>>

InMsgGet(q) == <<"msg_get", q>>   \* blocked in msg_get(q), before its schedule()
Switched(q) == <<"switched", q>>  \* in that schedule()
Again(q)    == <<"again", q>>     \* got EMPTY from q and will call msg_get(q)

MsgPlace == {User, Trailing}
    \cup UNION {{InMsgGet(q), Switched(q), Again(q)} : q \in Queue}

InAnyQueue(m) == \E q \in Queue : \E i \in DOMAIN msgs[q] : msgs[q][i] = m

MayGet(t, q) == Running(t) /\ at[t] \in {User, Again(q)}

-----------------------------------------------------------------------------
(* msg_queue_create                                                        *)
MsgInit ==
    /\ SchedInit
    /\ msgs = [q \in Queue |-> <<>>]
    /\ count = [q \in Queue |-> 0]
    /\ msg_list = [q \in Queue |-> <<>>]

(* Faulty variants of msg_put: when it wakes a waiter, and whether it      *)
(* takes that one off the wait list.                                       *)
PutVariant(t, q, m, wake, unlink) ==
    /\ InUserCode(t)
    /\ ~InAnyQueue(m)
    /\ msg_list' = IF wake /\ unlink THEN [msg_list EXCEPT ![q] = Tail(@)] ELSE msg_list
    /\ ready' = IF wake THEN InsertHead(ready, prio[Head(msg_list[q])], Head(msg_list[q]))
                ELSE ready
    /\ IF count[q] = Length[q] THEN UNCHANGED <<count, msgs>>
       ELSE /\ count' = [count EXCEPT ![q] = @ + 1]
            /\ msgs' = [msgs EXCEPT ![q] = Append(@, m)]
    /\ UNCHANGED <<prio, created, new_task, schedule_is_lock, at>>

\* a waiter is woken only when the queue was empty
MsgPutWakesOnce(t, q, m, method) ==
    PutVariant(t, q, m, msg_list[q] # <<>> /\ count[q] = 0, TRUE)

\* the woken task stays in the wait list
MsgPutKeepsWaiter(t, q, m, method) ==
    PutVariant(t, q, m, msg_list[q] # <<>>, FALSE)

(* The program puts a MSG object only while it is in no queue: its list    *)
(* node can be in one list.                                                *)
MsgPut(t, q, m, method) ==
    /\ InUserCode(t)
    /\ ~InAnyQueue(m)
    /\ count[q] <= Length[q]
    /\ IF msg_list[q] # <<>>
       THEN /\ msg_list' = [msg_list EXCEPT ![q] = Tail(@)]
            /\ ready' = InsertHead(ready, prio[Head(msg_list[q])], Head(msg_list[q]))
       ELSE UNCHANGED <<msg_list, ready>>
    /\ IF count[q] = Length[q]
       THEN UNCHANGED <<count, msgs>>
       ELSE /\ count' = [count EXCEPT ![q] = @ + 1]
            /\ msgs' = [msgs EXCEPT ![q] = IF method = "FIFO" THEN Append(@, m)
                                           ELSE PushFront(@, m)]
    /\ UNCHANGED <<prio, created, new_task, schedule_is_lock, at>>

MsgGetFetch(t, q) ==
    /\ MayGet(t, q)
    /\ msgs[q] # <<>>
    /\ msgs' = [msgs EXCEPT ![q] = Tail(@)]
    /\ count' = [count EXCEPT ![q] = IF @ > 0 THEN @ - 1 ELSE @]
    /\ at' = [at EXCEPT ![t] = User]
    /\ UNCHANGED <<ready, prio, created, new_task, schedule_is_lock, msg_list>>

(* Up to interrupt_enable; the schedule() of line 151 follows.             *)
MsgGetBlock(t, q) ==
    /\ MayGet(t, q)
    /\ msgs[q] = <<>>
    /\ ready' = Delete(ready, prio[t], t)
    /\ msg_list' = [msg_list EXCEPT ![q] = Append(@, t)]
    /\ at' = [at EXCEPT ![t] = InMsgGet(q)]
    /\ UNCHANGED <<prio, created, new_task, schedule_is_lock, msgs, count>>

(* That schedule(): the caller is switched away, unless a tick did so      *)
(* before and a msg_put has made it ready again.                           *)
MsgGetSwitch(t, q) ==
    /\ Running(t)
    /\ at[t] = InMsgGet(q)
    /\ ScheduleFrom(ready)
    /\ at' = [at EXCEPT ![t] = Switched(q)]
    /\ UNCHANGED <<prio, created, schedule_is_lock, msgs, count, msg_list>>

MsgGetReturnEmpty(t, q) ==
    /\ Running(t)
    /\ at[t] = Switched(q)
    /\ at' = [at EXCEPT ![t] = Again(q)]
    /\ UNCHANGED <<ready, prio, created, new_task, schedule_is_lock,
                   msgs, count, msg_list>>

MsgCall(t) ==
    \E q \in Queue :
        \/ \E m \in Msg, method \in Method : MsgPut(t, q, m, method)
        \/ MsgGetFetch(t, q)
        \/ MsgGetBlock(t, q)
        \/ MsgGetSwitch(t, q)
        \/ MsgGetReturnEmpty(t, q)

queueVars == <<msgs, count, msg_list>>

MsgNext ==
    \/ Boot /\ UNCHANGED queueVars
    \/ Preempt /\ UNCHANGED queueVars
    \/ \E t \in Task : Schedule(t) /\ UNCHANGED queueVars
    \/ \E t \in Task \ {Idle} : MsgCall(t)

MsgSpec == MsgInit /\ [][MsgNext]_msgVars

ContinueGet(t) ==
    \E q \in Queue :
        \/ MsgGetSwitch(t, q)
        \/ MsgGetReturnEmpty(t, q)
        \/ at[t] = Again(q) /\ (MsgGetFetch(t, q) \/ MsgGetBlock(t, q))

(* The timer keeps ticking, and a task that gets the CPU again and again   *)
(* gets on with the msg_get it is in or has to repeat.                     *)
FairMsgSpec ==
    /\ MsgSpec
    /\ WF_msgVars(Preempt /\ UNCHANGED queueVars)
    /\ \A t \in Task \ {Idle} : SF_msgVars(ContinueGet(t))

-----------------------------------------------------------------------------
MsgTypeOK ==
    /\ TableTypeOK
    /\ at \in [Task -> MsgPlace]
    /\ msgs \in [Queue -> Seq(Msg)]
    /\ DOMAIN count = Queue /\ \A q \in Queue : count[q] \in 0 .. Length[q]
    /\ msg_list \in [Queue -> Seq(Task)]

WaitsForMsg(t, q) == \E i \in DOMAIN msg_list[q] : msg_list[q][i] = t

MsgBlocked == {t \in Task : \E q \in Queue : WaitsForMsg(t, q)}

(* Tasks on their way back to msg_get(q): woken, or with EMPTY in hand     *)
MsgReturning(q) ==
    {t \in Task : \/ at[t] = Again(q)
                  \/ at[t] \in {InMsgGet(q), Switched(q)} /\ ~WaitsForMsg(t, q)}

(* The list node of a TCB is in the ready table or in one wait list.       *)
MsgPlacement ==
    /\ QueuedOnce
    /\ ReadyTasks = created \ MsgBlocked
    /\ MsgBlocked \subseteq created
    /\ \A q \in Queue : \A i, j \in DOMAIN msg_list[q] :
          msg_list[q][i] = msg_list[q][j] => i = j
    /\ \A t \in Task, q \in Queue :
          WaitsForMsg(t, q) => at[t] \in {InMsgGet(q), Switched(q)}

(* count, which msg_put trusts, agrees with the list, which msg_get trusts,*)
(* and no MSG object is in two places of the lists.                        *)
CountIsLength ==
    /\ \A q \in Queue : count[q] = Len(msgs[q])
    /\ \A q, p \in Queue : \A i \in DOMAIN msgs[q], j \in DOMAIN msgs[p] :
          msgs[q][i] = msgs[p][j] => q = p /\ i = j

(* While a task waits on a queue, each message in it has a task on its way *)
(* back to msg_get: a wake-up is not lost although the woken task does not *)
(* take the message with it.  It needs programs that repeat the call.      *)
NoStrandedMessage ==
    \A q \in Queue : msg_list[q] # <<>> =>
        Len(msgs[q]) <= Cardinality(MsgReturning(q))

OnePriority == \A t, u \in created \ {Idle} : prio[t] = prio[u]

(* With tasks of one priority, a message and a msg_list task do not stay    *)
(* apart for ever, although the message is not handed over (msg_put) and   *)
(* the woken task has to come back for it (msg_get).                       *)
MessageMeetsWaiter ==
    \A q \in Queue :
        []<>(OnePriority => msg_list[q] = <<>> \/ msgs[q] = <<>>)

(* Tables and lists, and no message strands beside a waiting task.         *)
MsgSafe == MsgTypeOK /\ MsgPlacement /\ CountIsLength /\ NoStrandedMessage
=============================================================================
