------------------------------ MODULE Or1kPort ------------------------------
(***************************************************************************)
(* Task switches and interrupts on the OpenRISC port: what reset.S and     *)
(* interrupt.c do to the supervision register SR, to the frames on the     *)
(* stacks and to the stack pointers in the TCBs, under schedule() and      *)
(* find_high_ready_task (while the scheduler is not locked).  Registers    *)
(* are sets of their bits.  An exception saves SR in a frame on the stack  *)
(* in use and clears both enables, l.rfe restores it; with the enables     *)
(* clear nothing comes in between, so that an exception and what it calls, *)
(* up to l.rfe or l.sys, are one step.  The model ends with the first      *)
(* user_isr, which stores no stack pointer: the task it interrupts has     *)
(* none to be resumed from.  The repository's programs install no handler. *)
(***************************************************************************)
EXTENDS Integers, Sequences

CONSTANTS Irq,      \* interrupt lines with a device, below MAX_INT_HANDLERS
          Job,      \* tasks
          Created,  \* the order in which task_create made them
          IdleJob,  \* the idle task, which system_start starts and which never blocks
          Rank,     \* their priorities, the highest is the smallest
          MaxNest   \* bound on nested critical sections

ASSUME PortAssumption ==
    /\ Rank \in [Job -> Nat] /\ MaxNest \in Nat /\ IdleJob \in Job /\ Created \in Seq(Job)
    /\ \A t \in Job : \E i \in DOMAIN Created : Created[i] = t
    /\ \A i, j \in DOMAIN Created : Created[i] = Created[j] => i = j

VARIABLES
    sr,         \* SPR_SR: a subset of {"IEE", "TEE"}
    cpuSr,      \* the cpu_sr variables of each task's critical sections
    job,        \* the task that runs, that is, whose stack r1 points into
    pc,         \* where it runs: "task", "sys" (behind l.sys in schedule()), "lost" (anywhere)
    stack,      \* the frames on the tasks' stacks: PT_SR and, for PT_PC, "task" or "sys"
    stackPtr,   \* stack_ptr of the TCBs: the number of a frame on a task's stack; 0 for a
                \* frame that was given back since
    readyFifo,       \* the ready tasks; those of one priority in the order of their FIFO
    newTask,    \* new_task
    picmr, picsr,   \* the controller: the lines that are not masked, those that are asserted
    stale       \* history: user_isr has left a task whose TCB names no frame

pic == <<picmr, picsr, stale>>
stacks == <<stack, stackPtr>>
portVars == <<sr, cpuSr, job, pc, stacks, readyFifo, newTask, pic>>
Enables == {"IEE", "TEE"}
Frame(s, place) == [sr |-> s, at |-> place]
Top(s) == s[Len(s)]
Below(s) == SubSeq(s, 1, Len(s) - 1)

\* stack_init for every task, hw_interrupt_init, and the idle task loaded by start_schedule.
PortInit ==
    /\ sr = Enables /\ cpuSr = [t \in Job |-> <<>>] /\ pc = "task"
    /\ job = IdleJob /\ newTask = IdleJob /\ readyFifo = Created
    /\ stack = [t \in Job |-> IF t = IdleJob THEN <<>> ELSE <<Frame(Enables, "task")>>]
    /\ stackPtr = [t \in Job |-> [of |-> t, depth |-> IF t = IdleJob THEN 0 ELSE 1]]
    /\ picmr = {} /\ picsr = {} /\ stale = FALSE

\* prio_ready_queue_fetch: the head of the highest FIFO, which goes to its end
HeadOf(q) == CHOOSE i \in DOMAIN q : \A j \in DOMAIN q :
                Rank[q[i]] < Rank[q[j]] \/ (Rank[q[i]] = Rank[q[j]] /\ i <= j)
Without(q, i) == [j \in 1 .. Len(q) - 1 |-> IF j < i THEN q[j] ELSE q[j + 1]]
Fetched(q) == q[HeadOf(q)]
Rotated(q) == Append(Without(q, HeadOf(q)), Fetched(q))

InTask(t) == pc = "task" /\ job = t
InterruptDisable(t) ==
    /\ InTask(t) /\ Len(cpuSr[t]) < MaxNest
    /\ cpuSr' = [cpuSr EXCEPT ![t] = Append(@, sr)] /\ sr' = {}
    /\ UNCHANGED <<job, pc, stacks, readyFifo, newTask>> /\ UNCHANGED pic

\* Faulty variant: both enables are set whatever cpu_sr says, as the comment in the code has it.
InterruptEnableAlways(t) ==
    /\ InTask(t) /\ cpuSr[t] # <<>>
    /\ sr' = Enables /\ cpuSr' = [cpuSr EXCEPT ![t] = Below(@)]
    /\ UNCHANGED <<job, pc, stacks, readyFifo, newTask>> /\ UNCHANGED pic

InterruptEnable(t) ==
    /\ InTask(t) /\ cpuSr[t] # <<>>
    /\ sr' = Top(cpuSr[t]) /\ cpuSr' = [cpuSr EXCEPT ![t] = Below(@)]
    /\ UNCHANGED <<job, pc, stacks, readyFifo, newTask>> /\ UNCHANGED pic

\* What kernel calls do to the ready tasks in their sections: t blocks, another task is woken
\* and put at the end of its FIFO or at its head.
BlockIn(t) ==
    /\ InTask(t) /\ cpuSr[t] # <<>> /\ t # IdleJob
    /\ \E i \in DOMAIN readyFifo : readyFifo[i] = t /\ readyFifo' = Without(readyFifo, i)
    /\ UNCHANGED <<sr, cpuSr, job, pc, stacks, newTask>> /\ UNCHANGED pic
IsReady(u) == \E i \in DOMAIN readyFifo : readyFifo[i] = u
Wakes(t, u) ==
    /\ InTask(t) /\ cpuSr[t] # <<>> /\ ~IsReady(u)
    /\ readyFifo' = Append(readyFifo, u) \/ readyFifo' = <<u>> \o readyFifo
    /\ UNCHANGED <<sr, cpuSr, job, pc, stacks, newTask>> /\ UNCHANGED pic

\* The ends of task_switch and user_isr: r1 is loaded from the TCB of new_task = u and its frame
\* is resumed and given back; of frames stk and pointers ptr.
Resume(u, stk, ptr) ==
    LET p == ptr[u] IN
    /\ newTask' = u
    /\ IF p.depth \in 1 .. Len(stk[p.of])
       THEN /\ job' = p.of /\ sr' = stk[p.of][p.depth].sr /\ pc' = stk[p.of][p.depth].at
            /\ stack' = [stk EXCEPT ![p.of] = SubSeq(@, 1, p.depth - 1)]
            /\ stackPtr' = [ptr EXCEPT ![u].depth = 0]
       ELSE pc' = "lost" /\ stack' = stk /\ stackPtr' = ptr /\ UNCHANGED <<sr, job>>

\* task_switch, under l.sys in schedule(): new_task, old_task from here on, is left for u; the
\* frames fs were pushed on the stack in use.
TaskSwitch(u, fs) ==
    LET stk == [stack EXCEPT ![job] = @ \o fs] IN
    Resume(u, stk, [stackPtr EXCEPT ![newTask] = [of |-> job, depth |-> Len(stk[job])]])

\* schedule() in a task, up to l.sys
PortSchedule(t) ==
    /\ InTask(t) /\ readyFifo' = Rotated(readyFifo)
    /\ \/ /\ Fetched(readyFifo) = newTask /\ UNCHANGED <<sr, cpuSr, job, pc, stacks, newTask>>
       \/ /\ Fetched(readyFifo) # newTask
          /\ cpuSr' = [cpuSr EXCEPT ![t] = Append(@, sr)]
          /\ TaskSwitch(Fetched(readyFifo), <<Frame({}, "sys")>>)
    /\ UNCHANGED pic

\* The rest of schedule(); under timer_isr, also find_high_ready_task and l.rfe.
ScheduleReturns ==
    /\ pc = "sys" /\ pc' = "task" /\ cpuSr' = [cpuSr EXCEPT ![job] = Below(@)]
    /\ \/ /\ stack[job] = <<>> /\ sr' = Top(cpuSr[job]) /\ UNCHANGED <<stack, readyFifo, newTask>>
       \/ /\ stack[job] # <<>>
          /\ readyFifo' = Rotated(readyFifo) /\ newTask' = Fetched(readyFifo)
          /\ sr' = Top(stack[job]).sr /\ stack' = [stack EXCEPT ![job] = Below(@)]
    /\ UNCHANGED <<job, stackPtr>> /\ UNCHANGED pic

\* timer_isr with hardware_timer, which ends a delay or none, up to l.sys or l.rfe
TimerIsr ==
    /\ pc = "task" /\ "TEE" \in sr
    /\ \E q \in {readyFifo} \cup {Append(readyFifo, u) : u \in {u \in Job : ~IsReady(u)}} :
          \/ /\ Fetched(q) = newTask
             /\ readyFifo' = Rotated(Rotated(q)) /\ newTask' = Fetched(Rotated(q))
             /\ UNCHANGED <<sr, cpuSr, job, pc, stacks>>
          \/ /\ Fetched(q) # newTask
             /\ readyFifo' = Rotated(q) /\ cpuSr' = [cpuSr EXCEPT ![job] = Append(@, {})]
             /\ TaskSwitch(Fetched(q), <<Frame(sr, "task"), Frame({}, "sys")>>)
    /\ UNCHANGED pic

\* hw_interrupt_mask, hw_interrupt_unmask and hw_interrupt_install, which unmasks
noPic == <<sr, cpuSr, job, pc, stacks, readyFifo, newTask, stale>>
HwInterruptMask(t, v) == InTask(t) /\ picmr' = picmr \ {v} /\ UNCHANGED picsr /\ UNCHANGED noPic
HwInterruptUnmask(t, v) == InTask(t) /\ picmr' = picmr \cup {v} /\ UNCHANGED picsr /\ UNCHANGED noPic

\* Hardware: a device asserts its line, and the controller shows it unless it is masked.
RaiseLine(v) == v \in picmr /\ picsr' = picsr \cup {v} /\ UNCHANGED picmr /\ UNCHANGED noPic

\* user_isr: usr_handle calls the handlers and clears the status of all lines, then
\* find_high_ready_task, and the task it names is resumed.
UserIsr ==
    /\ pc = "task" /\ "IEE" \in sr /\ picsr # {} /\ stale' = TRUE /\ picsr' = {}
    /\ readyFifo' = Rotated(readyFifo)
    /\ Resume(Fetched(readyFifo), [stack EXCEPT ![job] = Append(@, Frame(sr, "task"))], stackPtr)
    /\ UNCHANGED <<cpuSr, picmr>>

PortNext ==
    /\ ~stale
    /\ \/ \E t \in Job : \/ InterruptDisable(t) \/ InterruptEnable(t) \/ PortSchedule(t) \/ BlockIn(t)
                          \/ \E u \in Job : Wakes(t, u)
                          \/ \E v \in Irq : HwInterruptMask(t, v) \/ HwInterruptUnmask(t, v)
       \/ ScheduleReturns \/ TimerIsr \/ UserIsr \/ \E v \in Irq : RaiseLine(v)
PortSpec == PortInit /\ [][PortNext]_portVars

-----------------------------------------------------------------------------
\* A task in a critical section is not interrupted, and a task outside of one can be, whatever
\* sections the tasks it was switched with are in (interrupt.c, schedule(), reset.S).
SrFollowsSections == sr = IF cpuSr[job] = <<>> THEN Enables ELSE {}

\* new_task is the task that runs, and the TCB of every other one names the last frame on that
\* task's own stack: the context that was saved last is resumed (task_switch, timer_isr).
OwnStacks ==
    /\ newTask = job
    /\ \A t \in Job \ {job} : stack[t] # <<>> /\ stackPtr[t] = [of |-> t, depth |-> Len(stack[t])]

\* Both: tasks of different priorities are switched by calls and ticks as they left off, until
\* a device interrupts one.
InterruptsWork == ~stale => SrFollowsSections /\ OwnStacks

\* "old_task->stack_ptr = SP" (reset.S): the stack pointer that task_switch stores in a TCB is
\* that of the task whose TCB it is.
StackIsItsOwn == \A t \in Job : stackPtr[t].of = t
=============================================================================
