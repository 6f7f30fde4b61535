---------------------------- MODULE MCKernelParts ----------------------------
(* The parts of the kernel and of its ports that work on their own: one    *)
(* behaviour exercises one of them, `part`, and leaves the others alone.   *)
(* The scheduler has the idle task and three tasks that may share a        *)
(* priority or sit in different bytes of a bitmap with two bits per byte;  *)
(* the same tasks, of two priorities, use two semaphores, of which s1      *)
(* starts empty and s2 with one unit.                                      *)
EXTENDS Semaphore, FosList, Device, Fsm, Or1kPort, Shell, FosLibc, Uart

CONSTANTS idle, t1, t2, t3, none, h1, h2, n1, n2, n3, nowhere, s1, s2

VARIABLE part
semOwn == <<count, waiting, units>>
partsVars == <<semVars, listVars, devVars, fsmVars, portVars, shellVars, libcVars, uartVars, part>>

MCTask == {idle, t1, t2, t3}
MCUserPrio == {0, 1, 2}
MCInitCount == [s \in Sem |-> IF s = s1 THEN 0 ELSE 1]
MCParts == {<<>>, <<0>>, <<2, 5>>, <<2, 5, 5>>, <<1, 2, 3, 4>>, <<1, Letter>>}
MCPrints == {[how |-> "str", value |-> <<"a", "nl">>], [how |-> "long", value |-> 43],
             [how |-> "short", value |-> 0], [how |-> "short", value |-> 163]}
MCCreated == <<"j2", "idle", "j1">>
MCAlike == [t \in Job |-> IF t = "idle" THEN 1 ELSE 0]
MCDistinct == [t \in Job |-> CASE t = "j1" -> 0 [] t = "j2" -> 1 [] OTHER -> 2]
\* A character, a conversion of each kind, one that print does not know.
MCItems == {[format |-> <<"z">>, args |-> <<>>, text |-> <<"z">>],
            [format |-> <<"%", "c">>, args |-> <<"%">>, text |-> <<"%">>],
            [format |-> <<"%", "i">>, args |-> <<110>>, text |-> <<"1", "1", "0">>],
            [format |-> <<"%", "d">>, args |-> <<0>>, text |-> <<"0">>],
            [format |-> <<"%", "o">>, args |-> <<9>>, text |-> <<"1", "1">>],
            [format |-> <<"%", "x">>, args |-> <<173>>, text |-> <<"a", "d">>],
            [format |-> <<"%", "s">>, args |-> <<<<"%", "d">>>>, text |-> <<"%", "d">>],
            [format |-> <<"%", "%">>, args |-> <<>>, text |-> <<>>]}

\* What the part that runs does not use starts in one of its initial states.
PartsInit ==
    /\ part \in {"sched", "sem", "list", "device", "fsm", "port", "shell", "libc", "uart"}
    /\ SemInit /\ ListInit /\ DevInit /\ FsmInit /\ PortInit /\ ShellInit /\ LibcInit /\ UartInit
    /\ part # "device" => \A d, e \in Devices : name[d] = name[e] /\ name[d] = CHOOSE n \in Names : TRUE
    /\ part # "fsm" => fsmobj.state = CHOOSE n \in StateNo : TRUE

PartsNext ==
    \/ /\ part = "sched" /\ SchedNext
       /\ UNCHANGED <<semOwn, listVars, devVars, fsmVars, portVars, shellVars, libcVars, uartVars, part>>
    \/ /\ part = "sem" /\ SemNext /\ \A t \in created' \ created : prio'[t] \in {0, 1} \/ t = Idle
       /\ UNCHANGED <<listVars, devVars, fsmVars, portVars, shellVars, libcVars, uartVars, part>>
    \/ /\ part = "list" /\ ListNext
       /\ UNCHANGED <<semVars, devVars, fsmVars, portVars, shellVars, libcVars, uartVars, part>>
    \/ /\ part = "device" /\ DevNext
       /\ UNCHANGED <<semVars, listVars, fsmVars, portVars, shellVars, libcVars, uartVars, part>>
    \/ /\ part = "fsm" /\ FsmNext
       /\ UNCHANGED <<semVars, listVars, devVars, portVars, shellVars, libcVars, uartVars, part>>
    \/ /\ part = "port" /\ PortNext
       /\ UNCHANGED <<semVars, listVars, devVars, fsmVars, shellVars, libcVars, uartVars, part>>
    \/ /\ part = "shell" /\ ShellNext
       /\ UNCHANGED <<semVars, listVars, devVars, fsmVars, portVars, libcVars, uartVars, part>>
    \/ /\ part = "libc" /\ LibcNext
       /\ UNCHANGED <<semVars, listVars, devVars, fsmVars, portVars, shellVars, uartVars, part>>
    \/ /\ part = "uart" /\ UartNext
       /\ UNCHANGED <<semVars, listVars, devVars, fsmVars, portVars, shellVars, libcVars, part>>

\* The fairness of FairSchedSpec and of FairSemSpec.
FairParts ==
    /\ PartsInit /\ [][PartsNext]_partsVars
    /\ WF_semVars(Preempt /\ UNCHANGED semOwn)
    /\ \A t \in Task \ {Idle} : SF_semVars(part = "sem" /\ FinishCall(t))

-----------------------------------------------------------------------------
\* Where tasks only run and yield, each is in the FIFO of its priority, once, whatever was
\* deleted and inserted behind by fetches (prio_sched.c:167-189); of the others SemSafe says it.
TasksQueued == part # "sem" => SchedSafe

\* There, the tasks of the highest ready priority take turns (fetch, prio_sched.c:174-177); a
\* task that sem_put wakes is put before the others, again and again.
TurnsTaken == part # "sem" => RoundRobin

\* What is printed arrives, and the library computes what its callers take it to.
TextIsRight == LibcIsRight /\ MemoryIsRight /\ PrintsArrive
=============================================================================
