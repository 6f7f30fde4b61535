---------------------------- MODULE MCSemaphore -----------------------------
(* Up to three tasks beside the idle task, on one or two semaphores: s1    *)
(* starts empty, s2 with one unit.                                         *)
EXTENDS Semaphore

CONSTANTS idle, t1, t2, t3, none, s1, s2

MCTask == {idle, t1, t2, t3}
MCUserPrio == {0, 1}
MCInitCount == [s \in Sem |-> IF s = s1 THEN 0 ELSE 1]
=============================================================================
