------------------------- MODULE AbstractSemaphore --------------------------
(* What a counting semaphore promises its users, with no scheduler, no     *)
(* wait list and no order: each completed sem_get uses up one unit that    *)
(* was there, and nobody else can use that unit.                           *)
EXTENDS Naturals

CONSTANTS Client, Sem, Units0

VARIABLES
    value,      \* units not yet used up by a completed get, per semaphore
    pending     \* <<client, semaphore>>: gets that have not returned

vars == <<value, pending>>

Init == value = Units0 /\ pending = {}

NotPending(c) == \A s \in Sem : <<c, s>> \notin pending

Use(s) == value[s] > 0 /\ value' = [value EXCEPT ![s] = @ - 1]

GetAtOnce(c, s) == NotPending(c) /\ Use(s) /\ UNCHANGED pending

GetLater(c, s) ==
    /\ NotPending(c)
    /\ pending' = pending \cup {<<c, s>>}
    /\ UNCHANGED value

Return(c, s) ==
    /\ <<c, s>> \in pending
    /\ Use(s)
    /\ pending' = pending \ {<<c, s>>}

Put(s) == value' = [value EXCEPT ![s] = @ + 1] /\ UNCHANGED pending

Next ==
    \E s \in Sem :
        \/ Put(s)
        \/ \E c \in Client : GetAtOnce(c, s) \/ GetLater(c, s) \/ Return(c, s)

Spec == Init /\ [][Next]_vars
=============================================================================
