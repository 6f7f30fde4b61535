-------------------------------- MODULE Fsm ---------------------------------
(***************************************************************************)
(* kernel/fsm.c: the list of state descriptions and the state machine that *)
(* runs one of them.  state_obj is the node that state_add inserts behind, *)
(* state_obj_copy the one that every search starts from; the pointers are  *)
(* those of kernel/list.c.  A handler is identified with its node.         *)
(***************************************************************************)
EXTENDS Integers, FiniteSets

CONSTANTS
    StateNo,    \* numbers of states
    Blocks      \* what malloc hands out, 1 .. the number of state_init and state_add calls

Removed == 10000
Default == 0    \* fsm_default.state, with a handler set by SET_STATE_DEFAULT_FUNC
ASSUME FsmAssumption ==
    /\ StateNo \subseteq Nat \ {Removed, Default}
    /\ Blocks = 1 .. Cardinality(Blocks) /\ Cardinality(Blocks) \in Nat \ {0}

VARIABLES
    fnext, fprev, number,               \* node.next, node.prev, state of each block
    fsmobj,                             \* state and handler of fsm_obj, 0 for the default's
    stateobj, stateobjcopy, used,       \* state_obj, state_obj_copy, blocks handed out
    lost                                \* ghost: blocks added behind a node that was removed

fsmVars == <<fnext, fprev, number, fsmobj, stateobj, stateobjcopy, used, lost>>

\* The loop of state_remove and state_tran: the first node from state_obj_copy on with
\* the number, the last one included.
Walk == LET node[k \in 0 .. Cardinality(Blocks)] ==
                IF k = 0 THEN stateobjcopy ELSE fnext[node[k - 1]]
        IN  node
Hits(n) == {k \in DOMAIN Walk : number[Walk[k]] = n}
Search(n) == Walk[CHOOSE k \in Hits(n) : \A j \in Hits(n) : k <= j]

\* state_init with the first state (fsm_init allocates)
FsmInit == \E n \in StateNo :
    /\ fnext = [b \in Blocks |-> b] /\ fprev = [b \in Blocks |-> b]
    /\ number = [b \in Blocks |-> IF b = 1 THEN n ELSE Removed]
    /\ fsmobj = [state |-> n, func |-> 1]
    /\ stateobj = 1 /\ stateobjcopy = 1 /\ used = 1 /\ lost = {}

\* Faulty variant: state_obj stays where it is.
StateAddStays(n) ==
    LET b == used + 1 IN
    /\ b \in Blocks /\ used' = b
    /\ number' = [number EXCEPT ![b] = n]
    /\ fnext' = [fnext EXCEPT ![b] = b, ![stateobj] = b]
    /\ fprev' = [fprev EXCEPT ![b] = stateobj]
    /\ UNCHANGED <<fsmobj, stateobj, stateobjcopy, lost>>

\* state_add: list_insert makes the new node the last, state_obj follows it.
StateAdd(n) ==
    LET b == used + 1 IN
    /\ b \in Blocks /\ used' = b
    /\ number' = [number EXCEPT ![b] = n]
    /\ fnext' = [fnext EXCEPT ![b] = b, ![stateobj] = b]
    /\ fprev' = [fprev EXCEPT ![b] = stateobj]
    /\ stateobj' = b
    /\ lost' = IF stateobj \in lost \/ (number[stateobj] = Removed /\ stateobj # stateobjcopy)
               THEN lost \cup {b} ELSE lost
    /\ UNCHANGED <<fsmobj, stateobjcopy>>

\* list_delete
FsmUnlink(b) ==
    IF fnext[b] = b
    THEN fnext' = [fnext EXCEPT ![fprev[b]] = fprev[b]] /\ UNCHANGED fprev
    ELSE /\ fnext' = [fnext EXCEPT ![fprev[b]] = fnext[b]]
         /\ fprev' = [fprev EXCEPT ![fnext[b]] = fprev[b]]

\* state_remove; the block is neither freed nor is fsm_obj looked at.
StateRemove(n) ==
    /\ \/ Hits(n) = {} /\ UNCHANGED <<fnext, fprev, number>>
       \/ Hits(n) # {} /\ FsmUnlink(Search(n)) /\ number' = [number EXCEPT ![Search(n)] = Removed]
    /\ UNCHANGED <<fsmobj, stateobj, stateobjcopy, used, lost>>

\* state_tran, called by the handler that runs (fsm_while): to state_default if there is none.
StateTran(n) ==
    /\ fsmobj' = IF Hits(n) = {} THEN [state |-> Default, func |-> 0]
                 ELSE [state |-> n, func |-> Search(n)]
    /\ UNCHANGED <<fnext, fprev, number, stateobj, stateobjcopy, used, lost>>

FsmNext == \E n \in StateNo : StateAdd(n) \/ StateRemove(n) \/ StateTran(n)
FsmSpec == FsmInit /\ [][FsmNext]_fsmVars
-----------------------------------------------------------------------------
\* The blocks that were added with number n and not removed, without those added right
\* behind a state that had been removed (state_add inserts behind state_obj, which
\* state_remove leaves where it is).
Added(n) == {b \in Blocks : b <= used /\ b \notin lost /\ number[b] = n}

\* A transition to a state that was added and not removed enters it, in spite of any
\* additions and removals of others before, and one to a state that is not there ends in
\* the default (state_tran over the list that state_add and state_remove leave).
FsmSafe ==
    [][\A n \in StateNo : StateTran(n) =>
        /\ Added(n) # {} => fsmobj'.state = n
        /\ fsmobj'.state # Default => number[fsmobj'.func] = n]_fsmVars
=============================================================================
