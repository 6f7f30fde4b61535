------------------------------ MODULE FosList -------------------------------
(***************************************************************************)
(* kernel/list.c, pointer by pointer, under the operations the kernel uses *)
(* it for, and the loop of hardware_timer that follows next pointers while *)
(* entries are deleted under it.  A list is not circular: the last node's  *)
(* next is itself.  The other modules take lists for sequences; this one   *)
(* shows that they may, as long as an item is in one list at a time.       *)
(***************************************************************************)
EXTENDS Integers, Sequences, FiniteSets

CONSTANTS
    ListHead,   \* list heads
    Item,       \* nodes inside a TCB, TICK or MSG
    WalkedHead, \* the tick queue
    Nowhere     \* value of tmp outside hardware_timer

ASSUME ListAssumption ==
    /\ ListHead \cap Item = {}
    /\ WalkedHead \in ListHead
    /\ Nowhere \notin ListHead \cup Item

ASSUME FiniteItems == IsFiniteSet(Item)

Node == ListHead \cup Item

VARIABLES next, prev, tmp

listVars == <<next, prev, tmp>>

(* is_list_last                                                            *)
IsListLast(n) == next[n] = n

MaxHops == Cardinality(Item)

(* Node number k behind n; a last node repeats.                            *)
Behind(n) ==
    LET hop[k \in 0 .. MaxHops] == IF k = 0 THEN n ELSE next[hop[k - 1]]
    IN  hop

Reached(n) ==
    LET hop == Behind(n)
        len == CHOOSE k \in 0 .. MaxHops :
                  /\ k = MaxHops \/ IsListLast(hop[k])
                  /\ \A j \in 0 .. k - 1 : ~IsListLast(hop[j])
    IN  [k \in 1 .. len |-> hop[k]]

LastOf(h) == Behind(h)[MaxHops]

InList(n, h) == \E i \in DOMAIN Reached(h) : Reached(h)[i] = n

Unused(n) == \A h \in ListHead : ~InList(n, h)

-----------------------------------------------------------------------------
(* list_init of every head; the nodes of the items are zero, which no      *)
(* operation reads before it writes them: shown as pointers to themselves. *)
ListInit ==
    /\ next = [n \in Node |-> n]
    /\ prev = [n \in Node |-> n]
    /\ tmp = Nowhere

(* list_insert: n becomes the last node, behind node p                     *)
InsertedLast(p, n) ==
    /\ next' = [next EXCEPT ![n] = n, ![p] = n]
    /\ prev' = [prev EXCEPT ![n] = p]

(* list_insert_spec                                                        *)
InsertSpec(h, n) ==
    /\ tmp = Nowhere
    /\ Unused(n)
    /\ \/ IsListLast(h) /\ InsertedLast(h, n)
       \/ /\ ~IsListLast(h)
          /\ next' = [next EXCEPT ![n] = next[h], ![h] = n]
          /\ prev' = [prev EXCEPT ![n] = h, ![next[h]] = n]
    /\ UNCHANGED tmp

(* list_insert_behind, also from a callback while hardware_timer walks     *)
InsertBehind(h, n) ==
    /\ Unused(n)
    /\ InsertedLast(LastOf(h), n)
    /\ UNCHANGED tmp

(* list_delete: the pointers of n itself keep their values                 *)
Deleted(nx, pv, n) ==
    IF nx[n] = n THEN [next |-> [nx EXCEPT ![pv[n]] = pv[n]], prev |-> pv]
    ELSE [next |-> [nx EXCEPT ![pv[n]] = nx[n]],
          prev |-> [pv EXCEPT ![nx[n]] = pv[n]]]

ListDelete(n) ==
    /\ tmp = Nowhere
    /\ ~Unused(n)
    /\ next' = Deleted(next, prev, n).next
    /\ prev' = Deleted(next, prev, n).prev
    /\ UNCHANGED tmp

-----------------------------------------------------------------------------
(* The loop of hardware_timer                                              *)

WalkBegin ==
    /\ tmp = Nowhere
    /\ tmp' = WalkedHead
    /\ UNCHANGED <<next, prev>>

WalkOn == tmp # Nowhere /\ ~IsListLast(tmp)

(* tmp = tmp->next; the entry stays.                                       *)
WalkKeep ==
    /\ WalkOn
    /\ tmp' = next[tmp]
    /\ UNCHANGED <<next, prev>>

(* Faulty variant: tmp moves on before the entry is deleted.               *)
WalkDeleteMovesOn ==
    /\ WalkOn
    /\ tmp' = next[next[tmp]]
    /\ next' = Deleted(next, prev, next[tmp]).next
    /\ prev' = Deleted(next, prev, next[tmp]).prev

(* tmp = tmp->next; the entry is deleted, tmp stays on it.                 *)
WalkDelete ==
    /\ WalkOn
    /\ tmp' = next[tmp]
    /\ next' = Deleted(next, prev, tmp').next
    /\ prev' = Deleted(next, prev, tmp').prev

(* tmp = tmp->next; its callback appends n before it is deleted.           *)
WalkCallbackDelete(n) ==
    /\ WalkOn
    /\ Unused(n)
    /\ tmp' = next[tmp]
    /\ LET last == LastOf(WalkedHead)
           nx   == [next EXCEPT ![n] = n, ![last] = n]
           pv   == [prev EXCEPT ![n] = last]
       IN  /\ next' = Deleted(nx, pv, tmp').next
           /\ prev' = Deleted(nx, pv, tmp').prev

(* The same for an entry that stays.                                       *)
WalkCallbackKeep(n) ==
    /\ WalkOn
    /\ Unused(n)
    /\ tmp' = next[tmp]
    /\ InsertedLast(LastOf(WalkedHead), n)

WalkEnd ==
    /\ tmp # Nowhere
    /\ IsListLast(tmp)
    /\ tmp' = Nowhere
    /\ UNCHANGED <<next, prev>>

ListNext ==
    \/ WalkBegin \/ WalkKeep \/ WalkDelete \/ WalkEnd
    \/ \E n \in Item :
          \/ ListDelete(n) \/ WalkCallbackDelete(n) \/ WalkCallbackKeep(n)
          \/ \E h \in ListHead : InsertSpec(h, n) \/ (tmp = Nowhere /\ InsertBehind(h, n))

ListSpec == ListInit /\ [][ListNext]_listVars

-----------------------------------------------------------------------------
(* prev undoes next along every list: list_delete, which trusts prev,      *)
(* unlinks the node it is given and no other.                              *)
PrevUndoesNext ==
    \A h \in ListHead : \A i \in DOMAIN Reached(h) :
        prev[Reached(h)[i]] = IF i = 1 THEN h ELSE Reached(h)[i - 1]

(* The pointer lists and hardware_timer's cursor implement sequences and a *)
(* walk that sees every entry once.                                        *)
Sequences0 == INSTANCE AbstractList WITH
    list    <- [h \in ListHead |-> Reached(h)],
    rest    <- IF tmp = Nowhere THEN <<>> ELSE Reached(tmp),
    walking <- tmp # Nowhere

ImplementsSequences == Sequences0!Spec

(* Both: the list is the sequence it is taken for, forwards and backwards, *)
(* after any insertions and deletions, those under the walk included.      *)
ListIsSequence == []PrevUndoesNext /\ ImplementsSequences
=============================================================================
