---------------------------- MODULE AbstractList ----------------------------
(* What the kernel takes its lists for: sequences of items, and a walk     *)
(* over the sequence of WalkedHead that sees every item once, also when it *)
(* removes the item it is at and when items are appended meanwhile.        *)
EXTENDS Sequences, Integers

CONSTANTS ListHead, Item, WalkedHead

VARIABLES
    list,       \* the sequence of each head
    rest,       \* the items the walk has still to see
    walking

vars == <<list, rest, walking>>

In(n, h) == \E i \in DOMAIN list[h] : list[h][i] = n

Free(n) == \A h \in ListHead : ~In(n, h)

(* s, which holds n at most once, without n                                *)
Without(s, n) ==
    IF \A i \in DOMAIN s : s[i] # n THEN s
    ELSE LET at == CHOOSE i \in DOMAIN s : s[i] = n
         IN  [i \in 1 .. Len(s) - 1 |-> IF i < at THEN s[i] ELSE s[i + 1]]

Init == list = [h \in ListHead |-> <<>>] /\ rest = <<>> /\ walking = FALSE

PutFirst(h, n) ==
    /\ ~walking /\ Free(n)
    /\ list' = [list EXCEPT ![h] = <<n>> \o @]
    /\ UNCHANGED <<rest, walking>>

PutLast(h, n) ==
    /\ Free(n)
    /\ list' = [list EXCEPT ![h] = Append(@, n)]
    /\ rest' = IF walking /\ h = WalkedHead THEN Append(rest, n) ELSE rest
    /\ UNCHANGED walking

Remove(n) ==
    /\ ~walking
    /\ \E h \in ListHead : In(n, h) /\ list' = [list EXCEPT ![h] = Without(@, n)]
    /\ UNCHANGED <<rest, walking>>

Begin ==
    /\ ~walking
    /\ walking' = TRUE
    /\ rest' = list[WalkedHead]
    /\ UNCHANGED list

(* The walk comes to the next item and keeps it or removes it, an append   *)
(* coming between the two in a callback.                                   *)
See ==
    /\ walking /\ rest # <<>>
    /\ \E added \in {<<>>} \cup {<<n>> : n \in {m \in Item : Free(m)}} :
          /\ rest' = Tail(rest) \o added
          /\ \E kept \in {list[WalkedHead], Without(list[WalkedHead], rest[1])} :
                list' = [list EXCEPT ![WalkedHead] = kept \o added]
    /\ UNCHANGED walking

End ==
    /\ walking /\ rest = <<>>
    /\ walking' = FALSE
    /\ UNCHANGED <<list, rest>>

Next ==
    \/ Begin \/ See \/ End
    \/ \E n \in Item : Remove(n) \/ \E h \in ListHead : PutFirst(h, n) \/ PutLast(h, n)

Spec == Init /\ [][Next]_vars
=============================================================================
