----------------------------- MODULE ReadyQueue -----------------------------
(***************************************************************************)
(* The priority table of kernel/prio_sched.c as a data structure: one FIFO *)
(* of tasks per priority (task_prio_queue) and the two-level bitmap (y, c) *)
(* that says which of the FIFOs are not empty.  A ready table is a record  *)
(*     [queue |-> [Prio -> Seq(Task)], y |-> ..., c |-> ...]               *)
(* and every operation of the C file is an operator from tables to tables, *)
(* so that a kernel call that performs several of them inside one critical *)
(* section composes them in one action.                                    *)
(*                                                                         *)
(* A byte of the bitmap is the set of the positions of its one bits.       *)
(***************************************************************************)
EXTENDS Integers, Sequences

CONSTANTS
    Task,       \* the task control blocks
    NoTask,     \* what is read when an empty FIFO's head is taken for a TCB
    SystemWord, \* number of priorities (SYSTEM_WORD, 32 in the code)
    ByteBits    \* bits per byte of the bitmap (8 in the code)

ASSUME PrioAssumption ==
    /\ SystemWord \in Nat \ {0}
    /\ ByteBits \in Nat \ {0}
    /\ SystemWord <= ByteBits * ByteBits

ASSUME TaskAssumption == NoTask \notin Task

Prio == 0 .. SystemWord - 1       \* 0 is the highest priority
Byte == 0 .. ByteBits - 1

ReadyTable == [queue : [Prio -> Seq(Task)],
               y     : SUBSET Byte,
               c     : [Byte -> SUBSET Byte]]

-----------------------------------------------------------------------------
(* The bitmap                                                              *)

Group(p) == p \div ByteBits
Bit(p)   == p % ByteBits

BitmapSet(r, p) ==
    [r EXCEPT !.c[Group(p)] = @ \cup {Bit(p)},
              !.y = @ \cup {Group(p)}]

(* Faulty variant: the group keeps its bit when its byte becomes empty.    *)
BitmapClearByteOnly(r, p) == [r EXCEPT !.c[Group(p)] = @ \ {Bit(p)}]

BitmapClear(r, p) ==
    LET byte == r.c[Group(p)] \ {Bit(p)}
    IN  [r EXCEPT !.c[Group(p)] = byte,
                  !.y = IF byte = {} THEN @ \ {Group(p)} ELSE @]

(* Used by a faulty variant: the highest one bit.                          *)
HighestBit(byte) ==
    IF byte = {} THEN 0
    ELSE CHOOSE b \in byte : \A other \in byte : b >= other

(* The table bitmap[256]: position of the lowest one bit; bitmap[0] is 0.  *)
LowestBit(byte) ==
    IF byte = {} THEN 0
    ELSE CHOOSE b \in byte : \A other \in byte : b <= other

(* Faulty variant: the second level is searched from the other end.        *)
BitmapGetHighest(r) ==
    LET group == LowestBit(r.y)
    IN  group * ByteBits + HighestBit(r.c[group])

BitmapGet(r) ==
    LET group == LowestBit(r.y)
    IN  group * ByteBits + LowestBit(r.c[group])

-----------------------------------------------------------------------------
(* The FIFOs                                                               *)

(* s without its element number i                                          *)
DropAt(s, i) == [j \in 1 .. Len(s) - 1 |-> IF j < i THEN s[j] ELSE s[j + 1]]

(* list_delete on a FIFO or wait list that holds t                         *)
Unlink(s, t) == DropAt(s, CHOOSE i \in DOMAIN s : s[i] = t)

PushFront(s, t) == [j \in 1 .. Len(s) + 1 |-> IF j = 1 THEN t ELSE s[j - 1]]

InsertTail(r, p, t) ==
    [BitmapSet(r, p) EXCEPT !.queue[p] = Append(@, t)]

InsertHead(r, p, t) ==
    [BitmapSet(r, p) EXCEPT !.queue[p] = PushFront(@, t)]

Delete(r, p, t) ==
    LET unlinked == [r EXCEPT !.queue[p] = Unlink(@, t)]
    IN  IF unlinked.queue[p] = <<>> THEN BitmapClear(unlinked, p)
        ELSE unlinked

-----------------------------------------------------------------------------
(* The choice of the task to run                                           *)

(* When no bit is set, or a bit without a queued task, the C code returns  *)
(* the list head itself as if it were a TCB.                               *)
BitFirstOneSearch(r) ==
    LET fifo == r.queue[BitmapGet(r)]
    IN  IF fifo = <<>> THEN NoTask ELSE Head(fifo)

(* Faulty variants: the chosen task is unlinked and not put back; it keeps *)
(* its place.                                                              *)
RotateWithoutInsert(r) ==
    LET p == BitmapGet(r)
    IN  IF Len(r.queue[p]) > 1 THEN Delete(r, p, Head(r.queue[p])) ELSE r

NoRotation(r) == r

(* The chosen task goes behind the others of its priority.                 *)
Rotate(r) ==
    LET p    == BitmapGet(r)
        fifo == r.queue[p]
    IN  IF Len(fifo) > 1
        THEN InsertTail(Delete(r, p, Head(fifo)), p, Head(fifo))
        ELSE r

EmptyTable ==
    [queue |-> [p \in Prio |-> <<>>], y |-> {}, c |-> [b \in Byte |-> {}]]

Queued(r, p, t) == \E i \in DOMAIN r.queue[p] : r.queue[p][i] = t

Members(r) == {t \in Task : \E p \in Prio : Queued(r, p, t)}

(* The bitmap tells exactly the priorities that have a queued task.        *)
BitmapMatches(r) ==
    /\ \A p \in Prio : r.queue[p] # <<>> <=> Bit(p) \in r.c[Group(p)]
    /\ \A b \in Byte : r.c[b] # {} <=> b \in r.y
    /\ \A b \in Byte : \A a \in r.c[b] : b * ByteBits + a \in Prio

(* A task sits in the FIFO of its own priority and is there once.          *)
PlacedOnce(r, prio) ==
    \A p \in Prio : \A i, j \in DOMAIN r.queue[p] :
        /\ prio[r.queue[p][i]] = p
        /\ r.queue[p][i] = r.queue[p][j] => i = j

WellFormed(r, prio) ==
    r \in ReadyTable /\ BitmapMatches(r) /\ PlacedOnce(r, prio)
=============================================================================
