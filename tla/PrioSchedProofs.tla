--------------------------- MODULE PrioSchedProofs --------------------------
(***************************************************************************)
(* The scheduler core for any set of tasks, any number of priorities and   *)
(* any width of the bitmap: its tables stay consistent, no task is lost    *)
(* and every switch goes to a task of the highest ready priority.          *)
(***************************************************************************)
EXTENDS PrioSched, SequenceTheorems, WellFoundedInduction, TLAPS

-----------------------------------------------------------------------------
(* The ready table: lemmas about the operators of ReadyQueue.              *)

(* list_delete takes exactly t out of a FIFO that holds it once: the rest  *)
(* stays, in order and without repetition.                                 *)
LEMMA UnlinkProperties ==
    ASSUME NEW S, NEW s \in Seq(S), NEW t \in S,
           \E i \in DOMAIN s : s[i] = t,
           \A i, j \in DOMAIN s : s[i] = s[j] => i = j
    PROVE  /\ Unlink(s, t) \in Seq(S)
           /\ Len(Unlink(s, t)) = Len(s) - 1
           /\ \A u : (\E i \in DOMAIN Unlink(s, t) : Unlink(s, t)[i] = u)
                      <=> u # t /\ \E i \in DOMAIN s : s[i] = u
           /\ \A i, j \in DOMAIN Unlink(s, t) :
                  Unlink(s, t)[i] = Unlink(s, t)[j] => i = j
<1> DEFINE n == Len(s)
           k == CHOOSE i \in DOMAIN s : s[i] = t
           w == [j \in 1 .. n - 1 |-> IF j < k THEN s[j] ELSE s[j + 1]]
<1>1. n \in Nat /\ DOMAIN s = 1 .. n /\ \A i \in 1 .. n : s[i] \in S
  BY LenProperties
<1>2. k \in DOMAIN s /\ s[k] = t
  OBVIOUS
<1>3. Unlink(s, t) = w
  BY DEF Unlink, DropAt
<1>4. n \in Nat \ {0} /\ n - 1 \in Nat /\ k \in 1 .. n
  BY <1>1, <1>2
<1> HIDE DEF n, k
<1>5. w \in [1 .. n - 1 -> S]
  BY <1>1, <1>4
<1>6. w \in Seq(S) /\ Len(w) = n - 1 /\ DOMAIN w = 1 .. n - 1
  BY <1>4, <1>5, SeqDef, LenProperties
<1>7. \A u : (\E i \in 1 .. n - 1 : w[i] = u) => u # t /\ \E i \in DOMAIN s : s[i] = u
  BY <1>1, <1>2, <1>4
<1>8. ASSUME NEW u, u # t, NEW i \in DOMAIN s, s[i] = u
      PROVE  \E j \in 1 .. n - 1 : w[j] = u
  <2>1. CASE i < k
    BY <1>1, <1>4, <1>8, <2>1
  <2>2. CASE i > k
    <3>1. i - 1 \in 1 .. n - 1 /\ ~(i - 1 < k) /\ (i - 1) + 1 = i
      BY <1>1, <1>4, <2>2
    <3>2. w[i - 1] = s[i]
      BY <3>1
    <3> QED
      BY <1>8, <3>1, <3>2
  <2> QED
    BY <1>1, <1>2, <1>4, <1>8, <2>1, <2>2
<1>9. \A i, j \in 1 .. n - 1 : w[i] = w[j] => i = j
  BY <1>1, <1>2, <1>4
<1> HIDE DEF w
<1> QED
  BY <1>3, <1>6, <1>7, <1>8, <1>9 DEF n

(* list_insert_spec puts t first and keeps the rest of the FIFO.           *)
LEMMA PushFrontProperties ==
    ASSUME NEW S, NEW s \in Seq(S), NEW t \in S,
           \A i \in DOMAIN s : s[i] # t,
           \A i, j \in DOMAIN s : s[i] = s[j] => i = j
    PROVE  /\ PushFront(s, t) \in Seq(S)
           /\ Len(PushFront(s, t)) = Len(s) + 1
           /\ \A u : (\E i \in DOMAIN PushFront(s, t) : PushFront(s, t)[i] = u)
                      <=> u = t \/ \E i \in DOMAIN s : s[i] = u
           /\ \A i, j \in DOMAIN PushFront(s, t) :
                  PushFront(s, t)[i] = PushFront(s, t)[j] => i = j
<1> DEFINE n == Len(s)
           w == [j \in 1 .. n + 1 |-> IF j = 1 THEN t ELSE s[j - 1]]
<1>1. n \in Nat /\ DOMAIN s = 1 .. n /\ \A i \in 1 .. n : s[i] \in S
  BY LenProperties
<1>2. PushFront(s, t) = w
  BY DEF PushFront
<1> HIDE DEF n
<1>3. w \in [1 .. n + 1 -> S]
  BY <1>1
<1>4. w \in Seq(S) /\ Len(w) = n + 1 /\ DOMAIN w = 1 .. n + 1
  BY <1>1, <1>3, SeqDef, LenProperties
<1>5. \A u : (\E i \in 1 .. n + 1 : w[i] = u) => u = t \/ \E i \in DOMAIN s : s[i] = u
  BY <1>1
<1>6. ASSUME NEW i \in DOMAIN s
      PROVE  i + 1 \in 1 .. n + 1 /\ w[i + 1] = s[i]
  BY <1>1
<1>7. 1 \in 1 .. n + 1 /\ w[1] = t
  BY <1>1
<1>8. \A i, j \in 1 .. n + 1 : w[i] = w[j] => i = j
  BY <1>1
<1> HIDE DEF w
<1>9. ASSUME NEW u
      PROVE  (\E i \in DOMAIN w : w[i] = u) <=> u = t \/ \E i \in DOMAIN s : s[i] = u
  <2>1. u = t => \E i \in DOMAIN w : w[i] = u
    BY <1>4, <1>7
  <2>2. (\E i \in DOMAIN s : s[i] = u) => \E i \in DOMAIN w : w[i] = u
    BY <1>4, <1>6
  <2> QED
    BY <1>4, <1>5, <2>1, <2>2
<1> QED
  BY <1>2, <1>4, <1>8, <1>9 DEF n

(* list_insert_behind puts a new t last and keeps the FIFO without         *)
(* repetition.                                                             *)
LEMMA AppendDistinct ==
    ASSUME NEW S, NEW s \in Seq(S), NEW t \in S,
           \A i \in DOMAIN s : s[i] # t,
           \A i, j \in DOMAIN s : s[i] = s[j] => i = j
    PROVE  /\ Append(s, t) \in Seq(S)
           /\ Len(Append(s, t)) = Len(s) + 1
           /\ \A u : (\E i \in DOMAIN Append(s, t) : Append(s, t)[i] = u)
                      <=> u = t \/ \E i \in DOMAIN s : s[i] = u
           /\ \A i, j \in DOMAIN Append(s, t) :
                  Append(s, t)[i] = Append(s, t)[j] => i = j
<1> DEFINE n == Len(s)
           w == Append(s, t)
<1>1. n \in Nat /\ DOMAIN s = 1 .. n
  BY LenProperties
<1>2. /\ w \in Seq(S) /\ Len(w) = n + 1 /\ DOMAIN w = 1 .. n + 1
      /\ \A i \in 1 .. n : w[i] = s[i]
      /\ w[n + 1] = t
  BY AppendProperties, LenProperties
<1> HIDE DEF n, w
<1>3. \A u : (\E i \in 1 .. n + 1 : w[i] = u) => u = t \/ \E i \in DOMAIN s : s[i] = u
  BY <1>1, <1>2
<1>4. n + 1 \in 1 .. n + 1 /\ \A i \in 1 .. n : i \in 1 .. n + 1
  BY <1>1
<1>5. \A i, j \in 1 .. n + 1 : w[i] = w[j] => i = j
  BY <1>1, <1>2
<1> QED
  BY <1>1, <1>2, <1>3, <1>4, <1>5 DEF n, w

(* list_delete of the first entry (sem_block_queue_delete and its kin):    *)
(* the others stay.                                                        *)
LEMMA TailDistinct ==
    ASSUME NEW S, NEW s \in Seq(S), s # <<>>,
           \A i, j \in DOMAIN s : s[i] = s[j] => i = j
    PROVE  /\ Head(s) \in S /\ Tail(s) \in Seq(S)
           /\ \E i \in DOMAIN s : s[i] = Head(s)
           /\ \A u : (\E i \in DOMAIN Tail(s) : Tail(s)[i] = u)
                      <=> u # Head(s) /\ \E i \in DOMAIN s : s[i] = u
           /\ \A i, j \in DOMAIN Tail(s) : Tail(s)[i] = Tail(s)[j] => i = j
<1> DEFINE n == Len(s)
           w == Tail(s)
<1>1. n \in Nat /\ n # 0 /\ DOMAIN s = 1 .. n /\ Head(s) = s[1] /\ Head(s) \in S
  BY LenProperties, EmptySeq, HeadTailProperties
<1>2. /\ w \in Seq(S) /\ DOMAIN w = 1 .. n - 1
      /\ \A i \in 1 .. n - 1 : w[i] = s[i + 1]
  BY <1>1, HeadTailProperties, LenProperties
<1>3. \A i, j \in 1 .. n : s[i] = s[j] => i = j
  BY <1>1
<1>4. ASSUME NEW u
      PROVE  (\E i \in 1 .. n - 1 : w[i] = u)
                <=> u # s[1] /\ \E i \in 1 .. n : s[i] = u
  <2>1. ASSUME NEW i \in 1 .. n - 1, w[i] = u
        PROVE  u # s[1] /\ s[i + 1] = u /\ i + 1 \in 1 .. n
    BY <1>1, <1>2, <1>3, <2>1
  <2>2. ASSUME NEW i \in 1 .. n, s[i] = u, u # s[1]
        PROVE  i - 1 \in 1 .. n - 1 /\ w[i - 1] = u
    BY <1>1, <1>2, <2>2
  <2> QED
    BY <2>1, <2>2
<1>5. ASSUME NEW i \in 1 .. n - 1, NEW j \in 1 .. n - 1, w[i] = w[j]
      PROVE  i = j
  BY <1>1, <1>2, <1>3, <1>5
<1>6. \E i \in DOMAIN s : s[i] = Head(s)
  BY <1>1
<1>7. DOMAIN Tail(s) = 1 .. n - 1 /\ Tail(s) \in Seq(S)
  BY <1>2
<1> HIDE DEF n
<1> QED
  BY <1>1, <1>4, <1>5, <1>6, <1>7

-----------------------------------------------------------------------------
(* The same of a list as the kernel objects' invariants speak of it.       *)
InList(s, u) == \E i \in DOMAIN s : s[i] = u

Distinct(s) == \A i, j \in DOMAIN s : s[i] = s[j] => i = j

(* list_insert_behind of a new entry.                                      *)
LEMMA AppendedList ==
    ASSUME NEW S, NEW s \in Seq(S), NEW t \in S, Distinct(s), ~InList(s, t)
    PROVE  /\ Append(s, t) \in Seq(S) /\ Append(s, t) # <<>>
           /\ Len(Append(s, t)) = Len(s) + 1 /\ Distinct(Append(s, t))
           /\ \A u : InList(Append(s, t), u) <=> u = t \/ InList(s, u)
<1>1. /\ \A i \in DOMAIN s : s[i] # t
      /\ \A i, j \in DOMAIN s : s[i] = s[j] => i = j
  BY DEF InList, Distinct
<1>2. /\ Append(s, t) \in Seq(S) /\ Len(Append(s, t)) = Len(s) + 1
      /\ Distinct(Append(s, t))
      /\ \A u : InList(Append(s, t), u) <=> u = t \/ InList(s, u)
  BY <1>1, AppendDistinct DEF InList, Distinct
<1>3. Append(s, t) # <<>>
  BY <1>2, LenProperties, EmptySeq
<1> QED
  BY <1>2, <1>3

(* list_insert_spec of a new entry.                                        *)
LEMMA PushedList ==
    ASSUME NEW S, NEW s \in Seq(S), NEW t \in S, Distinct(s), ~InList(s, t)
    PROVE  /\ PushFront(s, t) \in Seq(S)
           /\ Len(PushFront(s, t)) = Len(s) + 1 /\ Distinct(PushFront(s, t))
           /\ \A u : InList(PushFront(s, t), u) <=> u = t \/ InList(s, u)
<1>1. /\ \A i \in DOMAIN s : s[i] # t
      /\ \A i, j \in DOMAIN s : s[i] = s[j] => i = j
  BY DEF InList, Distinct
<1> QED
  BY <1>1, PushFrontProperties DEF InList, Distinct

(* list_delete of the first entry.                                         *)
LEMMA TailList ==
    ASSUME NEW S, NEW s \in Seq(S), Distinct(s), s # <<>>
    PROVE  /\ Head(s) \in S /\ InList(s, Head(s))
           /\ Tail(s) \in Seq(S) /\ Len(Tail(s)) = Len(s) - 1 /\ Distinct(Tail(s))
           /\ \A u : InList(Tail(s), u) <=> u # Head(s) /\ InList(s, u)
BY TailDistinct, HeadTailProperties DEF InList, Distinct

-----------------------------------------------------------------------------
(* The byte and the bit that bitmap_set and bitmap_clear compute from a    *)
(* priority are positions of the bitmap, and the priority is what          *)
(* bitmap_get computes from them.                                          *)
LEMMA BitAddress ==
    ASSUME NEW p \in Prio
    PROVE  /\ Group(p) \in Byte
           /\ Bit(p) \in Byte
           /\ p = Group(p) * ByteBits + Bit(p)
BY PrioAssumption DEF Prio, Byte, Group, Bit

(* Different priorities have different bits in bitmap_set and              *)
(* bitmap_clear.                                                           *)
LEMMA BitAddressInjective ==
    ASSUME NEW p \in Prio, NEW b \in Byte, NEW a \in Byte,
           p = b * ByteBits + a
    PROVE  Group(p) = b /\ Bit(p) = a
BY PrioAssumption DEF Prio, Byte, Group, Bit

-----------------------------------------------------------------------------
(* The table in which the FIFO of p is s, which is not empty.              *)
WithFifo(r, p, s) == [BitmapSet(r, p) EXCEPT !.queue[p] = s]

(* s holds t and what fifo holds, each once.                               *)
Extended(s, fifo, t) ==
    /\ s \in Seq(Task)
    /\ Len(s) = Len(fifo) + 1
    /\ \A u : (\E i \in DOMAIN s : s[i] = u)
              <=> u = t \/ \E i \in DOMAIN fifo : fifo[i] = u
    /\ \A i, j \in DOMAIN s : s[i] = s[j] => i = j

(* bitmap_set with list_insert_spec or list_insert_behind: a FIFO that got *)
(* t, at either end, and has its bit set.                                  *)
LEMMA InsertPreserves ==
    ASSUME NEW r, NEW pr \in [Task -> Prio], WellFormed(r, pr),
           NEW t \in Task, t \notin Members(r),
           NEW s, Extended(s, r.queue[pr[t]], t)
    PROVE  /\ WellFormed(WithFifo(r, pr[t], s), pr)
           /\ Members(WithFifo(r, pr[t], s)) = Members(r) \cup {t}
<1> DEFINE p == pr[t]
           new == WithFifo(r, p, s)
<1>0. /\ s \in Seq(Task)
      /\ Len(s) = Len(r.queue[p]) + 1
      /\ \A u : (\E i \in DOMAIN s : s[i] = u) <=> u = t \/ Queued(r, p, u)
      /\ \A i, j \in DOMAIN s : s[i] = s[j] => i = j
  BY DEF Extended, Queued
<1>1. p \in Prio /\ Group(p) \in Byte /\ Bit(p) \in Byte
      /\ p = Group(p) * ByteBits + Bit(p)
  BY BitAddress
<1>2. r \in ReadyTable /\ BitmapMatches(r) /\ PlacedOnce(r, pr)
  BY DEF WellFormed
<1>3. /\ new.queue = [r.queue EXCEPT ![p] = s]
      /\ new.y = r.y \cup {Group(p)}
      /\ new.c = [r.c EXCEPT ![Group(p)] = @ \cup {Bit(p)}]
      /\ new \in ReadyTable
  <2> DEFINE marked == BitmapSet(r, p)
  <2>1. /\ marked.queue = r.queue /\ marked.y = r.y \cup {Group(p)}
        /\ marked.c = [r.c EXCEPT ![Group(p)] = @ \cup {Bit(p)}]
        /\ marked \in ReadyTable
    BY <1>1, <1>2 DEF BitmapSet, ReadyTable
  <2>2. new = [marked EXCEPT !.queue[p] = s]
    BY DEF WithFifo
  <2> HIDE DEF marked, new, p
  <2> QED
    BY <1>0, <1>1, <2>1, <2>2 DEF ReadyTable
<1>4. s # <<>>
  BY <1>0, <1>1, <1>2, LenProperties, EmptySeq DEF ReadyTable
<1> HIDE DEF new, p
<1>5. BitmapMatches(new)
  <2>1. ASSUME NEW q \in Prio
        PROVE  new.queue[q] # <<>> <=> Bit(q) \in new.c[Group(q)]
    BY <1>1, <1>2, <1>3, <1>4, BitAddress DEF BitmapMatches, ReadyTable
  <2>2. \A b \in Byte : new.c[b] # {} <=> b \in new.y
    BY <1>1, <1>2, <1>3 DEF BitmapMatches, ReadyTable
  <2>3. \A b \in Byte : \A a \in new.c[b] : b * ByteBits + a \in Prio
    BY <1>1, <1>2, <1>3 DEF BitmapMatches, ReadyTable
  <2> QED
    BY <2>1, <2>2, <2>3 DEF BitmapMatches
<1>6. ASSUME NEW q \in Prio, NEW u
      PROVE  Queued(new, q, u) <=> Queued(r, q, u) \/ (q = p /\ u = t)
  <2>1. CASE q = p
    <3>1. new.queue[q] = s
      BY <1>1, <1>2, <1>3, <2>1 DEF ReadyTable
    <3>2. Queued(new, q, u) <=> \E i \in DOMAIN s : s[i] = u
      BY <3>1 DEF Queued
    <3> QED
      BY <1>0, <2>1, <3>2
  <2>2. CASE q # p
    <3>1. new.queue[q] = r.queue[q]
      BY <1>1, <1>2, <1>3, <2>2 DEF ReadyTable
    <3> QED
      BY <2>2, <3>1 DEF Queued
  <2> QED
    BY <2>1, <2>2
<1>7. Members(new) = Members(r) \cup {t}
  BY <1>1, <1>6 DEF Members
<1>8. PlacedOnce(new, pr)
  <2>1. ASSUME NEW q \in Prio, NEW i \in DOMAIN new.queue[q],
               NEW j \in DOMAIN new.queue[q]
        PROVE  /\ pr[new.queue[q][i]] = q
               /\ new.queue[q][i] = new.queue[q][j] => i = j
    <3>1. CASE q # p
      BY <1>2, <1>3, <2>1, <3>1 DEF PlacedOnce, ReadyTable
    <3>2. CASE q = p
      <4>1. new.queue[q] = s
        BY <1>1, <1>2, <1>3, <3>2 DEF ReadyTable
      <4>2. s[i] = t \/ Queued(r, p, s[i])
        BY <1>0, <4>1, <2>1
      <4>3. pr[s[i]] = p
        BY <1>1, <1>2, <4>2 DEF Queued, PlacedOnce, p
      <4> QED
        BY <1>0, <2>1, <3>2, <4>1, <4>3
    <3> QED
      BY <3>1, <3>2
  <2> QED
    BY <2>1 DEF PlacedOnce
<1> QED
  BY <1>3, <1>5, <1>7, <1>8 DEF WellFormed, new, p

(* prio_ready_queue_insert_tail of a task that is in no FIFO keeps the     *)
(* table well formed and adds that task only.                              *)
LEMMA InsertTailPreserves ==
    ASSUME NEW r, NEW pr \in [Task -> Prio], WellFormed(r, pr),
           NEW t \in Task, t \notin Members(r)
    PROVE  /\ WellFormed(InsertTail(r, pr[t], t), pr)
           /\ Members(InsertTail(r, pr[t], t)) = Members(r) \cup {t}
<1> DEFINE p == pr[t]
           fifo == r.queue[p]
           w == Append(fifo, t)
<1>1. p \in Prio /\ fifo \in Seq(Task) /\ r \in ReadyTable
  BY DEF WellFormed, ReadyTable
<1>2. \A i \in DOMAIN fifo : fifo[i] # t
  BY <1>1 DEF Members, Queued
<1>3. \A i, j \in DOMAIN fifo : fifo[i] = fifo[j] => i = j
  BY <1>1 DEF WellFormed, PlacedOnce
<1>4. InsertTail(r, p, t) = WithFifo(r, p, w)
  BY <1>1 DEF WithFifo, InsertTail, BitmapSet, ReadyTable
<1>5. Extended(w, fifo, t)
  <2> HIDE DEF fifo
  <2> QED
    BY <1>1, <1>2, <1>3, AppendDistinct DEF Extended
<1> HIDE DEF w
<1>6. /\ WellFormed(WithFifo(r, p, w), pr)
      /\ Members(WithFifo(r, p, w)) = Members(r) \cup {t}
  BY <1>5, InsertPreserves
<1> QED
  BY <1>4, <1>6

(* The same of prio_ready_queue_insert_head.                               *)
LEMMA InsertHeadPreserves ==
    ASSUME NEW r, NEW pr \in [Task -> Prio], WellFormed(r, pr),
           NEW t \in Task, t \notin Members(r)
    PROVE  /\ WellFormed(InsertHead(r, pr[t], t), pr)
           /\ Members(InsertHead(r, pr[t], t)) = Members(r) \cup {t}
<1> DEFINE p == pr[t]
           fifo == r.queue[p]
           w == PushFront(fifo, t)
<1>1. p \in Prio /\ fifo \in Seq(Task) /\ r \in ReadyTable
  BY DEF WellFormed, ReadyTable
<1>2. \A i \in DOMAIN fifo : fifo[i] # t
  BY <1>1 DEF Members, Queued
<1>3. \A i, j \in DOMAIN fifo : fifo[i] = fifo[j] => i = j
  BY <1>1 DEF WellFormed, PlacedOnce
<1>4. InsertHead(r, p, t) = WithFifo(r, p, w)
  BY <1>1 DEF WithFifo, InsertHead, BitmapSet, ReadyTable
<1>5. Extended(w, fifo, t)
  <2> HIDE DEF fifo
  <2> QED
    BY <1>1, <1>2, <1>3, PushFrontProperties DEF Extended
<1> HIDE DEF w
<1>6. /\ WellFormed(WithFifo(r, p, w), pr)
      /\ Members(WithFifo(r, p, w)) = Members(r) \cup {t}
  BY <1>5, InsertPreserves
<1> QED
  BY <1>4, <1>6

-----------------------------------------------------------------------------
(* prio_ready_queue_delete of a queued task keeps the table well formed,   *)
(* also when the FIFO becomes empty, and removes that task only.           *)
LEMMA DeletePreserves ==
    ASSUME NEW r, NEW pr \in [Task -> Prio], WellFormed(r, pr),
           NEW t \in Task, t \in Members(r)
    PROVE  /\ WellFormed(Delete(r, pr[t], t), pr)
           /\ Members(Delete(r, pr[t], t)) = Members(r) \ {t}
<1> DEFINE p == pr[t]
           fifo == r.queue[p]
           s == Unlink(fifo, t)
           new == Delete(r, p, t)
<1>1. p \in Prio /\ Group(p) \in Byte /\ Bit(p) \in Byte
      /\ p = Group(p) * ByteBits + Bit(p)
  BY BitAddress
<1>2. r \in ReadyTable /\ BitmapMatches(r) /\ PlacedOnce(r, pr)
  BY DEF WellFormed
<1>3. fifo \in Seq(Task) /\ Queued(r, p, t)
  BY <1>1, <1>2 DEF ReadyTable, Members, Queued, PlacedOnce
<1>4. \A i, j \in DOMAIN fifo : fifo[i] = fifo[j] => i = j
  BY <1>1, <1>2 DEF PlacedOnce
<1>5. /\ s \in Seq(Task)
      /\ \A u : (\E i \in DOMAIN s : s[i] = u)
                 <=> u # t /\ \E i \in DOMAIN fifo : fifo[i] = u
      /\ \A i, j \in DOMAIN s : s[i] = s[j] => i = j
  <2>1. \E i \in DOMAIN fifo : fifo[i] = t
    BY <1>3 DEF Queued
  <2> HIDE DEF fifo
  <2> QED
    BY <1>3, <1>4, <2>1, UnlinkProperties
<1>6. \A u : (\E i \in DOMAIN s : s[i] = u) <=> u # t /\ Queued(r, p, u)
  BY <1>5 DEF Queued
<1>7. /\ new.queue = [r.queue EXCEPT ![p] = s]
      /\ s # <<>> => new.y = r.y /\ new.c = r.c
      /\ s = <<>> => /\ new.c = [r.c EXCEPT ![Group(p)] = @ \ {Bit(p)}]
                     /\ new.y = IF r.c[Group(p)] \ {Bit(p)} = {}
                                THEN r.y \ {Group(p)} ELSE r.y
      /\ new \in ReadyTable
  <2>1. DEFINE without == [r EXCEPT !.queue[p] = Unlink(@, t)]
  <2>2. /\ without.queue = [r.queue EXCEPT ![p] = s]
        /\ without.y = r.y /\ without.c = r.c /\ without \in ReadyTable
        /\ without.queue[p] = s
    BY <1>1, <1>2, <1>5 DEF ReadyTable
  <2>3. new = IF s = <<>> THEN BitmapClear(without, p) ELSE without
    BY <2>2 DEF Delete
  <2> HIDE DEF without, s, new
  <2>4. CASE s = <<>>
    BY <1>1, <2>2, <2>3, <2>4 DEF BitmapClear, ReadyTable
  <2>5. CASE s # <<>>
    BY <2>2, <2>3, <2>5
  <2> QED
    BY <2>4, <2>5
<1> HIDE DEF new, p, s
<1>8. \A q \in Prio : new.queue[q] = IF q = p THEN s ELSE r.queue[q]
  BY <1>1, <1>2, <1>7 DEF ReadyTable
<1>9. BitmapMatches(new)
  <2>1. ASSUME NEW q \in Prio
        PROVE  new.queue[q] # <<>> <=> Bit(q) \in new.c[Group(q)]
    <3>1. r.queue[q] # <<>> <=> Bit(q) \in r.c[Group(q)]
      BY <1>2 DEF BitmapMatches
    <3>2. fifo # <<>>
      BY <1>3, EmptySeq, LenProperties DEF Queued
    <3>3. CASE s # <<>>
      BY <1>1, <1>7, <1>8, <3>1, <3>2, <3>3 DEF p
    <3>4. CASE s = <<>> /\ q = p
      BY <1>1, <1>2, <1>7, <1>8, <3>4 DEF ReadyTable
    <3>5. CASE s = <<>> /\ q # p
      <4>1. Group(q) \in Byte /\ (Group(q) # Group(p) \/ Bit(q) # Bit(p))
        BY <1>1, <3>5, BitAddress
      <4>2. Bit(q) \in new.c[Group(q)] <=> Bit(q) \in r.c[Group(q)]
        BY <1>1, <1>2, <1>7, <3>5, <4>1 DEF ReadyTable
      <4> QED
        BY <1>8, <3>1, <3>5, <4>2
    <3> QED
      BY <3>3, <3>4, <3>5
  <2>2. \A b \in Byte : new.c[b] # {} <=> b \in new.y
    <3>1. \A b \in Byte : r.c[b] # {} <=> b \in r.y
      BY <1>2 DEF BitmapMatches
    <3>2. CASE s # <<>>
      BY <1>7, <3>1, <3>2
    <3>3. CASE s = <<>>
      <4>1. \A b \in Byte : new.c[b] = IF b = Group(p) THEN r.c[b] \ {Bit(p)}
                                       ELSE r.c[b]
        <5>1. new.c = [r.c EXCEPT ![Group(p)] = @ \ {Bit(p)}]
          BY <1>7, <3>3
        <5>2. r.c \in [Byte -> SUBSET Byte]
          BY <1>2 DEF ReadyTable
        <5> QED
          BY <5>1, <5>2
      <4>2. new.y = IF r.c[Group(p)] \ {Bit(p)} = {} THEN r.y \ {Group(p)} ELSE r.y
        BY <1>7, <3>3
      <4> QED
        BY <1>1, <3>1, <4>1, <4>2
    <3> QED
      BY <3>2, <3>3
  <2>3. \A b \in Byte : \A a \in new.c[b] : b * ByteBits + a \in Prio
    <3>1. \A b \in Byte : \A a \in r.c[b] : b * ByteBits + a \in Prio
      BY <1>2 DEF BitmapMatches
    <3>2. CASE s # <<>>
      BY <1>7, <3>1, <3>2
    <3>3. CASE s = <<>>
      <4>1. new.c = [r.c EXCEPT ![Group(p)] = @ \ {Bit(p)}]
        BY <1>7, <3>3
      <4>2. r.c \in [Byte -> SUBSET Byte]
        BY <1>2 DEF ReadyTable
      <4>3. \A b \in Byte : new.c[b] \subseteq r.c[b]
        BY <4>1, <4>2
      <4> QED
        BY <3>1, <4>3
    <3> QED
      BY <3>2, <3>3
  <2> QED
    BY <2>1, <2>2, <2>3 DEF BitmapMatches
<1>10. ASSUME NEW q \in Prio, NEW u
       PROVE  Queued(new, q, u) <=> Queued(r, q, u) /\ ~(q = p /\ u = t)
  <2>1. CASE q = p
    <3>1. Queued(new, q, u) <=> \E i \in DOMAIN s : s[i] = u
      BY <1>8, <2>1 DEF Queued
    <3> QED
      BY <1>6, <2>1, <3>1
  <2>2. CASE q # p
    BY <1>8, <2>2 DEF Queued
  <2> QED
    BY <2>1, <2>2
<1>11. \A q \in Prio : Queued(r, q, t) => q = p
  BY <1>2 DEF PlacedOnce, Queued, p
<1>12. Members(new) = Members(r) \ {t}
  BY <1>1, <1>10, <1>11 DEF Members
<1>13. PlacedOnce(new, pr)
  <2>1. ASSUME NEW q \in Prio, NEW i \in DOMAIN new.queue[q],
               NEW j \in DOMAIN new.queue[q]
        PROVE  /\ pr[new.queue[q][i]] = q
               /\ new.queue[q][i] = new.queue[q][j] => i = j
    <3>1. CASE q # p
      BY <1>2, <1>8, <2>1, <3>1 DEF PlacedOnce
    <3>2. CASE q = p
      <4>1. new.queue[q] = s
        BY <1>8, <3>2
      <4>2. Queued(r, p, s[i])
        BY <1>6, <4>1, <2>1
      <4>3. pr[s[i]] = p
        BY <1>1, <1>2, <4>2 DEF Queued, PlacedOnce
      <4> QED
        BY <1>5, <2>1, <3>2, <4>1, <4>3
    <3> QED
      BY <3>1, <3>2
  <2> QED
    BY <2>1 DEF PlacedOnce
<1> QED
  BY <1>7, <1>9, <1>12, <1>13 DEF WellFormed, new, p

(* The priority of a task that is in no FIFO may change (mutex_get,        *)
(* mutex_put).                                                             *)
LEMMA ChangePrioPreserves ==
    ASSUME NEW r, NEW pr \in [Task -> Prio], WellFormed(r, pr),
           NEW t \in Task, t \notin Members(r), NEW p \in Prio
    PROVE  WellFormed(r, [pr EXCEPT ![t] = p])
<1>1. ASSUME NEW q \in Prio, NEW i \in DOMAIN r.queue[q]
      PROVE  r.queue[q][i] \in Task /\ r.queue[q][i] # t
  <2>1. r.queue[q] \in Seq(Task)
    BY DEF WellFormed, ReadyTable
  <2> QED
    BY <2>1, <1>1, LenProperties DEF Members, Queued
<1> QED
  BY <1>1 DEF WellFormed, PlacedOnce

(* A queued task moves to the head of the FIFO of another priority         *)
(* (mutex_get, mutex_put).                                                 *)
LEMMA RequeuePreserves ==
    ASSUME NEW r, NEW pr \in [Task -> Prio], WellFormed(r, pr),
           NEW t \in Task, t \in Members(r), NEW p \in Prio
    PROVE  /\ WellFormed(InsertHead(Delete(r, pr[t], t), p, t), [pr EXCEPT ![t] = p])
           /\ Members(InsertHead(Delete(r, pr[t], t), p, t)) = Members(r)
<1> DEFINE d == Delete(r, pr[t], t)
           q == [pr EXCEPT ![t] = p]
<1>1. WellFormed(d, pr) /\ Members(d) = Members(r) \ {t}
  BY DeletePreserves
<1> HIDE DEF d
<1>2. WellFormed(d, q) /\ q \in [Task -> Prio] /\ q[t] = p /\ t \notin Members(d)
  BY <1>1, ChangePrioPreserves
<1> HIDE DEF q
<1>3. /\ WellFormed(InsertHead(d, q[t], t), q)
      /\ Members(InsertHead(d, q[t], t)) = Members(d) \cup {t}
  BY <1>2, InsertHeadPreserves
<1> QED
  BY <1>1, <1>2, <1>3 DEF d, q

-----------------------------------------------------------------------------
(* A set of bit positions that is not empty has a lowest one, the entry of *)
(* the table bitmap[256].                                                  *)
LEMMA SmallestExists ==
    ASSUME NEW S \in SUBSET Nat, S # {}
    PROVE  \E x \in S : \A y \in S : x <= y
<1> DEFINE R == OpToRel(<, Nat)
<1>1. IsWellFoundedOn(R, Nat)
  BY NatLessThanWellFounded
<1>2. \A x, y \in Nat : y < x => <<y, x>> \in R
  BY DEF OpToRel
<1> HIDE DEF R
<1>3. PICK x \in S : \A y \in S : ~(<<y, x>> \in R)
  BY <1>1, WFMin
<1>4. \A y \in S : ~(y < x)
  BY <1>2, <1>3
<1> QED
  BY <1>3, <1>4

(* The table bitmap[256] returns a one bit of a byte that is not zero, and *)
(* none below it is one.                                                   *)
LEMMA LowestBitIsLowest ==
    ASSUME NEW byte \in SUBSET Byte, byte # {}
    PROVE  LowestBit(byte) \in byte /\ \A b \in byte : LowestBit(byte) <= b
<1>1. byte \in SUBSET Nat
  BY PrioAssumption DEF Byte
<1>2. \E x \in byte : \A y \in byte : x <= y
  BY <1>1, SmallestExists
<1> QED
  BY <1>2 DEF LowestBit

(* The bitmap search finds the first of the FIFOs that are not empty.      *)
LEMMA BitmapGetIsFirst ==
    ASSUME NEW r \in ReadyTable, BitmapMatches(r),
           NEW q \in Prio, r.queue[q] # <<>>
    PROVE  /\ BitmapGet(r) \in Prio
           /\ r.queue[BitmapGet(r)] # <<>>
           /\ BitmapGet(r) <= q
<1> DEFINE b == LowestBit(r.y)
           a == LowestBit(r.c[b])
<1>1. Group(q) \in Byte /\ Bit(q) \in Byte /\ q = Group(q) * ByteBits + Bit(q)
  BY BitAddress
<1>2. Bit(q) \in r.c[Group(q)] /\ Group(q) \in r.y
  BY <1>1 DEF BitmapMatches
<1>3. b \in r.y /\ b \in Byte /\ b <= Group(q)
  BY <1>2, LowestBitIsLowest DEF ReadyTable
<1>4. r.c[b] # {} /\ r.c[b] \in SUBSET Byte
  BY <1>3 DEF BitmapMatches, ReadyTable
<1>5. a \in r.c[b] /\ a \in Byte /\ \A x \in r.c[b] : a <= x
  BY <1>4, LowestBitIsLowest
<1>6. BitmapGet(r) = b * ByteBits + a
  BY DEF BitmapGet
<1> HIDE DEF a, b
<1>7. BitmapGet(r) \in Prio
  BY <1>3, <1>5, <1>6 DEF BitmapMatches
<1>8. Group(BitmapGet(r)) = b /\ Bit(BitmapGet(r)) = a
  BY <1>3, <1>5, <1>6, <1>7, BitAddressInjective
<1>9. r.queue[BitmapGet(r)] # <<>>
  BY <1>5, <1>7, <1>8 DEF BitmapMatches
<1>10. BitmapGet(r) <= q
  <2>1. CASE b = Group(q)
    <3>1. a <= Bit(q)
      BY <1>2, <1>5, <2>1
    <3> QED
      BY <1>1, <1>3, <1>5, <1>6, <2>1, <3>1, PrioAssumption DEF Byte
  <2>2. CASE b < Group(q)
    <3>1. b * ByteBits + ByteBits <= Group(q) * ByteBits
      <4>1. b + 1 <= Group(q)
        BY <1>1, <1>3, <2>2 DEF Byte
      <4>2. (b + 1) * ByteBits <= Group(q) * ByteBits
        BY <1>1, <1>3, <4>1, PrioAssumption DEF Byte
      <4> QED
        BY <1>1, <1>3, <4>2, PrioAssumption DEF Byte
    <3>2. a < ByteBits
      BY <1>5, PrioAssumption DEF Byte
    <3> QED
      BY <1>1, <1>3, <1>5, <1>6, <3>1, <3>2, PrioAssumption DEF Byte
  <2> QED
    BY <1>1, <1>3, <2>1, <2>2 DEF Byte
<1> QED
  BY <1>7, <1>9, <1>10

(* bit_first_one_search returns a queued task of the highest priority.     *)
LEMMA SearchFindsHighest ==
    ASSUME NEW r, NEW pr \in [Task -> Prio], WellFormed(r, pr),
           Members(r) # {}
    PROVE  /\ BitFirstOneSearch(r) \in Members(r)
           /\ BitmapGet(r) = pr[BitFirstOneSearch(r)]
           /\ BitFirstOneSearch(r) = Head(r.queue[BitmapGet(r)])
           /\ \A t \in Members(r) : pr[BitFirstOneSearch(r)] <= pr[t]
<1> DEFINE p == BitmapGet(r)
           fifo == r.queue[p]
<1>1. r \in ReadyTable /\ BitmapMatches(r) /\ PlacedOnce(r, pr)
  BY DEF WellFormed
<1>2. \A t \in Members(r) : r.queue[pr[t]] # <<>> /\ pr[t] \in Prio
  <2>1. ASSUME NEW t \in Members(r)
        PROVE  r.queue[pr[t]] # <<>>
    <3>1. PICK q \in Prio : Queued(r, q, t)
      BY DEF Members
    <3>2. pr[t] = q
      BY <1>1, <3>1 DEF Queued, PlacedOnce
    <3> QED
      BY <3>1, <3>2 DEF Queued
  <2> QED
    BY <2>1 DEF Members
<1>3. p \in Prio /\ fifo # <<>> /\ \A t \in Members(r) : p <= pr[t]
  BY <1>1, <1>2, BitmapGetIsFirst
<1>4. fifo \in Seq(Task)
  BY <1>1, <1>3 DEF ReadyTable
<1>5. 1 \in DOMAIN fifo /\ Head(fifo) = fifo[1] /\ Head(fifo) \in Task
  BY <1>3, <1>4, LenProperties, EmptySeq
<1>6. BitFirstOneSearch(r) = Head(fifo)
  BY <1>3 DEF BitFirstOneSearch
<1>7. Queued(r, p, Head(fifo)) /\ pr[Head(fifo)] = p
  BY <1>1, <1>3, <1>5 DEF Queued, PlacedOnce
<1> QED
  BY <1>3, <1>5, <1>6, <1>7 DEF Members

(* The rotation of prio_ready_queue_fetch keeps the table well formed and  *)
(* loses or adds no task.                                                  *)
LEMMA RotatePreserves ==
    ASSUME NEW r, NEW pr \in [Task -> Prio], WellFormed(r, pr),
           Members(r) # {}
    PROVE  WellFormed(Rotate(r), pr) /\ Members(Rotate(r)) = Members(r)
<1> DEFINE t == BitFirstOneSearch(r)
           d == Delete(r, pr[t], t)
<1>1. /\ t \in Members(r) /\ t \in Task /\ BitmapGet(r) = pr[t]
      /\ t = Head(r.queue[pr[t]])
  BY SearchFindsHighest DEF Members
<1>2. Rotate(r) = r \/ Rotate(r) = InsertTail(d, pr[t], t)
  BY <1>1 DEF Rotate
<1> HIDE DEF t
<1>3. WellFormed(d, pr) /\ Members(d) = Members(r) \ {t}
  BY <1>1, DeletePreserves
<1> HIDE DEF d
<1>4. /\ WellFormed(InsertTail(d, pr[t], t), pr)
      /\ Members(InsertTail(d, pr[t], t)) = Members(d) \cup {t}
  BY <1>1, <1>3, InsertTailPreserves
<1> QED
  BY <1>1, <1>2, <1>3, <1>4

(* The table that prio_ready_queue_init leaves is well formed and empty.   *)
LEMMA EmptyTableWellFormed ==
    ASSUME NEW pr \in [Task -> Prio]
    PROVE  WellFormed(EmptyTable, pr) /\ Members(EmptyTable) = {}
<1>1. EmptyTable \in ReadyTable
  BY EmptySeq DEF EmptyTable, ReadyTable
<1>2. \A p \in Prio : EmptyTable.queue[p] = <<>> /\ DOMAIN EmptyTable.queue[p] = {}
  BY EmptySeq, LenProperties DEF EmptyTable
<1>3. EmptyTable.y = {} /\ \A b \in Byte : EmptyTable.c[b] = {}
  BY DEF EmptyTable
<1>4. BitmapMatches(EmptyTable)
  BY <1>2, <1>3, BitAddress DEF BitmapMatches
<1>5. PlacedOnce(EmptyTable, pr) /\ Members(EmptyTable) = {}
  BY <1>2 DEF PlacedOnce, Members, Queued
<1> QED
  BY <1>1, <1>4, <1>5 DEF WellFormed

-----------------------------------------------------------------------------
(* The scheduler core.                                                     *)

(* The inductive invariant.  That Idle is created keeps the ready table    *)
(* non-empty, which is what makes the bitmap search meaningful.            *)
SchedInv ==
    /\ SchedTypeOK
    /\ WellFormed(ready, prio)
    /\ AllReady
    /\ Idle \in created

(* What schedule() does to the tables, for any well-formed table that      *)
(* holds the idle task.                                                    *)
LEMMA ScheduleFromPreserves ==
    ASSUME NEW r, prio \in [Task -> Prio], WellFormed(r, prio),
           Members(r) # {}, new_task \in Task, ScheduleFrom(r)
    PROVE  /\ WellFormed(ready', prio)
           /\ Members(ready') = Members(r)
           /\ new_task' \in Task
           /\ ~schedule_is_lock => new_task' \in Members(r)
           /\ new_task' # new_task =>
                 /\ new_task' \in Members(r)
                 /\ \A t \in Members(r) : prio[new_task'] <= prio[t]
<1>1. CASE schedule_is_lock
  BY <1>1 DEF ScheduleFrom
<1>2. CASE ~schedule_is_lock
  <2>1. ready' = Rotate(r) /\ new_task' = BitFirstOneSearch(r)
    BY <1>2 DEF ScheduleFrom
  <2>2. WellFormed(Rotate(r), prio) /\ Members(Rotate(r)) = Members(r)
    BY RotatePreserves
  <2>3. /\ BitFirstOneSearch(r) \in Members(r)
        /\ \A t \in Members(r) : prio[BitFirstOneSearch(r)] <= prio[t]
    BY SearchFindsHighest
  <2> QED
    BY <2>1, <2>2, <2>3 DEF Members
<1> QED
  BY <1>1, <1>2

(* A switch goes to a task than which none in the new table is higher.     *)
LEMMA SwitchIsHighest ==
    ASSUME NEW r, prio \in [Task -> Prio], WellFormed(r, prio),
           Members(r) # {}, new_task \in Task, ScheduleFrom(r), prio' = prio
    PROVE  new_task' # new_task => Highest(new_task)'
<1>1. /\ Members(ready') = Members(r)
      /\ new_task' # new_task =>
            /\ new_task' \in Members(r)
            /\ \A t \in Members(r) : prio[new_task'] <= prio[t]
  BY ScheduleFromPreserves
<1>2. ReadyTasks' = Members(r)
  BY <1>1 DEF ReadyTasks
<1> QED
  BY <1>1, <1>2 DEF Highest

(* schedule() with the scheduler unlocked, for a table that holds the idle *)
(* task: the table's members stay and the CPU goes to one of them.         *)
LEMMA SwitchGoesToReady ==
    ASSUME NEW r, prio \in [Task -> Prio], WellFormed(r, prio),
           Idle \in Members(r), new_task \in Task, schedule_is_lock = FALSE,
           ScheduleFrom(r)
    PROVE  /\ WellFormed(ready', prio)
           /\ Members(ready') = Members(r)
           /\ new_task' \in Members(r) /\ new_task' \in Task
BY ScheduleFromPreserves DEF Members

(* system_init leaves a well-formed table that holds the idle task.        *)
LEMMA InitEstablishesInv == SchedInit => SchedInv
<1> SUFFICES ASSUME SchedInit
             PROVE  SchedInv
  OBVIOUS
<1> USE DEF SchedInit
<1>1. prio \in [Task -> Prio] /\ prio[Idle] = LowestPrio /\ LowestPrio \in Prio
  BY PrioAssumption, IdleAssumption DEF LowestPrio, Prio
<1>2. WellFormed(EmptyTable, prio) /\ Members(EmptyTable) = {}
  BY <1>1, EmptyTableWellFormed
<1>3. WellFormed(ready, prio) /\ Members(ready) = {Idle}
  BY <1>1, <1>2, InsertTailPreserves, IdleAssumption
<1>4. SchedTypeOK
  BY <1>1, <1>3, IdleAssumption, TaskAssumption
     DEF SchedTypeOK, TableTypeOK, WellFormed
<1> QED
  BY <1>3, <1>4 DEF SchedInv, AllReady, ReadyTasks

(* task_create puts a new task into the FIFO of its priority.              *)
LEMMA TaskCreatePreserves ==
    ASSUME TableTypeOK, WellFormed(ready, prio), NEW t \in Task, NEW p \in Prio,
           t \notin Members(ready), TaskCreate(t, p)
    PROVE  /\ TableTypeOK' /\ WellFormed(ready', prio')
           /\ Members(ready') = Members(ready) \cup {t}
           /\ \A u \in Task \ {t} : prio'[u] = prio[u]
<1>1. /\ prio' = [prio EXCEPT ![t] = p] /\ created' = created \cup {t}
      /\ UNCHANGED <<new_task, schedule_is_lock>>
  BY DEF TaskCreate
<1>2. prio \in [Task -> Prio] /\ prio' \in [Task -> Prio] /\ prio'[t] = p
  BY <1>1 DEF TableTypeOK
<1>3. WellFormed(ready, prio')
  BY <1>1, <1>2, ChangePrioPreserves
<1>4. ready' = InsertTail(ready, prio'[t], t)
  BY <1>2 DEF TaskCreate
<1>5. /\ WellFormed(ready', prio')
      /\ Members(ready') = Members(ready) \cup {t}
  <2> DEFINE q == prio'
  <2> HIDE DEF q
  <2>1. q \in [Task -> Prio] /\ WellFormed(ready, q)
    BY <1>2, <1>3 DEF q
  <2>2. /\ WellFormed(InsertTail(ready, q[t], t), q)
        /\ Members(InsertTail(ready, q[t], t)) = Members(ready) \cup {t}
    BY <2>1, InsertTailPreserves
  <2> QED
    BY <1>4, <2>2 DEF q
<1>6. TableTypeOK'
  BY <1>1, <1>2, <1>5 DEF TableTypeOK, WellFormed
<1> QED
  BY <1>1, <1>2, <1>5, <1>6

(* The steps that kernel objects have no part in: creation and start,      *)
(* schedule() and a timer interrupt.  None of them moves a task out of the *)
(* ready table or inside a kernel call.                                    *)
LEMMA OwnStepsPreserve ==
    ASSUME TableTypeOK, WellFormed(ready, prio), schedule_is_lock = FALSE,
           Idle \in Members(ready), Members(ready) \subseteq created,
           \/ Boot
           \/ Preempt
           \/ \E t \in Task : Schedule(t)
    PROVE  /\ TableTypeOK' /\ WellFormed(ready', prio') /\ schedule_is_lock' = FALSE
           /\ Members(ready') = Members(ready) \cup (created' \ created)
           /\ created \subseteq created'
           /\ \A t \in created : prio'[t] = prio[t]
           /\ Started' => new_task' \in Members(ready')
           /\ \/ at' = at
              \/ \E t \in Task : /\ Running(t) /\ at[t] \in {User, Trailing}
                                 /\ at' = [at EXCEPT ![t] = User]
           /\ (created' = created \/ ~Started') /\ (Started => Started')
<1>1. ASSUME NEW t \in Task \ {Idle}, NEW p \in UserPrio, TaskCreate(t, p)
      PROVE  /\ TableTypeOK' /\ WellFormed(ready', prio')
             /\ Members(ready') = Members(ready) \cup {t}
             /\ \A u \in Task \ {t} : prio'[u] = prio[u]
             /\ t \notin created /\ created' = created \cup {t} /\ ~Started /\ ~Started'
             /\ UNCHANGED <<schedule_is_lock, at>>
  <2>1. /\ p \in Prio /\ t \notin created /\ created' = created \cup {t}
        /\ ~Started /\ ~Started'
        /\ UNCHANGED <<schedule_is_lock, at>>
    BY <1>1, UserPrioAssumption DEF TaskCreate, Started
  <2> QED
    BY <1>1, <2>1, TaskCreatePreserves
<1>2. CASE StartWhichTask(Idle)
  BY <1>2, IdleAssumption DEF StartWhichTask, TableTypeOK
<1>3. ASSUME Started, ScheduleFrom(ready), UNCHANGED <<prio, created, schedule_is_lock>>
      PROVE  /\ TableTypeOK' /\ WellFormed(ready', prio')
             /\ Members(ready') = Members(ready)
             /\ new_task' \in Members(ready') /\ Started'
  <2>1. prio \in [Task -> Prio] /\ new_task \in Task
    BY <1>3 DEF TableTypeOK, Started
  <2>2. /\ WellFormed(ready', prio) /\ Members(ready') = Members(ready)
        /\ new_task' \in Members(ready) /\ new_task' \in Task
    BY <1>3, <2>1, SwitchGoesToReady
  <2> QED
    BY <1>3, <2>2, TaskAssumption DEF TableTypeOK, WellFormed, Started
<1>4. ASSUME NEW t \in Task, Schedule(t)
      PROVE  /\ Started /\ ScheduleFrom(ready) /\ UNCHANGED <<prio, created, schedule_is_lock>>
             /\ Running(t) /\ at[t] \in {User, Trailing} /\ at' = [at EXCEPT ![t] = User]
  BY <1>4 DEF Schedule, Running
<1>5. CASE \E t \in Task \ {Idle}, p \in UserPrio : TaskCreate(t, p)
  BY <1>1, <1>5 DEF TableTypeOK
<1>6. CASE Preempt
  BY <1>3, <1>6 DEF Preempt
<1>7. CASE \E t \in Task : Schedule(t)
  BY <1>3, <1>4, <1>7
<1>8. CASE StartWhichTask(Idle)
  BY <1>2, <1>8 DEF StartWhichTask
<1> QED
  BY <1>5, <1>6, <1>7, <1>8 DEF Boot

(* Task creation, the start, schedule(), the timer interrupt and the       *)
(* scheduler lock keep the invariant: one step per action.                 *)
LEMMA NextPreservesInv == SchedInv /\ [SchedNext]_schedVars => SchedInv'
<1> SUFFICES ASSUME SchedInv, [SchedNext]_schedVars
             PROVE  SchedInv'
  OBVIOUS
<1>1. /\ SchedTypeOK /\ TableTypeOK /\ WellFormed(ready, prio)
      /\ Members(ready) = created /\ Idle \in created /\ Members(ready) # {}
  BY DEF SchedInv, SchedTypeOK, AllReady, ReadyTasks
<1>2. ASSUME NEW t \in Task \ {Idle}, NEW p \in UserPrio, TaskCreate(t, p)
      PROVE  SchedInv'
  <2>1. p \in Prio /\ t \notin Members(ready)
    BY <1>1, <1>2, UserPrioAssumption DEF TaskCreate
  <2>2. TableTypeOK' /\ WellFormed(ready', prio') /\ Members(ready') = Members(ready) \cup {t}
    BY <1>1, <1>2, <2>1, TaskCreatePreserves
  <2> QED
    BY <1>1, <1>2, <2>2 DEF TaskCreate, SchedInv, SchedTypeOK, AllReady, ReadyTasks
<1>3. CASE StartWhichTask(Idle)
  BY <1>1, <1>3, IdleAssumption DEF StartWhichTask, SchedInv, SchedTypeOK, TableTypeOK,
                    AllReady, ReadyTasks
<1>4. ASSUME Started, ScheduleFrom(ready), UNCHANGED <<prio, created, schedule_is_lock>>,
             at' \in [Task -> {User, Trailing}]
      PROVE  SchedInv'
  <2>1. prio \in [Task -> Prio] /\ new_task \in Task
    BY <1>1, <1>4 DEF TableTypeOK, Started
  <2>2. /\ WellFormed(ready', prio) /\ Members(ready') = Members(ready)
        /\ new_task' \in Task
    BY <1>1, <1>4, <2>1, ScheduleFromPreserves
  <2>3. SchedTypeOK'
    BY <1>1, <1>4, <2>2 DEF SchedTypeOK, TableTypeOK, WellFormed
  <2> QED
    BY <1>1, <1>4, <2>2, <2>3 DEF SchedInv, AllReady, ReadyTasks
<1>5. ASSUME NEW t \in Task, Schedule(t)
      PROVE  SchedInv'
  BY <1>1, <1>4, <1>5 DEF Schedule, Running, SchedTypeOK
<1>6. CASE Preempt
  BY <1>1, <1>4, <1>6 DEF Preempt, SchedTypeOK
<1>7. ASSUME NEW t \in Task, ScheduleLock(t) \/ ScheduleUnlock(t)
      PROVE  SchedInv'
  BY <1>1, <1>7 DEF ScheduleLock, ScheduleUnlock, SchedInv, SchedTypeOK,
                    TableTypeOK, AllReady, ReadyTasks
<1>8. CASE UNCHANGED schedVars
  BY <1>1, <1>8 DEF schedVars, SchedInv, SchedTypeOK, TableTypeOK,
                    AllReady, ReadyTasks
<1> QED
  BY <1>2, <1>3, <1>5, <1>6, <1>7, <1>8 DEF SchedNext, Boot

(* Type correctness, an exact bitmap, every task in the FIFO of its        *)
(* priority exactly once, and none lost by creation, preemption or yield.  *)
THEOREM SchedulerSafe ==
    SchedSpec => [](BitmapExact /\ SchedSafe)
<1>1. SchedInv => BitmapExact /\ SchedSafe
  BY DEF SchedInv, WellFormed, BitmapExact, SchedSafe, QueuedOnce
<1> QED
  BY <1>1, InitEstablishesInv, NextPreservesInv, PTL DEF SchedSpec

(* Creation, the start, the timer interrupt and schedule() keep the CPU    *)
(* where it is or give it to a task of the highest ready priority.         *)
LEMMA OwnStepsSwitch ==
    ASSUME TableTypeOK, WellFormed(ready, prio), Members(ready) # {}, Started,
           Boot \/ Preempt \/ \E t \in Task : Schedule(t)
    PROVE  new_task' # new_task => Highest(new_task)'
<1>1. CASE Boot
  BY <1>1 DEF Boot, TaskCreate, StartWhichTask
<1>2. CASE Preempt \/ \E t \in Task : Schedule(t)
  BY <1>2, SwitchIsHighest DEF Preempt, Schedule, TableTypeOK, Started
<1> QED
  BY <1>1, <1>2

(* schedule() and the timer interrupt switch to a task of the highest      *)
(* ready priority, never to an empty FIFO's head.                          *)
THEOREM SwitchesToHighest == SchedSpec => SwitchToHighest
<1> DEFINE ToHighest == new_task' # new_task /\ Started => Highest(new_task)'
<1>1. SchedInv /\ [SchedNext]_schedVars => [ToHighest]_schedVars
  BY OwnStepsSwitch
     DEF SchedNext, SchedInv, SchedTypeOK, AllReady, ReadyTasks, ScheduleLock, ScheduleUnlock
<1> QED
  BY <1>1, InitEstablishesInv, NextPreservesInv, PTL
     DEF SchedSpec, SwitchToHighest
=============================================================================
