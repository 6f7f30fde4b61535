---------------------------- MODULE FosListProofs ----------------------------
(***************************************************************************)
(* The pointers of kernel/list.c are the sequences that the other modules  *)
(* take lists for, for any number of lists and nodes and in the middle of  *)
(* the walk of hardware_timer.                                             *)
(***************************************************************************)
EXTENDS FosList, SequenceTheorems, FiniteSetTheorems, WellFoundedInduction, TLAPS

(* The next pointers nx lead from node n through s, and no further.        *)
Chain(nx, n, s) ==
    /\ \A i \in 1 .. Len(s) : s[i] # n
    /\ \A i, j \in 1 .. Len(s) : s[i] = s[j] => i = j
    /\ nx[n] = IF s = <<>> THEN n ELSE s[1]
    /\ \A i \in 1 .. Len(s) : nx[s[i]] = IF i = Len(s) THEN s[i] ELSE s[i + 1]

(* f[k] is what k next pointers behind n lead to.                          *)
Follows(nx, n, M, f) == f = [k \in 0 .. M |-> IF k = 0 THEN n ELSE nx[f[k - 1]]]

(* Node number k behind n.                                                 *)
Hop(n, s, k) == IF k = 0 \/ s = <<>> THEN n ELSE IF k <= Len(s) THEN s[k] ELSE s[Len(s)]

(* prev leads back through s to the list head h.                           *)
Back(pv, h, s) == \A i \in 1 .. Len(s) : pv[s[i]] = IF i = 1 THEN h ELSE s[i - 1]

(* The pointers nx and pv are the lists ls, and no node is in two of them. *)
Links(nx, pv, ls) ==
    /\ nx \in [Node -> Node] /\ pv \in [Node -> Node]
    /\ ls \in [ListHead -> Seq(Item)]
    /\ \A h \in ListHead : Chain(nx, h, ls[h]) /\ Back(pv, h, ls[h])
    /\ \A h, g \in ListHead : \A i \in 1 .. Len(ls[h]), j \in 1 .. Len(ls[g]) :
          ls[h][i] = ls[g][j] => h = g

Outside(ls, n) == \A h \in ListHead : \A i \in 1 .. Len(ls[h]) : ls[h][i] # n

(* r is what s has behind its entry number k.                              *)
Suffix(s, k, r) ==
    /\ k \in 0 .. Len(s) /\ r \in Seq(Item) /\ Len(r) = Len(s) - k
    /\ \A i \in 1 .. Len(r) : r[i] = s[k + i]

(* hardware_timer is at node t and has still to see r: t is the head, an   *)
(* entry, or an entry that it has just deleted.                            *)
WalkAt(nx, ls, t, r) ==
    /\ nx[t] = IF r = <<>> THEN t ELSE r[1]
    /\ \E k \in 0 .. Len(ls[WalkedHead]) :
          /\ Suffix(ls[WalkedHead], k, r)
          /\ \/ t = WalkedHead /\ k = 0
             \/ k # 0 /\ t = ls[WalkedHead][k]
             \/ t \in Item /\ Outside(ls, t)

(* The same when it is at an entry that is still there.                    *)
AtEntry(ls, t, r) ==
    \E k \in 1 .. Len(ls[WalkedHead]) :
        t = ls[WalkedHead][k] /\ Suffix(ls[WalkedHead], k, r)

-----------------------------------------------------------------------------
(* Natural numbers have a smallest one: what stands for induction below.   *)
LEMMA LeastOf ==
    ASSUME NEW S \in SUBSET Nat, S # {}
    PROVE  \E x \in S : \A y \in S : x <= y
<1> DEFINE R == OpToRel(<, Nat)
<1>1. IsWellFoundedOn(R, Nat)
  BY NatLessThanWellFounded, Zenon
<1>2. \A x, y \in Nat : y < x => <<y, x>> \in R
  BY DEF OpToRel
<1> HIDE DEF R
<1>3. PICK x \in S : \A y \in S : ~(<<y, x>> \in R)
  BY <1>1, WFMin
<1>4. \A y \in S : ~(y < x)
  BY <1>2, <1>3
<1> QED
  BY <1>3, <1>4

(* Following next pointers k times has one result only.                    *)
LEMMA HopsUnique ==
    ASSUME NEW nx, NEW n, NEW M \in Nat,
           NEW f, Follows(nx, n, M, f), NEW w, Follows(nx, n, M, w)
    PROVE  f = w
<1> DEFINE D == {k \in 0 .. M : f[k] # w[k]}
<1>0. /\ f = [k \in 0 .. M |-> IF k = 0 THEN n ELSE nx[f[k - 1]]]
      /\ w = [k \in 0 .. M |-> IF k = 0 THEN n ELSE nx[w[k - 1]]]
  BY DEF Follows
<1>1. CASE D = {}
  <2>1. \A k \in 0 .. M : f[k] = w[k]
    BY <1>1
  <2>2. f = [k \in 0 .. M |-> f[k]] /\ w = [k \in 0 .. M |-> w[k]]
    BY <1>0
  <2> QED
    BY <2>1, <2>2
<1>2. ASSUME D # {} PROVE FALSE
  <2>1. PICK x \in D : \A y \in D : x <= y
    <3>1. D \in SUBSET Nat
      OBVIOUS
    <3> HIDE DEF D
    <3> QED
      BY <1>2, <3>1, LeastOf
  <2>2. x \in 0 .. M /\ f[x] # w[x]
    BY <2>1
  <2>3. x # 0
    BY <1>0, <2>2
  <2>4. x - 1 \in 0 .. M /\ x - 1 \notin D
    <3>1. x - 1 \in 0 .. M /\ ~(x <= x - 1)
      BY <2>2, <2>3
    <3> HIDE DEF D
    <3> QED
      BY <2>1, <3>1
  <2>5. f[x - 1] = w[x - 1]
    BY <2>4
  <2>6. f[x] = nx[f[x - 1]] /\ w[x] = nx[w[x - 1]]
    BY <1>0, <2>2, <2>3
  <2> QED
    BY <2>2, <2>5, <2>6
<1> QED
  BY <1>1, <1>2

(* A list has at most as many entries as there are nodes.                  *)
LEMMA LengthBound ==
    ASSUME NEW s \in Seq(Item), \A i, j \in 1 .. Len(s) : s[i] = s[j] => i = j
    PROVE  MaxHops \in Nat /\ Len(s) \in Nat /\ Len(s) <= MaxHops
<1>1. Len(s) \in Nat /\ s \in [1 .. Len(s) -> Item]
  BY LenProperties
<1>2. s \in Injection(1 .. Len(s), Item)
  BY <1>1 DEF Injection, IsInjective
<1>3. Cardinality(1 .. Len(s)) <= Cardinality(Item)
  BY <1>2, FiniteItems, FS_Injection
<1>4. Cardinality(1 .. Len(s)) = Len(s)
  BY <1>1, FS_Interval
<1> QED
  BY <1>1, <1>3, <1>4, FiniteItems, FS_CardinalityType DEF MaxHops

(* What the pointers of a chain lead to.                                   *)
LEMMA ChainHops ==
    ASSUME NEW nx, NEW n, NEW s \in Seq(Item), Chain(nx, n, s), NEW M \in Nat,
           NEW w, w = [k \in 0 .. M |-> Hop(n, s, k)]
    PROVE  Follows(nx, n, M, w)
<1>1. Len(s) \in Nat /\ (s = <<>> <=> Len(s) = 0)
  BY LenProperties, EmptySeq
<1>2. ASSUME NEW k \in 0 .. M
      PROVE  w[k] = IF k = 0 THEN n ELSE nx[w[k - 1]]
  <2>1. CASE k = 0
    BY <2>1 DEF Hop
  <2>2. CASE k # 0
    <3>1. k - 1 \in 0 .. M /\ w[k - 1] = Hop(n, s, k - 1) /\ w[k] = Hop(n, s, k)
      BY <2>2
    <3>2. Hop(n, s, k) = nx[Hop(n, s, k - 1)]
      BY <1>1, <2>2 DEF Hop, Chain
    <3> QED
      BY <2>2, <3>1, <3>2
  <2> QED
    BY <2>1, <2>2
<1> QED
  BY <1>2 DEF Follows

(* Behind and Reached are what the pointers lead to.                       *)
LEMMA ReachedIs ==
    \A n \in Node, s \in Seq(Item) : Chain(next, n, s) =>
        Reached(n) = s /\ LastOf(n) = Hop(n, s, Len(s))
<1> SUFFICES ASSUME NEW n \in Node, NEW s \in Seq(Item), Chain(next, n, s)
             PROVE  Reached(n) = s /\ LastOf(n) = Hop(n, s, Len(s))
  OBVIOUS
<1> DEFINE w == [k \in 0 .. MaxHops |-> Hop(n, s, k)]
<1>1. MaxHops \in Nat /\ Len(s) \in Nat /\ Len(s) <= MaxHops
  BY LengthBound DEF Chain
<1>2. Follows(next, n, MaxHops, w)
  <2>1. \E v : v = w
    OBVIOUS
  <2> QED
    BY <1>1, ChainHops
<1>3. Behind(n) = CHOOSE hop : hop = [k \in 0 .. MaxHops |-> IF k = 0 THEN n ELSE next[hop[k - 1]]]
  BY DEF Behind
<1>4. Follows(next, n, MaxHops, Behind(n))
  <2>1. w = [k \in 0 .. MaxHops |-> IF k = 0 THEN n ELSE next[w[k - 1]]]
    BY <1>2 DEF Follows
  <2> HIDE DEF w
  <2> QED
    BY <1>3, <2>1 DEF Follows
<1>5. Behind(n) = w
  <2> HIDE DEF w
  <2> QED
    BY <1>1, <1>2, <1>4, HopsUnique
<1>6. /\ \A k \in 0 .. MaxHops : Behind(n)[k] = Hop(n, s, k)
      /\ LastOf(n) = Hop(n, s, Len(s))
  BY <1>1, <1>5, EmptySeq DEF LastOf, Hop
<1>7. ASSUME NEW k \in 0 .. MaxHops
      PROVE  /\ k < Len(s) => ~IsListLast(Hop(n, s, k))
             /\ k = Len(s) => IsListLast(Hop(n, s, k))
  BY <1>1, EmptySeq DEF Chain, Hop, IsListLast
<1>8. ASSUME NEW k \in 0 .. MaxHops
      PROVE  (/\ k = MaxHops \/ IsListLast(Behind(n)[k])
              /\ \A j \in 0 .. k - 1 : ~IsListLast(Behind(n)[j])) <=> k = Len(s)
  <2>1. ASSUME k < Len(s), k = MaxHops \/ IsListLast(Behind(n)[k])
        PROVE  FALSE
    BY <1>1, <1>6, <1>7, <2>1
  <2>2. ASSUME k > Len(s), \A j \in 0 .. k - 1 : ~IsListLast(Behind(n)[j])
        PROVE  FALSE
    <3>1. Len(s) \in 0 .. k - 1 /\ Len(s) \in 0 .. MaxHops
      BY <1>1, <2>2
    <3> QED
      BY <1>6, <1>7, <2>2, <3>1
  <2>3. ASSUME k = Len(s)
        PROVE  /\ IsListLast(Behind(n)[k])
               /\ \A j \in 0 .. k - 1 : ~IsListLast(Behind(n)[j])
    BY <1>1, <1>6, <1>7, <2>3
  <2> QED
    BY <1>1, <2>1, <2>2, <2>3
<1>9. Reached(n) = [k \in 1 .. Len(s) |-> Behind(n)[k]]
  <2> DEFINE len == CHOOSE k \in 0 .. MaxHops :
                       /\ k = MaxHops \/ IsListLast(Behind(n)[k])
                       /\ \A j \in 0 .. k - 1 : ~IsListLast(Behind(n)[j])
  <2>1. Len(s) \in 0 .. MaxHops
    BY <1>1
  <2>2. len = Len(s)
    BY <1>8, <2>1
  <2>3. Reached(n) = [k \in 1 .. len |-> Behind(n)[k]]
    BY DEF Reached
  <2> QED
    BY <2>2, <2>3
<1>10. \A k \in 1 .. Len(s) : Behind(n)[k] = s[k]
  BY <1>1, <1>6, EmptySeq DEF Hop
<1>11. s = [k \in 1 .. Len(s) |-> s[k]]
  BY LenProperties
<1> QED
  BY <1>6, <1>9, <1>10, <1>11
-----------------------------------------------------------------------------
(* A list whose nodes keep their pointers stays as it is.                  *)
LEMMA SameChain ==
    ASSUME NEW nx, NEW n, NEW s \in Seq(Item), Chain(nx, n, s), NEW mx,
           mx[n] = nx[n], \A i \in 1 .. Len(s) : mx[s[i]] = nx[s[i]]
    PROVE  Chain(mx, n, s)
BY DEF Chain

(* What is in a list.                                                      *)
LEMMA LinksFacts ==
    ASSUME NEW nx, NEW pv, NEW ls, Links(nx, pv, ls), NEW h \in ListHead
    PROVE  /\ nx \in [Node -> Node] /\ pv \in [Node -> Node]
           /\ ls \in [ListHead -> Seq(Item)]
           /\ ls[h] \in Seq(Item) /\ Len(ls[h]) \in Nat /\ DOMAIN ls[h] = 1 .. Len(ls[h])
           /\ (ls[h] = <<>> <=> Len(ls[h]) = 0)
           /\ \A i \in 1 .. Len(ls[h]) : ls[h][i] \in Item
           /\ Chain(nx, h, ls[h]) /\ Back(pv, h, ls[h])
           /\ h \in Node /\ h \notin Item
           /\ \A g \in ListHead : g # h => \A i \in 1 .. Len(ls[h]), j \in 1 .. Len(ls[g]) :
                  ls[h][i] # ls[g][j]
<1>1. ls[h] \in Seq(Item)
  BY DEF Links
<1>2. /\ Len(ls[h]) \in Nat /\ DOMAIN ls[h] = 1 .. Len(ls[h])
      /\ \A i \in 1 .. Len(ls[h]) : ls[h][i] \in Item
  BY <1>1, LenProperties
<1>3. ls[h] = <<>> <=> Len(ls[h]) = 0
  BY <1>1, EmptySeq
<1> QED
  BY <1>1, <1>2, <1>3, ListAssumption DEF Links, Node

(* What the insertions do to the pointers and to the sequences.            *)
LastNext(nx, p, n) == [nx EXCEPT ![n] = n, ![p] = n]
LastPrev(pv, p, n) == [pv EXCEPT ![n] = p]
AtEnd(ls, h, n) == [ls EXCEPT ![h] = Append(@, n)]

FirstNext(nx, h, n) == [nx EXCEPT ![n] = nx[h], ![h] = n]
FirstPrev(nx, pv, h, n) == [pv EXCEPT ![n] = h, ![nx[h]] = n]
AtFront(ls, h, n) == [ls EXCEPT ![h] = <<n>> \o @]

(* list_insert_behind, and list_insert_spec into an empty list.            *)
LEMMA AppendLinks ==
    ASSUME NEW nx, NEW pv, NEW ls, Links(nx, pv, ls), NEW h \in ListHead,
           NEW n \in Item, Outside(ls, n),
           NEW p, p = Hop(h, ls[h], Len(ls[h]))
    PROVE  Links(LastNext(nx, p, n), LastPrev(pv, p, n), AtEnd(ls, h, n))
<1> DEFINE mx == [nx EXCEPT ![n] = n, ![p] = n]
           qv == [pv EXCEPT ![n] = p]
           s  == ls[h]
           w  == Append(s, n)
           ms == [ls EXCEPT ![h] = w]
           l  == Len(s)
<1>1. /\ s \in Seq(Item) /\ l \in Nat /\ (s = <<>> <=> l = 0)
      /\ \A i \in 1 .. l : s[i] \in Item /\ s[i] # n
      /\ Chain(nx, h, s) /\ Back(pv, h, s) /\ h \in Node /\ h \notin Item
      /\ nx \in [Node -> Node] /\ pv \in [Node -> Node] /\ ls \in [ListHead -> Seq(Item)]
  BY LinksFacts DEF Outside
<1>2. w \in Seq(Item) /\ Len(w) = l + 1 /\ w[l + 1] = n /\ \A i \in 1 .. l : w[i] = s[i]
  BY <1>1, AppendProperties
<1>3. /\ p = IF l = 0 THEN h ELSE s[l]
      /\ p \in Node /\ p # n /\ n \in Node
  BY <1>1 DEF Hop, Node
<1>4. /\ mx \in [Node -> Node] /\ qv \in [Node -> Node] /\ ms \in [ListHead -> Seq(Item)]
      /\ mx[n] = n /\ mx[p] = n /\ \A z \in Node : z # n /\ z # p => mx[z] = nx[z]
      /\ qv[n] = p /\ \A z \in Node : z # n => qv[z] = pv[z]
      /\ ms[h] = w /\ \A g \in ListHead : g # h => ms[g] = ls[g]
  BY <1>1, <1>2, <1>3
<1> HIDE DEF mx, qv, ms, w, l, s
<1>5. Chain(mx, h, w)
  <2>1. \A i \in 1 .. l + 1 : w[i] # h /\ w[i] \in Node /\ (i # l + 1 => w[i] # n /\ w[i] = s[i])
    BY <1>1, <1>2 DEF Node
  <2>2. \A i, j \in 1 .. l + 1 : w[i] = w[j] => i = j
    <3>1. \A i, j \in 1 .. l : s[i] = s[j] => i = j
      BY <1>1 DEF Chain, l
    <3> QED
      BY <1>1, <1>2, <3>1
  <2>3. w # <<>> /\ mx[h] = w[1]
    <3>1. w # <<>>
      BY <1>1, <1>2, EmptySeq
    <3>2. CASE l = 0
      <4>1. mx[h] = n /\ w[1] = n
        BY <1>2, <1>3, <1>4, <3>2
      <4> QED
        BY <3>1, <4>1
    <3>3. CASE l # 0
      <4>1. nx[h] = s[1] /\ w[1] = s[1]
        BY <1>1, <1>2, <3>3 DEF Chain
      <4>2. h # n /\ h # p
        BY <1>1, <1>3, <3>3
      <4> QED
        BY <1>1, <1>4, <3>1, <4>1, <4>2
    <3> QED
      BY <3>2, <3>3
  <2>4. ASSUME NEW i \in 1 .. l + 1
        PROVE  mx[w[i]] = IF i = l + 1 THEN w[i] ELSE w[i + 1]
    <3>1. CASE i = l + 1
      BY <1>2, <1>4, <3>1
    <3>2. CASE i = l
      BY <1>1, <1>2, <1>3, <1>4, <3>2
    <3>3. CASE i < l
      <4>1. s[i] # p /\ s[i] # n /\ s[i] \in Node
        <5>1. s[i] # s[l]
          BY <1>1, <3>3 DEF Chain, l
        <5> QED
          BY <1>1, <1>3, <3>3, <5>1 DEF Node
      <4>2. nx[s[i]] = s[i + 1]
        BY <1>1, <3>3 DEF Chain, l
      <4> QED
        BY <1>1, <1>2, <1>4, <3>3, <4>1, <4>2
    <3> QED
      BY <1>1, <3>1, <3>2, <3>3
  <2> QED
    BY <1>2, <2>1, <2>2, <2>3, <2>4 DEF Chain
<1>6. Back(qv, h, w)
  BY <1>1, <1>2, <1>3, <1>4 DEF Back, Node, l
<1>7. ASSUME NEW g \in ListHead, g # h
      PROVE  Chain(mx, g, ls[g]) /\ Back(qv, g, ls[g])
  <2>1. /\ ls[g] \in Seq(Item) /\ Chain(nx, g, ls[g]) /\ Back(pv, g, ls[g]) /\ g \in Node
        /\ g \notin Item /\ \A i \in 1 .. Len(ls[g]) : ls[g][i] \in Item
    BY LinksFacts
  <2>2. \A i \in 1 .. Len(ls[g]) : ls[g][i] # n /\ ls[g][i] # p /\ ls[g][i] \in Node
    BY <1>1, <1>3, <1>7, <2>1, LinksFacts DEF Outside, Node, s, l
  <2>3. g # n /\ g # p
    BY <1>1, <1>3, <1>7, <2>1
  <2>4. Chain(mx, g, ls[g])
    BY <1>4, <2>1, <2>2, <2>3, SameChain
  <2> QED
    BY <1>4, <2>1, <2>2, <2>4 DEF Back
<1>8. ASSUME NEW g \in ListHead, NEW f \in ListHead, g # f,
             NEW i \in 1 .. Len(ms[g]), NEW j \in 1 .. Len(ms[f])
      PROVE  ms[g][i] # ms[f][j]
  <2>1. ASSUME NEW e \in ListHead, e # h, NEW k \in 1 .. Len(ls[e]), NEW m \in 1 .. Len(w)
        PROVE  ls[e][k] # w[m]
    <3>1. ls[e][k] # n
      BY DEF Outside
    <3>2. \A q \in 1 .. l : ls[e][k] # s[q]
      BY <2>1, LinksFacts DEF s, l
    <3> QED
      BY <1>1, <1>2, <3>1, <3>2
  <2>2. CASE g = h
    BY <1>4, <1>8, <2>1, <2>2
  <2>3. CASE f = h
    BY <1>4, <1>8, <2>1, <2>3
  <2>4. CASE g # h /\ f # h
    BY <1>4, <1>8, <2>4, LinksFacts
  <2> QED
    BY <2>2, <2>3, <2>4
<1>9. \A g \in ListHead : Chain(mx, g, ms[g]) /\ Back(qv, g, ms[g])
  BY <1>4, <1>5, <1>6, <1>7
<1>10. Links(mx, qv, ms)
  BY <1>4, <1>8, <1>9 DEF Links
<1> QED
  BY <1>10 DEF mx, qv, ms, w, s, LastNext, LastPrev, AtEnd

(* list_insert_spec into a list that is not empty.                         *)
LEMMA HeadLinks ==
    ASSUME NEW nx, NEW pv, NEW ls, Links(nx, pv, ls), NEW h \in ListHead, ls[h] # <<>>,
           NEW n \in Item, Outside(ls, n)
    PROVE  Links(FirstNext(nx, h, n), FirstPrev(nx, pv, h, n), AtFront(ls, h, n))
<1> DEFINE mx == [nx EXCEPT ![n] = nx[h], ![h] = n]
           qv == [pv EXCEPT ![n] = h, ![nx[h]] = n]
           s  == ls[h]
           w  == <<n>> \o s
           ms == [ls EXCEPT ![h] = w]
           l  == Len(s)
<1>1. /\ s \in Seq(Item) /\ l \in Nat \ {0} /\ s # <<>>
      /\ \A i \in 1 .. l : s[i] \in Item /\ s[i] # n
      /\ Chain(nx, h, s) /\ Back(pv, h, s) /\ h \in Node /\ h \notin Item
      /\ nx \in [Node -> Node] /\ pv \in [Node -> Node] /\ ls \in [ListHead -> Seq(Item)]
  BY LinksFacts DEF Outside
<1>2. /\ w \in Seq(Item) /\ Len(w) = l + 1 /\ w[1] = n
      /\ \A i \in 1 .. l + 1 : i # 1 => w[i] = s[i - 1]
  <2>1. <<n>> \in Seq(Item) /\ Len(<<n>>) = 1 /\ <<n>>[1] = n
    OBVIOUS
  <2> QED
    BY <1>1, <2>1, ConcatProperties
<1>3. /\ nx[h] = s[1] /\ n # h /\ n \in Node /\ s[1] \in Node /\ s[1] # n /\ s[1] # h
      /\ \A i \in 1 .. l : i # 1 => s[i] # s[1]
  BY <1>1 DEF Chain, Node, l
<1>4. /\ mx \in [Node -> Node] /\ qv \in [Node -> Node] /\ ms \in [ListHead -> Seq(Item)]
      /\ mx[n] = s[1] /\ mx[h] = n /\ \A z \in Node : z # n /\ z # h => mx[z] = nx[z]
      /\ qv[n] = h /\ qv[s[1]] = n /\ \A z \in Node : z # n /\ z # s[1] => qv[z] = pv[z]
      /\ ms[h] = w /\ \A g \in ListHead : g # h => ms[g] = ls[g]
  BY <1>1, <1>2, <1>3
<1> HIDE DEF mx, qv, ms, w, l, s
<1>5. Chain(mx, h, w)
  <2>1. \A i \in 1 .. l + 1 : w[i] # h
    BY <1>1, <1>2, <1>3
  <2>2. \A i, j \in 1 .. l + 1 : w[i] = w[j] => i = j
    <3>1. \A i, j \in 1 .. l : s[i] = s[j] => i = j
      BY <1>1 DEF Chain, l
    <3>2. \A i \in 1 .. l + 1 : i # 1 => i - 1 \in 1 .. l /\ w[i] = s[i - 1]
      BY <1>1, <1>2
    <3>3. \A i \in 1 .. l + 1 : i # 1 => w[i] # w[1]
      BY <1>1, <1>2, <3>2
    <3>4. ASSUME NEW i \in 1 .. l + 1, NEW j \in 1 .. l + 1, i # 1, j # 1, w[i] = w[j]
          PROVE  i = j
      <4>1. i - 1 = j - 1
        BY <3>1, <3>2, <3>4
      <4> QED
        BY <1>1, <4>1
    <3> QED
      BY <1>1, <3>3, <3>4
  <2>3. w # <<>> /\ mx[h] = w[1]
    BY <1>1, <1>2, <1>4, EmptySeq
  <2>4. ASSUME NEW i \in 1 .. l + 1
        PROVE  mx[w[i]] = IF i = l + 1 THEN w[i] ELSE w[i + 1]
    <3>1. CASE i = 1
      BY <1>1, <1>2, <1>4, <3>1
    <3>2. CASE i # 1
      <4>1. /\ i - 1 \in 1 .. l /\ w[i] = s[i - 1] /\ s[i - 1] # n /\ s[i - 1] # h
            /\ s[i - 1] \in Node
        BY <1>1, <1>2, <3>2 DEF Node
      <4>2. nx[s[i - 1]] = IF i - 1 = l THEN s[i - 1] ELSE s[i]
        BY <1>1, <4>1 DEF Chain, l
      <4>3. i # l + 1 => w[i + 1] = s[i]
        BY <1>1, <1>2
      <4> QED
        BY <1>1, <1>4, <4>1, <4>2, <4>3
    <3> QED
      BY <3>1, <3>2
  <2> QED
    BY <1>2, <2>1, <2>2, <2>3, <2>4 DEF Chain
<1>6. Back(qv, h, w)
  <2>1. ASSUME NEW i \in 1 .. l + 1
        PROVE  qv[w[i]] = IF i = 1 THEN h ELSE w[i - 1]
    <3>1. CASE i = 1
      BY <1>2, <1>4, <3>1
    <3>2. CASE i = 2
      BY <1>1, <1>2, <1>4, <3>2
    <3>3. CASE i > 2
      <4>1. /\ i - 1 \in 1 .. l /\ w[i] = s[i - 1] /\ s[i - 1] # n /\ s[i - 1] # s[1]
            /\ s[i - 1] \in Node /\ w[i - 1] = s[i - 2]
        BY <1>1, <1>2, <1>3, <3>3 DEF Node
      <4>2. pv[s[i - 1]] = s[i - 2]
        BY <1>1, <3>3, <4>1 DEF Back, l
      <4> QED
        BY <1>4, <3>3, <4>1, <4>2
    <3> QED
      BY <1>1, <3>1, <3>2, <3>3
  <2> QED
    BY <1>2, <2>1 DEF Back
<1>7. ASSUME NEW g \in ListHead, g # h
      PROVE  Chain(mx, g, ls[g]) /\ Back(qv, g, ls[g])
  <2>1. /\ ls[g] \in Seq(Item) /\ Chain(nx, g, ls[g]) /\ Back(pv, g, ls[g]) /\ g \in Node
        /\ g \notin Item /\ \A i \in 1 .. Len(ls[g]) : ls[g][i] \in Item
    BY LinksFacts
  <2>2. \A i \in 1 .. Len(ls[g]) :
            ls[g][i] # n /\ ls[g][i] # h /\ ls[g][i] # s[1] /\ ls[g][i] \in Node
    <3>1. 1 \in 1 .. l
      BY <1>1
    <3> QED
      BY <1>1, <1>7, <2>1, <3>1, LinksFacts DEF Outside, Node, s, l
  <2>3. g # n /\ g # h
    BY <1>7, <2>1
  <2>4. Chain(mx, g, ls[g])
    BY <1>4, <2>1, <2>2, <2>3, SameChain
  <2> QED
    BY <1>4, <2>1, <2>2, <2>4 DEF Back
<1>8. ASSUME NEW g \in ListHead, NEW f \in ListHead, g # f,
             NEW i \in 1 .. Len(ms[g]), NEW j \in 1 .. Len(ms[f])
      PROVE  ms[g][i] # ms[f][j]
  <2>1. ASSUME NEW e \in ListHead, e # h, NEW k \in 1 .. Len(ls[e]), NEW m \in 1 .. Len(w)
        PROVE  ls[e][k] # w[m]
    <3>1. ls[e][k] # n
      BY DEF Outside
    <3>2. \A q \in 1 .. l : ls[e][k] # s[q]
      BY <2>1, LinksFacts DEF s, l
    <3>3. m # 1 => m - 1 \in 1 .. l /\ w[m] = s[m - 1]
      BY <1>1, <1>2
    <3> QED
      BY <1>2, <3>1, <3>2, <3>3
  <2>2. CASE g = h
    BY <1>4, <1>8, <2>1, <2>2
  <2>3. CASE f = h
    BY <1>4, <1>8, <2>1, <2>3
  <2>4. CASE g # h /\ f # h
    BY <1>4, <1>8, <2>4, LinksFacts
  <2> QED
    BY <2>2, <2>3, <2>4
<1>9. \A g \in ListHead : Chain(mx, g, ms[g]) /\ Back(qv, g, ms[g])
  BY <1>4, <1>5, <1>6, <1>7
<1>10. Links(mx, qv, ms)
  BY <1>4, <1>8, <1>9 DEF Links
<1> QED
  BY <1>10 DEF mx, qv, ms, w, s, FirstNext, FirstPrev, AtFront

(* s without its entry number k.                                           *)
Cut(s, k) == [i \in 1 .. Len(s) - 1 |-> IF i < k THEN s[i] ELSE s[i + 1]]

EntryAt(ls, h, k, n) == k \in 1 .. Len(ls[h]) /\ n = ls[h][k]

Removed(ls, h, n) == [ls EXCEPT ![h] = Sequences0!Without(@, n)]

CutFrom(ls, h, k) == [ls EXCEPT ![h] = Cut(@, k)]

(* Removing the k-th entry of a list without repetitions is what Without   *)
(* does with it.                                                           *)
LEMMA CutProperties ==
    ASSUME NEW s \in Seq(Item), \A i, j \in 1 .. Len(s) : s[i] = s[j] => i = j,
           NEW k \in 1 .. Len(s)
    PROVE  /\ Cut(s, k) \in Seq(Item) /\ Len(Cut(s, k)) = Len(s) - 1
           /\ \A i \in 1 .. Len(s) - 1 : Cut(s, k)[i] = IF i < k THEN s[i] ELSE s[i + 1]
           /\ Sequences0!Without(s, s[k]) = Cut(s, k)
<1>1. Len(s) \in Nat \ {0} /\ DOMAIN s = 1 .. Len(s) /\ \A i \in 1 .. Len(s) : s[i] \in Item
  BY LenProperties
<1>2. Cut(s, k) \in [1 .. Len(s) - 1 -> Item]
  BY <1>1 DEF Cut
<1>3. Cut(s, k) \in Seq(Item) /\ Len(Cut(s, k)) = Len(s) - 1
  <2> DEFINE m == Len(s) - 1
             w == Cut(s, k)
  <2>1. m \in Nat /\ w \in [1 .. m -> Item]
    BY <1>1, <1>2
  <2> HIDE DEF m, w
  <2>2. w \in Seq(Item) /\ Len(w) = m
    BY <2>1, SeqDef, LenProperties
  <2> QED
    BY <2>2 DEF m, w
<1>4. \A i \in 1 .. Len(s) - 1 : Cut(s, k)[i] = IF i < k THEN s[i] ELSE s[i + 1]
  BY DEF Cut
<1>5. Sequences0!Without(s, s[k]) = Cut(s, k)
  <2> DEFINE at == CHOOSE i \in DOMAIN s : s[i] = s[k]
  <2>1. at = k
    BY <1>1
  <2>2. Sequences0!Without(s, s[k]) = [i \in 1 .. Len(s) - 1 |-> IF i < at THEN s[i] ELSE s[i + 1]]
    BY <1>1 DEF Sequences0!Without
  <2> HIDE DEF at
  <2> QED
    BY <2>1, <2>2 DEF Cut
<1> QED
  BY <1>3, <1>4, <1>5

(* What list_delete leaves is a list again.                                *)
LEMMA WithoutIsSeq ==
    ASSUME NEW s \in Seq(Item), \A i, j \in 1 .. Len(s) : s[i] = s[j] => i = j, NEW n
    PROVE  Sequences0!Without(s, n) \in Seq(Item)
<1>1. DOMAIN s = 1 .. Len(s)
  BY LenProperties
<1>2. CASE \A i \in DOMAIN s : s[i] # n
  BY <1>2 DEF Sequences0!Without
<1>3. ASSUME NEW i \in 1 .. Len(s), s[i] = n
      PROVE  Sequences0!Without(s, n) \in Seq(Item)
  BY <1>3, CutProperties
<1> QED
  BY <1>1, <1>2, <1>3

(* Removing an entry and appending another one may be exchanged.           *)
LEMMA WithoutAppend ==
    ASSUME NEW s \in Seq(Item), \A i, j \in 1 .. Len(s) : s[i] = s[j] => i = j,
           NEW n \in Item, \A i \in 1 .. Len(s) : s[i] # n,
           NEW m, \E i \in 1 .. Len(s) : s[i] = m
    PROVE  Sequences0!Without(Append(s, n), m) = Append(Sequences0!Without(s, m), n)
<1> PICK k \in 1 .. Len(s) : s[k] = m
  OBVIOUS
<1> DEFINE w == Append(s, n)
           l == Len(s)
           c == Cut(s, k)
           d == Cut(w, k)
<1>1. l \in Nat
  BY LenProperties
<1>2. w \in Seq(Item) /\ Len(w) = l + 1 /\ w[l + 1] = n /\ \A i \in 1 .. l : w[i] = s[i]
  BY AppendProperties
<1>3. \A i, j \in 1 .. l + 1 : w[i] = w[j] => i = j
  <2> HIDE DEF w
  <2> QED
    BY <1>1, <1>2
<1>4. /\ c \in Seq(Item) /\ Len(c) = l - 1 /\ Sequences0!Without(s, s[k]) = c
      /\ \A i \in 1 .. l - 1 : c[i] = IF i < k THEN s[i] ELSE s[i + 1]
  BY CutProperties
<1>5. /\ d \in Seq(Item) /\ Len(d) = l /\ Sequences0!Without(w, w[k]) = d
      /\ \A i \in 1 .. l : d[i] = IF i < k THEN w[i] ELSE w[i + 1]
  <2>1. k \in 1 .. Len(w) /\ (l + 1) - 1 = l
    BY <1>1, <1>2
  <2>2. \A i, j \in 1 .. Len(w) : w[i] = w[j] => i = j
    BY <1>2, <1>3
  <2> HIDE DEF w
  <2>3. /\ d \in Seq(Item) /\ Len(d) = Len(w) - 1 /\ Sequences0!Without(w, w[k]) = d
        /\ \A i \in 1 .. Len(w) - 1 : d[i] = IF i < k THEN w[i] ELSE w[i + 1]
    BY <1>2, <2>1, <2>2, CutProperties
  <2> HIDE DEF d, l
  <2> QED
    BY <1>1, <1>2, <2>1, <2>3
<1> HIDE DEF w, l, c, d
<1>6. d = Append(c, n)
  <2> DEFINE e == Append(c, n)
  <2>1. /\ e \in Seq(Item) /\ Len(e) = (l - 1) + 1 /\ e[(l - 1) + 1] = n
        /\ \A i \in 1 .. l - 1 : e[i] = c[i]
    BY <1>4, AppendProperties
  <2> HIDE DEF e
  <2>2. Len(e) = Len(d)
    BY <1>1, <1>5, <2>1
  <2>3. ASSUME NEW i \in 1 .. l
        PROVE  d[i] = e[i]
    <3>1. CASE i = l
      <4>1. ~(i < k) /\ d[i] = w[l + 1]
        BY <1>1, <1>5, <3>1 DEF l
      <4> QED
        BY <1>1, <1>2, <2>1, <3>1, <4>1
    <3>2. CASE i # l
      <4>1. i \in 1 .. l - 1 /\ i \in 1 .. l /\ i + 1 \in 1 .. l
        BY <1>1, <3>2
      <4>2. d[i] = IF i < k THEN s[i] ELSE s[i + 1]
        BY <1>2, <1>5, <4>1
      <4>3. e[i] = IF i < k THEN s[i] ELSE s[i + 1]
        BY <1>4, <2>1, <4>1
      <4> QED
        BY <4>2, <4>3
    <3> QED
      BY <3>1, <3>2
  <2>4. \A i \in 1 .. Len(d) : d[i] = e[i]
    BY <1>5, <2>3
  <2>5. d = e
    BY <1>5, <2>1, <2>2, <2>4, SeqEqual
  <2> QED
    BY <2>5 DEF e
<1>7. w[k] = s[k]
  BY <1>2 DEF l
<1> QED
  BY <1>4, <1>5, <1>6, <1>7 DEF w

(* list_delete of entry number k of list h.                                *)
LEMMA DeleteLinks ==
    ASSUME NEW nx, NEW pv, NEW ls, Links(nx, pv, ls), NEW h \in ListHead,
           NEW n, NEW k, EntryAt(ls, h, k, n)
    PROVE  /\ Links(Deleted(nx, pv, n).next, Deleted(nx, pv, n).prev, CutFrom(ls, h, k))
           /\ Outside(CutFrom(ls, h, k), n)
           /\ Deleted(nx, pv, n).next[n] = nx[n]
<1> DEFINE mx == Deleted(nx, pv, n).next
           qv == Deleted(nx, pv, n).prev
           ms == CutFrom(ls, h, k)
           s  == ls[h]
           w  == Cut(s, k)
           l  == Len(s)
           p  == IF k = 1 THEN h ELSE s[k - 1]
<1>0. k \in 1 .. Len(ls[h]) /\ n = ls[h][k]
  BY DEF EntryAt
<1>1. /\ s \in Seq(Item) /\ l \in Nat \ {0} /\ k \in 1 .. l /\ n = s[k]
      /\ \A i \in 1 .. l : s[i] \in Item /\ s[i] \in Node /\ s[i] # h
      /\ \A i, j \in 1 .. l : s[i] = s[j] => i = j
      /\ Chain(nx, h, s) /\ Back(pv, h, s) /\ h \in Node /\ h \notin Item
      /\ nx \in [Node -> Node] /\ pv \in [Node -> Node] /\ ls \in [ListHead -> Seq(Item)]
  <2>1. /\ s \in Seq(Item) /\ l \in Nat /\ k \in 1 .. l /\ n = s[k]
        /\ \A i \in 1 .. l : s[i] \in Item
        /\ Chain(nx, h, s) /\ Back(pv, h, s) /\ h \in Node /\ h \notin Item
        /\ nx \in [Node -> Node] /\ pv \in [Node -> Node] /\ ls \in [ListHead -> Seq(Item)]
    BY <1>0, LinksFacts
  <2> HIDE DEF s, l
  <2>2. \A i, j \in 1 .. l : s[i] = s[j] => i = j
    BY <2>1 DEF Chain, l
  <2> QED
    BY <2>1, <2>2 DEF Node
<1>2. /\ w \in Seq(Item) /\ Len(w) = l - 1
      /\ \A i \in 1 .. l - 1 : w[i] = IF i < k THEN s[i] ELSE s[i + 1]
  BY <1>1, CutProperties
<1>3. /\ pv[n] = p /\ p \in Node /\ p # n /\ n \in Node
      /\ nx[n] = IF k = l THEN n ELSE s[k + 1]
      /\ nx[h] = s[1] /\ s # <<>>
      /\ \A i \in 1 .. l : nx[s[i]] = IF i = l THEN s[i] ELSE s[i + 1]
      /\ \A i \in 1 .. l : pv[s[i]] = IF i = 1 THEN h ELSE s[i - 1]
  <2>1. s # <<>>
    BY <1>1, EmptySeq
  <2> QED
    BY <1>1, <2>1 DEF Chain, Back
<1> HIDE DEF w, l, s, p
<1>5. /\ mx \in [Node -> Node] /\ qv \in [Node -> Node]
      /\ mx[p] = IF k = l THEN p ELSE s[k + 1]
      /\ \A z \in Node : z # p => mx[z] = nx[z]
      /\ k # l => qv[s[k + 1]] = p
      /\ \A z \in Node : (k = l \/ z # s[k + 1]) => qv[z] = pv[z]
  <2>1. CASE k = l
    <3>1. mx = [nx EXCEPT ![p] = p] /\ qv = pv
      BY <1>3, <2>1 DEF Deleted
    <3> QED
      BY <1>1, <1>3, <2>1, <3>1
  <2>2. CASE k # l
    <3>1. s[k + 1] \in Node /\ s[k + 1] # n
      BY <1>1, <2>2
    <3>2. mx = [nx EXCEPT ![p] = s[k + 1]] /\ qv = [pv EXCEPT ![s[k + 1]] = p]
      BY <1>3, <2>2, <3>1 DEF Deleted
    <3> QED
      BY <1>1, <1>3, <2>2, <3>1, <3>2
  <2> QED
    BY <2>1, <2>2
<1>6. /\ ms \in [ListHead -> Seq(Item)]
      /\ ms[h] = w /\ \A g \in ListHead : g # h => ms[g] = ls[g]
  BY <1>1, <1>2 DEF w, s, CutFrom
<1> HIDE DEF mx, qv, ms
<1>7. Chain(mx, h, w)
  <2>1. \A i \in 1 .. l - 1 : w[i] # h
    BY <1>1, <1>2
  <2>2. ASSUME NEW i \in 1 .. l - 1, NEW j \in 1 .. l - 1, w[i] = w[j]
        PROVE  i = j
    <3>1. PICK a \in 1 .. l : a = (IF i < k THEN i ELSE i + 1) /\ w[i] = s[a]
      BY <1>1, <1>2
    <3>2. PICK b \in 1 .. l : b = (IF j < k THEN j ELSE j + 1) /\ w[j] = s[b]
      BY <1>1, <1>2
    <3>3. a = b
      BY <1>1, <2>2, <3>1, <3>2
    <3> QED
      BY <1>1, <3>1, <3>2, <3>3
  <2>3. mx[h] = IF w = <<>> THEN h ELSE w[1]
    <3>1. w = <<>> <=> l = 1
      BY <1>1, <1>2, EmptySeq
    <3>2. CASE k = 1
      BY <1>1, <1>2, <1>3, <1>5, <3>1, <3>2 DEF p
    <3>3. CASE k # 1
      <4>1. h # p /\ l # 1
        BY <1>1, <3>3 DEF p
      <4>2. w[1] = s[1]
        BY <1>1, <1>2, <3>3, <4>1
      <4> QED
        BY <1>1, <1>3, <1>5, <3>1, <4>1, <4>2
    <3> QED
      BY <3>2, <3>3
  <2>4. ASSUME NEW i \in 1 .. l - 1
        PROVE  mx[w[i]] = IF i = l - 1 THEN w[i] ELSE w[i + 1]
    <3>1. CASE i < k - 1
      <4>1. w[i] = s[i] /\ w[i + 1] = s[i + 1] /\ i # l /\ i # l - 1
        BY <1>1, <1>2, <3>1
      <4>2. s[i] # p /\ s[i] \in Node
        BY <1>1, <3>1 DEF p
      <4> QED
        BY <1>1, <1>3, <1>5, <4>1, <4>2
    <3>2. CASE i = k - 1
      <4>1. w[i] = p
        BY <1>1, <1>2, <3>2 DEF p
      <4>2. k # l => w[i + 1] = s[k + 1]
        BY <1>1, <1>2, <3>2
      <4> QED
        BY <1>1, <1>5, <3>2, <4>1, <4>2
    <3>3. CASE i > k - 1
      <4>1. /\ s[i + 1] # p /\ s[i + 1] \in Node /\ w[i] = s[i + 1]
            /\ i # l - 1 => w[i + 1] = s[i + 2]
        BY <1>1, <1>2, <3>3 DEF p
      <4>2. nx[s[i + 1]] = IF i + 1 = l THEN s[i + 1] ELSE s[i + 2]
        BY <1>1, <1>3
      <4> QED
        BY <1>1, <1>5, <4>1, <4>2
    <3> QED
      BY <1>1, <3>1, <3>2, <3>3
  <2> QED
    BY <1>2, <2>1, <2>2, <2>3, <2>4 DEF Chain
<1>8. Back(qv, h, w)
  <2>1. ASSUME NEW i \in 1 .. l - 1
        PROVE  qv[w[i]] = IF i = 1 THEN h ELSE w[i - 1]
    <3>1. CASE i < k
      <4>1. /\ w[i] = s[i] /\ s[i] \in Node /\ (k # l => s[i] # s[k + 1])
            /\ i # 1 => w[i - 1] = s[i - 1]
        BY <1>1, <1>2, <3>1
      <4> QED
        BY <1>1, <1>3, <1>5, <4>1
    <3>2. CASE i = k
      <4>1. k # l /\ w[i] = s[k + 1] /\ (i # 1 => w[i - 1] = s[k - 1])
        BY <1>1, <1>2, <3>2
      <4> QED
        BY <1>5, <3>2, <4>1 DEF p
    <3>3. CASE i > k
      <4>1. /\ w[i] = s[i + 1] /\ s[i + 1] \in Node /\ s[i + 1] # s[k + 1]
            /\ i # 1 /\ w[i - 1] = s[i]
        BY <1>1, <1>2, <3>3
      <4>2. pv[s[i + 1]] = s[i]
        BY <1>1, <1>3
      <4> QED
        BY <1>5, <4>1, <4>2
    <3> QED
      BY <1>1, <3>1, <3>2, <3>3
  <2> QED
    BY <1>2, <2>1 DEF Back
<1>9. ASSUME NEW g \in ListHead, g # h
      PROVE  Chain(mx, g, ls[g]) /\ Back(qv, g, ls[g])
  <2>1. /\ ls[g] \in Seq(Item) /\ Chain(nx, g, ls[g]) /\ Back(pv, g, ls[g]) /\ g \in Node
        /\ g \notin Item /\ \A i \in 1 .. Len(ls[g]) : ls[g][i] \in Item
    BY LinksFacts
  <2>2. ASSUME NEW i \in 1 .. Len(ls[g])
        PROVE  ls[g][i] # p /\ ls[g][i] \in Node /\ (k # l => ls[g][i] # s[k + 1])
    <3>1. \A j \in 1 .. l : ls[g][i] # s[j]
      BY <1>9, LinksFacts DEF s, l
    <3>2. ls[g][i] # h /\ ls[g][i] \in Node
      BY <1>1, <2>1 DEF Node
    <3> QED
      BY <1>1, <3>1, <3>2 DEF p
  <2>3. g # p
    BY <1>1, <1>9, <2>1 DEF p
  <2>4. Chain(mx, g, ls[g])
    BY <1>5, <2>1, <2>2, <2>3, SameChain
  <2> QED
    BY <1>5, <2>1, <2>2, <2>4 DEF Back
<1>10. ASSUME NEW i \in 1 .. l - 1
       PROVE  w[i] # n /\ \E j \in 1 .. l : w[i] = s[j]
  <2>1. PICK a \in 1 .. l : a = (IF i < k THEN i ELSE i + 1) /\ w[i] = s[a]
    BY <1>1, <1>2
  <2>2. a # k
    BY <1>1, <2>1
  <2> QED
    BY <1>1, <2>1, <2>2
<1>11. ASSUME NEW g \in ListHead, NEW f \in ListHead, g # f,
              NEW i \in 1 .. Len(ms[g]), NEW j \in 1 .. Len(ms[f])
       PROVE  ms[g][i] # ms[f][j]
  <2>1. ASSUME NEW e \in ListHead, e # h, NEW q \in 1 .. Len(ls[e]), NEW m \in 1 .. Len(w)
        PROVE  ls[e][q] # w[m]
    <3>1. \A j_1 \in 1 .. l : ls[e][q] # s[j_1]
      BY <2>1, LinksFacts DEF s, l
    <3> QED
      BY <1>2, <1>10, <3>1
  <2>2. CASE g = h
    BY <1>6, <1>11, <2>1, <2>2
  <2>3. CASE f = h
    BY <1>6, <1>11, <2>1, <2>3
  <2>4. CASE g # h /\ f # h
    BY <1>6, <1>11, <2>4, LinksFacts
  <2> QED
    BY <2>2, <2>3, <2>4
<1>12. \A g \in ListHead : Chain(mx, g, ms[g]) /\ Back(qv, g, ms[g])
  BY <1>6, <1>7, <1>8, <1>9
<1>13. Links(mx, qv, ms)
  BY <1>5, <1>6, <1>11, <1>12 DEF Links
<1>14. Outside(ms, n)
  <2>1. ASSUME NEW g \in ListHead, g # h, NEW i \in 1 .. Len(ls[g])
        PROVE  ls[g][i] # n
    BY <1>1, <2>1, LinksFacts DEF s, l
  <2>2. \A i \in 1 .. Len(w) : w[i] # n
    BY <1>2, <1>10
  <2>3. \A g \in ListHead : \A i \in 1 .. Len(ms[g]) : ms[g][i] # n
    BY <1>6, <2>1, <2>2
  <2> QED
    BY <2>3 DEF Outside
<1>15. mx[n] = nx[n]
  BY <1>3, <1>5
<1> QED
  BY <1>13, <1>14, <1>15 DEF mx, qv, ms

-----------------------------------------------------------------------------
(* The pointer that hardware_timer follows leads through what it has still *)
(* to see, also from an entry that it has deleted.                         *)
LEMMA WalkIsChain ==
    ASSUME NEW nx, NEW pv, NEW ls, Links(nx, pv, ls), NEW t, NEW r, WalkAt(nx, ls, t, r)
    PROVE  t \in Node /\ r \in Seq(Item) /\ Chain(nx, t, r)
<1> DEFINE s == ls[WalkedHead]
           l == Len(s)
<1>1. PICK k \in 0 .. l : /\ Suffix(s, k, r)
                          /\ \/ t = WalkedHead /\ k = 0
                             \/ k # 0 /\ t = s[k]
                             \/ t \in Item /\ Outside(ls, t)
  BY DEF WalkAt
<1>2. /\ s \in Seq(Item) /\ l \in Nat
      /\ \A i \in 1 .. l : s[i] \in Item /\ s[i] # WalkedHead /\ (Outside(ls, t) => s[i] # t)
      /\ \A i, j \in 1 .. l : s[i] = s[j] => i = j
      /\ \A i \in 1 .. l : nx[s[i]] = IF i = l THEN s[i] ELSE s[i + 1]
      /\ WalkedHead \in Node
  BY ListAssumption, LinksFacts DEF Chain, Outside
<1> HIDE DEF s, l
<1>3. /\ r \in Seq(Item) /\ Len(r) = l - k /\ Len(r) \in Nat
      /\ \A i \in 1 .. Len(r) : k + i \in 1 .. l /\ r[i] = s[k + i]
  <2>1. r \in Seq(Item) /\ Len(r) = l - k /\ \A i \in 1 .. Len(r) : r[i] = s[k + i]
    BY <1>1 DEF Suffix, l
  <2> QED
    BY <1>1, <1>2, <2>1, LenProperties
<1>4. t \in Node
  BY <1>1, <1>2 DEF Node
<1>7. ASSUME NEW i \in 1 .. Len(r)
      PROVE  r[i] # t
  <2>1. k + i \in 1 .. l /\ r[i] = s[k + i]
    BY <1>3
  <2>2. s[k + i] # WalkedHead /\ (Outside(ls, t) => s[k + i] # t)
    BY <1>2, <2>1
  <2>3. k # 0 => s[k + i] # s[k]
    <3>1. k # 0 => k \in 1 .. l /\ k + i # k
      BY <1>2, <1>3
    <3> QED
      BY <1>2, <2>1, <3>1
  <2> QED
    BY <1>1, <2>1, <2>2, <2>3
<1>5. ASSUME NEW i \in 1 .. Len(r), NEW j \in 1 .. Len(r), r[i] = r[j]
      PROVE  i = j
  <2>1. k + i = k + j
    BY <1>2, <1>3, <1>5
  <2> QED
    BY <1>1, <1>2, <1>3, <2>1
<1>6. ASSUME NEW i \in 1 .. Len(r)
      PROVE  nx[r[i]] = IF i = Len(r) THEN r[i] ELSE r[i + 1]
  <2>1. nx[s[k + i]] = IF k + i = l THEN s[k + i] ELSE s[k + i + 1]
    BY <1>2, <1>3
  <2>2. i # Len(r) => i + 1 \in 1 .. Len(r) /\ k + (i + 1) = k + i + 1
    <3>1. i \in Nat /\ k \in Nat /\ Len(r) \in Nat /\ i <= Len(r)
      BY <1>2, <1>3
    <3> QED
      BY <3>1
  <2>3. i # Len(r) => r[i + 1] = s[k + i + 1]
    BY <1>3, <2>2
  <2> QED
    BY <1>1, <1>2, <1>3, <2>1, <2>3
<1> QED
  BY <1>3, <1>4, <1>5, <1>6, <1>7 DEF Chain, WalkAt

(* tmp = tmp->next: the walk comes to an entry that is still there.        *)
LEMMA WalkMoves ==
    ASSUME NEW nx, NEW pv, NEW ls, Links(nx, pv, ls), NEW t, NEW r, WalkAt(nx, ls, t, r),
           nx[t] # t
    PROVE  /\ r \in Seq(Item) /\ r # <<>> /\ nx[t] = r[1] /\ Tail(r) \in Seq(Item)
           /\ AtEntry(ls, r[1], Tail(r))
<1> DEFINE s == ls[WalkedHead]
           l == Len(s)
           u == Tail(r)
<1>1. PICK k \in 0 .. l : Suffix(s, k, r)
  BY DEF WalkAt
<1>2. r # <<>> /\ nx[t] = r[1]
  BY DEF WalkAt
<1>3. l \in Nat
  BY ListAssumption, LinksFacts
<1>4. r \in Seq(Item) /\ Len(r) = l - k /\ \A i \in 1 .. Len(r) : r[i] = s[k + i]
  BY <1>1 DEF Suffix
<1>5. Len(r) \in Nat \ {0}
  BY <1>2, <1>4, LenProperties, EmptySeq
<1>6. u \in Seq(Item) /\ Len(u) = Len(r) - 1 /\ \A i \in 1 .. Len(u) : u[i] = r[i + 1]
  BY <1>2, <1>4, <1>5, HeadTailProperties
<1> HIDE DEF s, l, u
<1>7. k + 1 \in 1 .. l /\ r[1] = s[k + 1]
  BY <1>1, <1>3, <1>4, <1>5
<1>8. \A i \in 1 .. Len(u) : u[i] = s[k + 1 + i]
  <2> SUFFICES ASSUME NEW i \in 1 .. Len(u)
               PROVE  u[i] = s[k + 1 + i]
    OBVIOUS
  <2>1. i + 1 \in 1 .. Len(r) /\ k + (i + 1) = k + 1 + i
    BY <1>1, <1>5, <1>6
  <2> QED
    BY <1>4, <1>6, <2>1
<1>9. Suffix(s, k + 1, u)
  BY <1>1, <1>3, <1>4, <1>6, <1>7, <1>8 DEF Suffix, l
<1> QED
  BY <1>2, <1>4, <1>6, <1>7, <1>9 DEF AtEntry, s, l, u

(* Then it is a walk.                                                      *)
LEMMA EntryIsWalk ==
    ASSUME NEW nx, NEW pv, NEW ls, Links(nx, pv, ls), NEW t, NEW r, AtEntry(ls, t, r)
    PROVE  t \in Item /\ WalkAt(nx, ls, t, r)
<1> DEFINE s == ls[WalkedHead]
           l == Len(s)
<1>1. PICK k \in 1 .. l : t = s[k] /\ Suffix(s, k, r)
  BY DEF AtEntry
<1>2. /\ l \in Nat /\ nx[s[k]] = (IF k = l THEN s[k] ELSE s[k + 1]) /\ s[k] \in Item
  BY ListAssumption, LinksFacts DEF Chain
<1>3. r = <<>> <=> k = l
  BY <1>1, <1>2, EmptySeq DEF Suffix
<1>4. k # l => r[1] = s[k + 1]
  BY <1>1, <1>2 DEF Suffix
<1> HIDE DEF s
<1>5. k \in 0 .. l /\ k # 0
  BY <1>2
<1> QED
  BY <1>1, <1>2, <1>3, <1>4, <1>5 DEF WalkAt, s

(* A callback that appends an entry is seen by the walk.                   *)
LEMMA EntryAppend ==
    ASSUME NEW nx, NEW pv, NEW ls, Links(nx, pv, ls), NEW t, NEW r, AtEntry(ls, t, r),
           NEW n \in Item
    PROVE  AtEntry(AtEnd(ls, WalkedHead, n), t, Append(r, n))
<1> DEFINE s == ls[WalkedHead]
           l == Len(s)
           w == Append(s, n)
           u == Append(r, n)
           ms == AtEnd(ls, WalkedHead, n)
<1>1. PICK k \in 1 .. l : t = s[k] /\ Suffix(s, k, r)
  BY DEF AtEntry
<1>2. s \in Seq(Item) /\ l \in Nat /\ ms[WalkedHead] = w
  BY ListAssumption, LinksFacts DEF AtEnd
<1>3. r \in Seq(Item) /\ Len(r) = l - k /\ \A i \in 1 .. Len(r) : r[i] = s[k + i]
  BY <1>1 DEF Suffix
<1>4. /\ w \in Seq(Item) /\ Len(w) = l + 1 /\ w[l + 1] = n /\ \A i \in 1 .. l : w[i] = s[i]
      /\ u \in Seq(Item) /\ Len(u) = Len(r) + 1 /\ u[Len(r) + 1] = n
      /\ \A i \in 1 .. Len(r) : u[i] = r[i]
  <2>1. w \in Seq(Item) /\ Len(w) = l + 1 /\ w[l + 1] = n /\ \A i \in 1 .. l : w[i] = s[i]
    BY <1>2, AppendProperties
  <2>2. /\ u \in Seq(Item) /\ Len(u) = Len(r) + 1 /\ u[Len(r) + 1] = n
        /\ \A i \in 1 .. Len(r) : u[i] = r[i]
    <3>1. r \in Seq(Item)
      BY <1>3
    <3> QED
      BY <3>1, AppendProperties
  <2> QED
    BY <2>1, <2>2
<1> HIDE DEF s, l, w, u, ms
<1>5. \A i \in 1 .. Len(u) : u[i] = w[k + i]
  <2> SUFFICES ASSUME NEW i \in 1 .. Len(u)
               PROVE  u[i] = w[k + i]
    OBVIOUS
  <2>1. CASE i = Len(r) + 1
    BY <1>1, <1>2, <1>3, <1>4, <2>1
  <2>2. CASE i # Len(r) + 1
    <3>1. i \in 1 .. Len(r) /\ k + i \in 1 .. l
      BY <1>1, <1>2, <1>3, <1>4, <2>2
    <3> QED
      BY <1>3, <1>4, <3>1
  <2> QED
    BY <2>1, <2>2
<1>6. k \in 1 .. Len(w) /\ t = w[k] /\ Suffix(w, k, u)
  BY <1>1, <1>2, <1>3, <1>4, <1>5 DEF Suffix
<1> QED
  BY <1>2, <1>6 DEF AtEntry, u, ms

(* An entry that is deleted under the walk still leads to the next one.    *)
LEMMA EntryDelete ==
    ASSUME NEW nx, NEW pv, NEW ls, Links(nx, pv, ls), NEW t, NEW r, AtEntry(ls, t, r),
           NEW d, d = Deleted(nx, pv, t)
    PROVE  /\ Links(d.next, d.prev, Removed(ls, WalkedHead, t))
           /\ WalkAt(d.next, Removed(ls, WalkedHead, t), t, r)
<1> DEFINE s == ls[WalkedHead]
           l == Len(s)
           ms == Removed(ls, WalkedHead, t)
<1>1. PICK k \in 1 .. l : t = s[k] /\ Suffix(s, k, r)
  BY DEF AtEntry
<1>2. /\ s \in Seq(Item) /\ l \in Nat /\ \A i, j \in 1 .. l : s[i] = s[j] => i = j
      /\ ls \in [ListHead -> Seq(Item)] /\ s[k] \in Item
  BY ListAssumption, LinksFacts DEF Chain
<1> DEFINE w == Cut(s, k)
<1>3. /\ w \in Seq(Item) /\ Len(w) = l - 1 /\ Sequences0!Without(s, t) = w
      /\ \A i \in 1 .. l - 1 : w[i] = IF i < k THEN s[i] ELSE s[i + 1]
  BY <1>1, <1>2, CutProperties
<1>4. ms = [ls EXCEPT ![WalkedHead] = w] /\ ms[WalkedHead] = w
  BY <1>2, <1>3, ListAssumption DEF Removed
<1>5. Links(d.next, d.prev, ms) /\ Outside(ms, t) /\ d.next[t] = nx[t]
  <2>1. /\ ms = CutFrom(ls, WalkedHead, k)
        /\ WalkedHead \in ListHead /\ EntryAt(ls, WalkedHead, k, t)
    BY <1>1, <1>4, ListAssumption DEF CutFrom, EntryAt
  <2> HIDE DEF s, l, w, ms
  <2>2. Outside(CutFrom(ls, WalkedHead, k), t)
    BY <2>1, DeleteLinks
  <2>3. Deleted(nx, pv, t).next[t] = nx[t]
    BY <2>1, DeleteLinks
  <2>4. Links(Deleted(nx, pv, t).next, Deleted(nx, pv, t).prev, CutFrom(ls, WalkedHead, k))
    BY <2>1, DeleteLinks
  <2> QED
    BY <2>1, <2>2, <2>3, <2>4
<1>6. r \in Seq(Item) /\ Len(r) = l - k /\ \A i \in 1 .. Len(r) : r[i] = s[k + i]
  BY <1>1 DEF Suffix
<1>7. nx[t] = IF r = <<>> THEN t ELSE r[1]
  BY EntryIsWalk DEF WalkAt
<1> HIDE DEF s, l, w, ms
<1>8. \A i \in 1 .. Len(r) : r[i] = w[(k - 1) + i]
  <2> SUFFICES ASSUME NEW i \in 1 .. Len(r)
               PROVE  r[i] = w[(k - 1) + i]
    OBVIOUS
  <2>1. /\ (k - 1) + i \in 1 .. l - 1 /\ ~((k - 1) + i < k)
        /\ ((k - 1) + i) + 1 = k + i
    BY <1>1, <1>2, <1>6
  <2> QED
    BY <1>3, <1>6, <2>1
<1>9. k - 1 \in 0 .. Len(w) /\ Len(r) = Len(w) - (k - 1)
  BY <1>1, <1>2, <1>3, <1>6
<1>10. Suffix(w, k - 1, r)
  BY <1>6, <1>8, <1>9 DEF Suffix
<1>11. t \in Item
  BY <1>1, <1>2
<1> QED
  BY <1>4, <1>5, <1>7, <1>9, <1>10, <1>11 DEF WalkAt, ms
-----------------------------------------------------------------------------
(* The lists and the rest of the walk that the pointers stand for.         *)
Lists == [h \in ListHead |-> Reached(h)]

Rest == IF tmp = Nowhere THEN <<>> ELSE Reached(tmp)

Represents(ls, r) ==
    /\ Links(next, prev, ls)
    /\ tmp \in Node \cup {Nowhere}
    /\ tmp = Nowhere => r = <<>>
    /\ tmp # Nowhere => WalkAt(next, ls, tmp, r)

(* The inductive invariant: the pointers represent some sequences, which   *)
(* are then the ones that can be reached along them.                       *)
ListInv == Represents(Lists, Rest)

(* They are the only ones.                                                 *)
LEMMA RepresentsOne ==
    \A ls, r : Represents(ls, r) => Lists = ls /\ Rest = r /\ ListInv
<1> SUFFICES ASSUME NEW ls, NEW r, Represents(ls, r)
             PROVE  Lists = ls /\ Rest = r /\ ListInv
  OBVIOUS
<1>1. Lists = ls
  <2>1. ls \in [ListHead -> Seq(Item)]
    BY DEF Represents, Links
  <2>2. \A h \in ListHead : Reached(h) = ls[h]
    BY LinksFacts, ReachedIs DEF Represents
  <2> QED
    BY <2>1, <2>2 DEF Lists
<1>2. Rest = r
  BY WalkIsChain, ReachedIs DEF Represents, Rest
<1> QED
  BY <1>1, <1>2 DEF ListInv

(* The same for the pointers after a step.                                 *)
RepresentsNext(ls, r) ==
    /\ Links(next', prev', ls)
    /\ tmp' \in Node \cup {Nowhere}
    /\ tmp' = Nowhere => r = <<>>
    /\ tmp' # Nowhere => WalkAt(next', ls, tmp', r)

(* Pointers that give other sequences after a step determine the abstract  *)
(* lists of the next state.                                                *)
LEMMA NextRepresents ==
    \A ls, r : RepresentsNext(ls, r) => Lists' = ls /\ Rest' = r /\ ListInv'
<1>1. (\A ls, r : Represents(ls, r) => Lists = ls /\ Rest = r /\ ListInv)'
  BY RepresentsOne, PTL
<1> QED
  BY <1>1 DEF Represents, RepresentsNext

(* What the invariant says of the lists and of the walk.                   *)
LEMMA InvFacts ==
    ASSUME ListInv
    PROVE  /\ Links(next, prev, Lists)
           /\ tmp \in Node \cup {Nowhere}
           /\ tmp = Nowhere => Rest = <<>>
           /\ tmp # Nowhere => WalkAt(next, Lists, tmp, Rest)
           /\ Rest \in Seq(Item)
           /\ tmp # Nowhere => (IsListLast(tmp) <=> Rest = <<>>)
           /\ \A h \in ListHead :
                 /\ Lists[h] = Reached(h)
                 /\ IsListLast(h) <=> Lists[h] = <<>>
                 /\ LastOf(h) = Hop(h, Lists[h], Len(Lists[h]))
           /\ \A n \in Item : Unused(n) <=> Outside(Lists, n)
<1>1. /\ Links(next, prev, Lists) /\ tmp \in Node \cup {Nowhere}
      /\ tmp = Nowhere => Rest = <<>>
      /\ tmp # Nowhere => WalkAt(next, Lists, tmp, Rest)
  BY DEF ListInv, Represents
<1>2. \A h \in ListHead : Lists[h] = Reached(h)
  BY DEF Lists
<1>3. ASSUME NEW h \in ListHead
      PROVE  /\ IsListLast(h) <=> Lists[h] = <<>>
             /\ LastOf(h) = Hop(h, Lists[h], Len(Lists[h]))
  <2>1. Chain(next, h, Lists[h]) /\ h \in Node /\ Lists[h] \in Seq(Item)
        /\ Len(Lists[h]) \in Nat /\ (Lists[h] = <<>> <=> Len(Lists[h]) = 0)
    BY <1>1, LinksFacts
  <2>2. IsListLast(h) <=> Lists[h] = <<>>
    BY <2>1 DEF Chain, IsListLast
  <2> QED
    BY <2>1, <2>2, ReachedIs
<1>4. ASSUME tmp # Nowhere
      PROVE  Rest \in Seq(Item) /\ (IsListLast(tmp) <=> Rest = <<>>)
  <2>1. Chain(next, tmp, Rest) /\ Rest \in Seq(Item)
    BY <1>1, <1>4, WalkIsChain
  <2>2. Len(Rest) \in Nat /\ (Rest = <<>> <=> Len(Rest) = 0)
    BY <2>1, LenProperties, EmptySeq
  <2> QED
    BY <2>1, <2>2 DEF Chain, IsListLast
<1>5. <<>> \in Seq(Item)
  OBVIOUS
<1>6. ASSUME NEW n \in Item
      PROVE  Unused(n) <=> Outside(Lists, n)
  <2>1. \A h \in ListHead : DOMAIN Lists[h] = 1 .. Len(Lists[h])
    BY <1>1, LinksFacts
  <2> QED
    BY <1>2, <2>1 DEF Unused, InList, Outside
<1> QED
  BY <1>1, <1>2, <1>3, <1>4, <1>5, <1>6

-----------------------------------------------------------------------------
(* A node is free in the abstract lists exactly if no pointer list has it. *)
LEMMA SequencesFree ==
    ASSUME NEW n
    PROVE  Sequences0!Free(n) <=> Unused(n)
BY DEF Sequences0!Free, Sequences0!In, Unused, InList

(* Every operation keeps the invariant and is an operation on sequences.   *)
LEMMA InsertSpecStep ==
    ASSUME ListInv, NEW h \in ListHead, NEW n \in Item, InsertSpec(h, n)
    PROVE  ListInv' /\ Sequences0!PutFirst(h, n)
<1> DEFINE ls == AtFront(Lists, h, n)
<1>1. /\ Links(next, prev, Lists) /\ Outside(Lists, n)
      /\ tmp = Nowhere /\ tmp' = Nowhere /\ Rest = <<>>
      /\ IsListLast(h) <=> Lists[h] = <<>>
  BY InvFacts DEF InsertSpec
<1>2. Lists[h] \in Seq(Item) /\ Lists \in [ListHead -> Seq(Item)]
  BY <1>1, LinksFacts
<1>3. Links(next', prev', ls)
  <2>1. CASE IsListLast(h)
    <3>1. Hop(h, Lists[h], Len(Lists[h])) = h
      BY <1>1, <2>1 DEF Hop
    <3>2. next' = LastNext(next, h, n) /\ prev' = LastPrev(prev, h, n)
      BY <2>1 DEF InsertSpec, InsertedLast, LastNext, LastPrev
    <3>3. ls = AtEnd(Lists, h, n)
      <4>1. Append(Lists[h], n) = <<n>> \o Lists[h]
        BY <1>1, <2>1
      <4> QED
        BY <1>2, <4>1 DEF AtFront, AtEnd
    <3> HIDE DEF ls
    <3>4. Links(LastNext(next, h, n), LastPrev(prev, h, n), AtEnd(Lists, h, n))
      BY <1>1, <3>1, AppendLinks
    <3> QED
      BY <3>2, <3>3, <3>4
  <2>2. CASE ~IsListLast(h)
    <3>1. next' = FirstNext(next, h, n) /\ prev' = FirstPrev(next, prev, h, n)
      BY <2>2 DEF InsertSpec, FirstNext, FirstPrev
    <3>2. Links(FirstNext(next, h, n), FirstPrev(next, prev, h, n), AtFront(Lists, h, n))
      BY <1>1, <2>2, HeadLinks
    <3> QED
      BY <3>1, <3>2
  <2> QED
    BY <2>1, <2>2
<1>4. RepresentsNext(ls, <<>>)
  BY <1>1, <1>3 DEF RepresentsNext
<1>5. Lists' = ls /\ Rest' = <<>> /\ ListInv'
  BY <1>4, NextRepresents
<1>6. Sequences0!Free(n)
  BY <1>1, InvFacts, SequencesFree
<1> QED
  BY <1>1, <1>5, <1>6 DEF Sequences0!PutFirst, AtFront, Lists, Rest

(* list_insert_behind(h, n) appends n to the sequence of h.                *)
LEMMA InsertBehindStep ==
    ASSUME ListInv, NEW h \in ListHead, NEW n \in Item, tmp = Nowhere, InsertBehind(h, n)
    PROVE  ListInv' /\ Sequences0!PutLast(h, n)
<1> DEFINE ls == AtEnd(Lists, h, n)
           p == LastOf(h)
<1>1. /\ Links(next, prev, Lists) /\ Outside(Lists, n)
      /\ tmp' = Nowhere /\ Rest = <<>> /\ p = Hop(h, Lists[h], Len(Lists[h]))
  BY InvFacts DEF InsertBehind
<1>2. next' = LastNext(next, p, n) /\ prev' = LastPrev(prev, p, n)
  BY DEF InsertBehind, InsertedLast, LastNext, LastPrev
<1>3. Links(LastNext(next, p, n), LastPrev(prev, p, n), ls)
  <2> HIDE DEF p
  <2> QED
    BY <1>1, AppendLinks
<1>4. RepresentsNext(ls, <<>>)
  BY <1>1, <1>2, <1>3 DEF RepresentsNext
<1>5. Lists' = ls /\ Rest' = <<>> /\ ListInv'
  BY <1>4, NextRepresents
<1>6. Sequences0!Free(n)
  BY <1>1, InvFacts, SequencesFree
<1> QED
  BY <1>1, <1>5, <1>6 DEF Sequences0!PutLast, AtEnd, Lists, Rest

(* list_delete takes the node out of its sequence, wherever it stands.     *)
LEMMA ListDeleteStep ==
    ASSUME ListInv, NEW n \in Item, ListDelete(n)
    PROVE  ListInv' /\ Sequences0!Remove(n)
<1>1. /\ Links(next, prev, Lists) /\ ~Outside(Lists, n)
      /\ tmp = Nowhere /\ tmp' = Nowhere /\ Rest = <<>>
  BY InvFacts DEF ListDelete
<1>2. PICK h \in ListHead : \E k \in 1 .. Len(Lists[h]) : n = Lists[h][k]
  BY <1>1 DEF Outside
<1> PICK k \in 1 .. Len(Lists[h]) : n = Lists[h][k]
  BY <1>2
<1>3. /\ Lists[h] \in Seq(Item) /\ DOMAIN Lists[h] = 1 .. Len(Lists[h])
      /\ Lists \in [ListHead -> Seq(Item)]
      /\ \A i, j \in 1 .. Len(Lists[h]) : Lists[h][i] = Lists[h][j] => i = j
  BY <1>1, LinksFacts DEF Chain
<1> DEFINE ls == CutFrom(Lists, h, k)
<1>4. Links(Deleted(next, prev, n).next, Deleted(next, prev, n).prev, ls)
  <2>1. EntryAt(Lists, h, k, n)
    BY <1>2 DEF EntryAt
  <2> QED
    BY <1>1, <2>1, DeleteLinks
<1>5. RepresentsNext(ls, <<>>)
  BY <1>1, <1>4 DEF RepresentsNext, ListDelete
<1>6. Lists' = ls /\ Rest' = <<>> /\ ListInv'
  BY <1>5, NextRepresents
<1>7. ls = [Lists EXCEPT ![h] = Sequences0!Without(@, n)]
  <2>1. Sequences0!Without(Lists[h], n) = Cut(Lists[h], k)
    BY <1>2, <1>3, CutProperties
  <2> QED
    BY <2>1 DEF CutFrom
<1>8. Sequences0!In(n, h)
  BY <1>2, <1>3 DEF Sequences0!In, Lists
<1> QED
  BY <1>1, <1>6, <1>7, <1>8 DEF Sequences0!Remove, Lists, Rest

(* Entering the walk of hardware_timer.                                    *)
LEMMA WalkBeginStep ==
    ASSUME ListInv, WalkBegin
    PROVE  ListInv' /\ Sequences0!Begin
<1> DEFINE s == Lists[WalkedHead]
<1>1. /\ Links(next, prev, Lists) /\ WalkedHead \in ListHead
      /\ tmp = Nowhere /\ tmp' = WalkedHead /\ WalkedHead # Nowhere
      /\ WalkedHead \in Node
  BY InvFacts, ListAssumption DEF WalkBegin, Node
<1>2. /\ s \in Seq(Item) /\ Len(s) \in Nat /\ (s = <<>> <=> Len(s) = 0)
      /\ Chain(next, WalkedHead, s)
  BY <1>1, LinksFacts
<1>3. Suffix(s, 0, s)
  BY <1>2 DEF Suffix
<1>4. WalkAt(next, Lists, WalkedHead, s)
  BY <1>2, <1>3 DEF WalkAt, Chain
<1>5. RepresentsNext(Lists, s)
  BY <1>1, <1>4 DEF RepresentsNext, WalkBegin
<1>6. Lists' = Lists /\ Rest' = s /\ ListInv'
  BY <1>5, NextRepresents
<1> QED
  BY <1>1, <1>6 DEF Sequences0!Begin, Lists, Rest

(* The walk ends where it meets the head again, with all entries seen.     *)
LEMMA WalkEndStep ==
    ASSUME ListInv, WalkEnd
    PROVE  ListInv' /\ Sequences0!End
<1>1. /\ Links(next, prev, Lists) /\ tmp # Nowhere /\ Rest = <<>>
      /\ tmp' = Nowhere /\ next' = next /\ prev' = prev
  BY InvFacts DEF WalkEnd
<1>2. RepresentsNext(Lists, <<>>)
  BY <1>1 DEF RepresentsNext
<1>3. Lists' = Lists /\ Rest' = <<>> /\ ListInv'
  BY <1>2, NextRepresents
<1> QED
  BY <1>1, <1>3 DEF Sequences0!End, Lists, Rest

-----------------------------------------------------------------------------
(* The next entry of the walk, which each action below comes to.           *)
LEMMA WalkOnFacts ==
    ASSUME ListInv, WalkOn
    PROVE  /\ Links(next, prev, Lists) /\ tmp # Nowhere
           /\ Rest \in Seq(Item) /\ Rest # <<>> /\ next[tmp] = Rest[1]
           /\ Rest[1] \in Item /\ Rest[1] \in Node /\ Rest[1] # Nowhere
           /\ Tail(Rest) \in Seq(Item) /\ AtEntry(Lists, Rest[1], Tail(Rest))
           /\ Lists \in [ListHead -> Seq(Item)] /\ Lists[WalkedHead] \in Seq(Item)
           /\ \A i, j \in 1 .. Len(Lists[WalkedHead]) :
                  Lists[WalkedHead][i] = Lists[WalkedHead][j] => i = j
<1>1. /\ Links(next, prev, Lists) /\ tmp # Nowhere /\ next[tmp] # tmp
      /\ WalkAt(next, Lists, tmp, Rest)
  BY InvFacts DEF WalkOn, IsListLast
<1>2. /\ Rest \in Seq(Item) /\ Rest # <<>> /\ next[tmp] = Rest[1]
      /\ Tail(Rest) \in Seq(Item) /\ AtEntry(Lists, Rest[1], Tail(Rest))
  BY <1>1, WalkMoves
<1>3. Rest[1] \in Item
  BY <1>1, <1>2, EntryIsWalk
<1>4. /\ Lists \in [ListHead -> Seq(Item)] /\ Lists[WalkedHead] \in Seq(Item)
      /\ \A i, j \in 1 .. Len(Lists[WalkedHead]) :
             Lists[WalkedHead][i] = Lists[WalkedHead][j] => i = j
  BY <1>1, LinksFacts, ListAssumption DEF Chain
<1> QED
  BY <1>1, <1>2, <1>3, <1>4, ListAssumption DEF Node

(* Its callback appends n.                                                 *)
LEMMA CallbackFacts ==
    ASSUME ListInv, WalkOn, NEW n \in Item, Unused(n), NEW p, p = LastOf(WalkedHead)
    PROVE  /\ Links(LastNext(next, p, n), LastPrev(prev, p, n), AtEnd(Lists, WalkedHead, n))
           /\ AtEntry(AtEnd(Lists, WalkedHead, n), Rest[1], Append(Tail(Rest), n))
<1>1. /\ Links(next, prev, Lists) /\ Outside(Lists, n) /\ WalkedHead \in ListHead
      /\ p = Hop(WalkedHead, Lists[WalkedHead], Len(Lists[WalkedHead]))
  BY InvFacts, ListAssumption
<1>2. AtEntry(Lists, Rest[1], Tail(Rest))
  BY WalkOnFacts
<1>3. Links(LastNext(next, p, n), LastPrev(prev, p, n), AtEnd(Lists, WalkedHead, n))
  BY <1>1, AppendLinks
<1>4. AtEntry(AtEnd(Lists, WalkedHead, n), Rest[1], Append(Tail(Rest), n))
  BY <1>1, <1>2, EntryAppend
<1> QED
  BY <1>3, <1>4

(* What a walk to the next entry is in the sequences.                      *)
LEMMA SeeStep ==
    ASSUME tmp # Nowhere, tmp' # Nowhere, Rest # <<>>,
           NEW added \in {<<>>} \cup {<<m>> : m \in {i \in Item : Sequences0!Free(i)}},
           Rest' = Tail(Rest) \o added,
           NEW kept \in {Lists[WalkedHead],
                         Sequences0!Without(Lists[WalkedHead], Rest[1])},
           Lists' = [Lists EXCEPT ![WalkedHead] = kept \o added]
    PROVE  Sequences0!See
BY DEF Sequences0!See, Lists, Rest

(* An entry that stays is passed.                                          *)
LEMMA WalkKeepStep ==
    ASSUME ListInv, WalkKeep
    PROVE  ListInv' /\ Sequences0!See
<1> DEFINE u == Tail(Rest)
<1>1. WalkOn /\ tmp' = next[tmp] /\ next' = next /\ prev' = prev
  BY DEF WalkKeep
<1>2. WalkAt(next, Lists, Rest[1], u)
  BY <1>1, WalkOnFacts, EntryIsWalk
<1>3. RepresentsNext(Lists, u)
  BY <1>1, <1>2, WalkOnFacts DEF RepresentsNext
<1>4. Lists' = Lists /\ Rest' = u /\ ListInv' /\ tmp' # Nowhere
  BY <1>1, <1>3, NextRepresents, WalkOnFacts
<1>5. Lists[WalkedHead] \o <<>> = Lists[WalkedHead] /\ u \o <<>> = u
  BY <1>1, WalkOnFacts, ConcatEmptySeq
<1>6. Lists' = [Lists EXCEPT ![WalkedHead] = Lists[WalkedHead] \o <<>>]
  BY <1>1, <1>4, <1>5, WalkOnFacts
<1>7. Rest' = Tail(Rest) \o <<>>
  BY <1>4, <1>5
<1> QED
  BY <1>1, <1>4, <1>6, <1>7, WalkOnFacts, SeeStep

(* The walk goes on from an entry that it deletes, by the pointer it kept. *)
LEMMA WalkDeleteStep ==
    ASSUME ListInv, WalkDelete
    PROVE  ListInv' /\ Sequences0!See
<1> DEFINE u  == Tail(Rest)
           ls == Removed(Lists, WalkedHead, Rest[1])
<1>1. /\ WalkOn /\ tmp' = Rest[1]
      /\ next' = Deleted(next, prev, Rest[1]).next
      /\ prev' = Deleted(next, prev, Rest[1]).prev
  BY WalkOnFacts DEF WalkDelete
<1>2. /\ Links(Deleted(next, prev, Rest[1]).next, Deleted(next, prev, Rest[1]).prev, ls)
      /\ WalkAt(Deleted(next, prev, Rest[1]).next, ls, Rest[1], u)
  BY <1>1, WalkOnFacts, EntryDelete
<1>3. RepresentsNext(ls, u)
  BY <1>1, <1>2, WalkOnFacts DEF RepresentsNext
<1>4. Lists' = ls /\ Rest' = u /\ ListInv' /\ tmp' # Nowhere
  BY <1>1, <1>3, NextRepresents, WalkOnFacts
<1> DEFINE kept == Sequences0!Without(Lists[WalkedHead], Rest[1])
<1>5. kept \o <<>> = kept /\ u \o <<>> = u
  <2>1. kept \in Seq(Item) /\ u \in Seq(Item)
    BY <1>1, WalkOnFacts, WithoutIsSeq
  <2> QED
    BY <2>1, ConcatEmptySeq
<1>6. Lists' = [Lists EXCEPT ![WalkedHead] = kept \o <<>>]
  BY <1>4, <1>5 DEF Removed
<1>7. Rest' = Tail(Rest) \o <<>>
  BY <1>4, <1>5
<1> QED
  BY <1>1, <1>4, <1>6, <1>7, WalkOnFacts, SeeStep

(* A callback that appends an entry, when the entry visited stays.         *)
LEMMA WalkCallbackKeepStep ==
    ASSUME ListInv, NEW n \in Item, WalkCallbackKeep(n)
    PROVE  ListInv' /\ Sequences0!See
<1> DEFINE u  == Append(Tail(Rest), n)
           ls == AtEnd(Lists, WalkedHead, n)
           p  == LastOf(WalkedHead)
<1>1. /\ WalkOn /\ tmp' = Rest[1] /\ Unused(n)
      /\ next' = LastNext(next, p, n) /\ prev' = LastPrev(prev, p, n)
  BY WalkOnFacts DEF WalkCallbackKeep, InsertedLast, LastNext, LastPrev
<1>2. Links(LastNext(next, p, n), LastPrev(prev, p, n), ls) /\ AtEntry(ls, Rest[1], u)
  BY <1>1, CallbackFacts
<1> HIDE DEF p, ls
<1>3. WalkAt(LastNext(next, p, n), ls, Rest[1], u)
  BY <1>2, EntryIsWalk
<1>4. RepresentsNext(ls, u)
  BY <1>1, <1>2, <1>3, WalkOnFacts DEF RepresentsNext
<1>5. Lists' = ls /\ Rest' = u /\ ListInv' /\ tmp' # Nowhere
  BY <1>1, <1>4, NextRepresents, WalkOnFacts
<1>6. /\ Append(Lists[WalkedHead], n) = Lists[WalkedHead] \o <<n>>
      /\ Append(Tail(Rest), n) = Tail(Rest) \o <<n>>
  BY <1>1, WalkOnFacts, AppendIsConcat
<1>7. Lists' = [Lists EXCEPT ![WalkedHead] = Lists[WalkedHead] \o <<n>>]
  BY <1>5, <1>6 DEF AtEnd, ls
<1>8. Rest' = Tail(Rest) \o <<n>>
  BY <1>5, <1>6
<1>9. Sequences0!Free(n)
  BY <1>1, SequencesFree
<1> QED
  BY <1>1, <1>5, <1>7, <1>8, <1>9, WalkOnFacts, SeeStep

(* The same when the entry visited is deleted.                             *)
LEMMA WalkCallbackDeleteStep ==
    ASSUME ListInv, NEW n \in Item, WalkCallbackDelete(n)
    PROVE  ListInv' /\ Sequences0!See
<1> DEFINE u  == Append(Tail(Rest), n)
           ms == AtEnd(Lists, WalkedHead, n)
           p  == LastOf(WalkedHead)
           nx == LastNext(next, p, n)
           pv == LastPrev(prev, p, n)
           ls == Removed(ms, WalkedHead, Rest[1])
           s  == Lists[WalkedHead]
           kept == Sequences0!Without(s, Rest[1])
<1>1. /\ WalkOn /\ tmp' = Rest[1] /\ Unused(n)
      /\ next' = Deleted(nx, pv, Rest[1]).next
      /\ prev' = Deleted(nx, pv, Rest[1]).prev
  BY WalkOnFacts DEF WalkCallbackDelete, LastNext, LastPrev
<1>2. Links(nx, pv, ms) /\ AtEntry(ms, Rest[1], u)
  BY <1>1, CallbackFacts
<1> HIDE DEF p, ms, nx, pv
<1>3. /\ Links(Deleted(nx, pv, Rest[1]).next, Deleted(nx, pv, Rest[1]).prev, ls)
      /\ WalkAt(Deleted(nx, pv, Rest[1]).next, ls, Rest[1], u)
  BY <1>2, EntryDelete
<1>4. RepresentsNext(ls, u)
  BY <1>1, <1>3, WalkOnFacts DEF RepresentsNext
<1>5. Lists' = ls /\ Rest' = u /\ ListInv' /\ tmp' # Nowhere
  BY <1>1, <1>4, NextRepresents, WalkOnFacts
<1>6. ls = [Lists EXCEPT ![WalkedHead] = Sequences0!Without(Append(s, n), Rest[1])]
  BY <1>1, WalkOnFacts, ListAssumption DEF Removed, AtEnd, ms
<1>7. Sequences0!Without(Append(s, n), Rest[1]) = Append(kept, n)
  <2>1. \E i \in 1 .. Len(s) : s[i] = Rest[1]
    BY <1>1, WalkOnFacts DEF AtEntry
  <2>2. \A i \in 1 .. Len(s) : s[i] # n
    BY <1>1, InvFacts, ListAssumption DEF Outside
  <2> QED
    BY <1>1, <2>1, <2>2, WalkOnFacts, WithoutAppend
<1>8. kept \in Seq(Item) /\ Tail(Rest) \in Seq(Item)
  BY <1>1, WalkOnFacts, WithoutIsSeq
<1>9. Append(kept, n) = kept \o <<n>> /\ Append(Tail(Rest), n) = Tail(Rest) \o <<n>>
  BY <1>8, AppendIsConcat
<1>10. Lists' = [Lists EXCEPT ![WalkedHead] = kept \o <<n>>]
  BY <1>5, <1>6, <1>7, <1>9
<1>11. Rest' = Tail(Rest) \o <<n>>
  BY <1>5, <1>9
<1>12. Sequences0!Free(n)
  BY <1>1, SequencesFree
<1> QED
  BY <1>1, <1>5, <1>10, <1>11, <1>12, WalkOnFacts, SeeStep

-----------------------------------------------------------------------------
(* list_init gives empty sequences.                                        *)
LEMMA ListInitEstablishesInv ==
    ListInit => ListInv /\ Sequences0!Init
<1> SUFFICES ASSUME ListInit
             PROVE  ListInv /\ Sequences0!Init
  OBVIOUS
<1> DEFINE ls == [h \in ListHead |-> <<>>]
<1>1. /\ next \in [Node -> Node] /\ prev \in [Node -> Node] /\ tmp = Nowhere
      /\ \A n \in Node : next[n] = n
  BY DEF ListInit
<1>2. /\ ls \in [ListHead -> Seq(Item)]
      /\ \A h \in ListHead : ls[h] = <<>> /\ Len(ls[h]) = 0
  OBVIOUS
<1> HIDE DEF ls
<1>3. \A h \in ListHead : Chain(next, h, ls[h]) /\ Back(prev, h, ls[h])
  BY <1>1, <1>2 DEF Chain, Back, Node
<1>4. Links(next, prev, ls)
  BY <1>1, <1>2, <1>3 DEF Links
<1>5. Represents(ls, <<>>)
  BY <1>1, <1>4 DEF Represents
<1>6. Lists = ls /\ Rest = <<>> /\ ListInv
  BY <1>5, RepresentsOne
<1> QED
  BY <1>1, <1>6 DEF Sequences0!Init, ls, Lists, Rest

(* Every step on pointers is a step on sequences, and keeps the invariant. *)
LEMMA ListNextIsSequences ==
    ListInv /\ [ListNext]_listVars => ListInv' /\ [Sequences0!Next]_(Sequences0!vars)
<1> SUFFICES ASSUME ListInv, [ListNext]_listVars
             PROVE  ListInv' /\ [Sequences0!Next]_(Sequences0!vars)
  OBVIOUS
<1>1. CASE WalkBegin
  BY <1>1, WalkBeginStep DEF Sequences0!Next
<1>2. CASE WalkKeep
  BY <1>2, WalkKeepStep DEF Sequences0!Next
<1>3. CASE WalkDelete
  BY <1>3, WalkDeleteStep DEF Sequences0!Next
<1>4. CASE WalkEnd
  BY <1>4, WalkEndStep DEF Sequences0!Next
<1>5. ASSUME NEW n \in Item, ListDelete(n)
      PROVE  ListInv' /\ Sequences0!Next
  BY <1>5, ListDeleteStep DEF Sequences0!Next
<1>6. ASSUME NEW n \in Item, WalkCallbackDelete(n)
      PROVE  ListInv' /\ Sequences0!Next
  BY <1>6, WalkCallbackDeleteStep DEF Sequences0!Next
<1>7. ASSUME NEW n \in Item, WalkCallbackKeep(n)
      PROVE  ListInv' /\ Sequences0!Next
  BY <1>7, WalkCallbackKeepStep DEF Sequences0!Next
<1>8. ASSUME NEW n \in Item, NEW h \in ListHead, InsertSpec(h, n)
      PROVE  ListInv' /\ Sequences0!Next
  BY <1>8, InsertSpecStep DEF Sequences0!Next
<1>9. ASSUME NEW n \in Item, NEW h \in ListHead, tmp = Nowhere, InsertBehind(h, n)
      PROVE  ListInv' /\ Sequences0!Next
  BY <1>9, InsertBehindStep DEF Sequences0!Next
<1>10. CASE UNCHANGED listVars
  <2>1. next' = next /\ prev' = prev /\ tmp' = tmp
    BY <1>10 DEF listVars
  <2>2. RepresentsNext(Lists, Rest)
    BY <2>1 DEF RepresentsNext, ListInv, Represents
  <2>3. Lists' = Lists /\ Rest' = Rest /\ ListInv'
    BY <2>2, NextRepresents
  <2> QED
    BY <2>1, <2>3 DEF Sequences0!vars, Lists, Rest
<1> QED
  BY <1>1, <1>2, <1>3, <1>4, <1>5, <1>6, <1>7, <1>8, <1>9, <1>10 DEF ListNext

(* In lists that represent sequences, prev leads back where next came      *)
(* from.                                                                   *)
LEMMA InvPrevUndoesNext ==
    ListInv => PrevUndoesNext
<1> SUFFICES ASSUME ListInv, NEW h \in ListHead, NEW i \in DOMAIN Reached(h)
             PROVE  prev[Reached(h)[i]] = IF i = 1 THEN h ELSE Reached(h)[i - 1]
  BY DEF PrevUndoesNext
<1>1. Links(next, prev, Lists) /\ Lists[h] = Reached(h)
  BY InvFacts
<1>2. Back(prev, h, Reached(h)) /\ DOMAIN Reached(h) = 1 .. Len(Reached(h))
  BY <1>1, LinksFacts
<1> QED
  BY <1>2 DEF Back

(* kernel/list.c: list_insert, list_insert_spec, list_insert_behind and    *)
(* list_delete, on one list or several and under the walk of               *)
(* hardware_timer, implement sequences: prev undoes next along every list, *)
(* every insertion and deletion is the one on the sequence, and the walk   *)
(* sees every entry once although it deletes the entry it stands on and    *)
(* callbacks append others.                                                *)
THEOREM ListsAreSequences == ListSpec => ListIsSequence
BY ListInitEstablishesInv, ListNextIsSequences, InvPrevUndoesNext, PTL
   DEF ListSpec, ListIsSequence, ImplementsSequences, Sequences0!Spec
=============================================================================
