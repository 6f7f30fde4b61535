---------------------------- MODULE UipNetProofs -----------------------------
(***************************************************************************)
(* The parts of uIP below TCP, for tables of any size, any set of          *)
(* addresses and clocks of any width: neighbours, ARP, UDP connections and *)
(* address configuration, forwarding, reassembly.                          *)
(***************************************************************************)
EXTENDS UipArith, UipReass, UipIp, UipArp, UipNeighbor, UipFw, FiniteSetTheorems, SequenceTheorems,
        WellFoundedInduction, TLAPS

(* A set of natural numbers has a smallest one.                            *)
LEMMA SmallestOf ==
    ASSUME NEW S \in SUBSET Nat, S # {}
    PROVE  \E x \in S : \A y \in S : x <= y
<1> DEFINE R == OpToRel(<, Nat)
<1>1. IsWellFoundedOn(R, Nat)
  BY NatLessThanWellFounded, Zenon
<1>2. \A x, y \in Nat : y < x => <<y, x>> \in R
  BY DEF OpToRel
<1> HIDE DEF R
<1>3. PICK x \in S : \A y \in S : ~(<<y, x>> \in R)
  BY <1>1, WFMin
<1>4. \A y \in S : ~(y < x)
  BY <1>2, <1>3
<1> QED
  BY <1>3, <1>4

(* A set of numbers with a bound has a largest one.                        *)
LEMMA LargestOf ==
    ASSUME NEW m \in Nat, NEW S \in SUBSET (0 .. m), S # {}
    PROVE  \E x \in S : \A y \in S : y <= x
<1> DEFINE T == {y \in 0 .. m : m - y \in S}
<1>1. PICK s \in S : TRUE
  OBVIOUS
<1>2. m - s \in T /\ T \in SUBSET Nat
  BY <1>1
<1> HIDE DEF T
<1>3. PICK x \in T : \A y \in T : x <= y
  BY <1>2, SmallestOf
<1>4. x \in 0 .. m /\ m - x \in S
  BY <1>3 DEF T
<1>5. ASSUME NEW y \in S
      PROVE  y <= m - x
  <2>1. m - y \in T
    BY DEF T
  <2> QED
    BY <1>3, <1>4, <2>1
<1> QED
  BY <1>4, <1>5

(* Of the entries of a table one comes first and one last, some have the   *)
(* smallest and some the largest of their numbers.                         *)
LEMMA ExtremesOf ==
    ASSUME NEW n \in Nat, NEW S \in SUBSET (1 .. n), S # {},
           NEW m \in Nat, NEW f, \A i \in S : f[i] \in 0 .. m
    PROVE  /\ \E i \in S : \A j \in S : i <= j
           /\ \E i \in S : \A j \in S : j <= i
           /\ \E i \in S : \A j \in S : f[i] <= f[j]
           /\ \E i \in S : \A j \in S : f[j] <= f[i]
<1>1. \E i \in S : \A j \in S : i <= j
  BY SmallestOf
<1>2. \E i \in S : \A j \in S : j <= i
  <2>1. S \in SUBSET (0 .. n)
    OBVIOUS
  <2> QED
    BY <2>1, LargestOf
<1> DEFINE T == {f[i] : i \in S}
<1>3. T \in SUBSET (0 .. m) /\ T \in SUBSET Nat /\ T # {}
  <2>1. PICK i \in S : TRUE
    OBVIOUS
  <2>2. f[i] \in T
    BY <2>1
  <2>3. \A x \in T : x \in 0 .. m
    OBVIOUS
  <2>4. \A x \in 0 .. m : x \in Nat
    OBVIOUS
  <2> HIDE DEF T
  <2> QED
    BY <2>2, <2>3, <2>4
<1>4. \E x \in T : \A y \in T : x <= y
  <2> HIDE DEF T
  <2> QED
    BY <1>3, SmallestOf
<1>5. \E x \in T : \A y \in T : y <= x
  <2> HIDE DEF T
  <2> QED
    BY <1>3, LargestOf
<1>6. \A j \in S : f[j] \in T
  OBVIOUS
<1>7. \A x \in T : \E i \in S : x = f[i]
  OBVIOUS
<1> HIDE DEF T
<1>8. \E i \in S : \A j \in S : f[i] <= f[j]
  BY <1>4, <1>6, <1>7
<1>9. \E i \in S : \A j \in S : f[j] <= f[i]
  BY <1>5, <1>6, <1>7
<1> QED
  BY <1>1, <1>2, <1>8, <1>9

(* Going round a ring of k numbers meets each of them once.                *)
LEMMA RoundTheRing ==
    ASSUME NEW k \in Nat \ {0}, NEW a \in 0 .. k - 1
    PROVE  /\ \A n \in 1 .. k : (a + n) % k \in 0 .. k - 1
           /\ \A n, m \in 1 .. k : (a + n) % k = (a + m) % k => n = m
<1>1. ASSUME NEW n \in 1 .. k
      PROVE  (a + n) % k = IF a + n < k THEN a + n ELSE a + n - k
  <2>1. a + n < k => (a + n) % k = a + n
    OBVIOUS
  <2>2. a + n >= k => (a + n) % k = a + n - k
    OBVIOUS
  <2> QED
    BY <2>1, <2>2
<1> QED
  BY <1>1

(* The n-th number of the ring from a on, counted from b, is the first     *)
(* that no f[u] equals.                                                    *)
FoundAt(n, k, a, b, S, f) ==
    /\ \A u \in S : f[u] # b + ((a + n) % k)
    /\ \A m \in 1 .. n - 1 : \E u \in S : f[u] = b + ((a + m) % k)

(* The search for a port: where fewer things have a number than there are  *)
(* numbers in the ring, going round it comes to a number that nothing has. *)
LEMMA SearchEnds ==
    ASSUME NEW k \in Nat \ {0}, NEW a \in 0 .. k - 1, NEW b \in Nat,
           NEW S, IsFiniteSet(S), Cardinality(S) < k, NEW f
    PROVE  \E n \in 1 .. k : FoundAt(n, k, a, b, S, f)
<1> DEFINE At(n) == b + ((a + n) % k)
           good == {n \in 1 .. k : \A u \in S : f[u] # At(n)}
<1>1. \A n, m \in 1 .. k : At(n) = At(m) => n = m
  <2> SUFFICES ASSUME NEW n \in 1 .. k, NEW m \in 1 .. k, At(n) = At(m)
               PROVE  n = m
    OBVIOUS
  <2> DEFINE r == (a + n) % k
             s == (a + m) % k
  <2>1. r \in 0 .. k - 1 /\ s \in 0 .. k - 1 /\ b + r = b + s
    BY RoundTheRing
  <2>2. r = s
    <3> HIDE DEF r, s
    <3> QED
      BY <2>1
  <2> QED
    BY <2>2, RoundTheRing
<1> HIDE DEF At
<1>2. good # {}
  <2> SUFFICES ASSUME good = {}
               PROVE  FALSE
    OBVIOUS
  <2> DEFINE h == [n \in 1 .. k |-> CHOOSE u \in S : f[u] = At(n)]
  <2>1. ASSUME NEW n \in 1 .. k
        PROVE  h[n] \in S /\ f[h[n]] = At(n)
    <3>1. \E u \in S : f[u] = At(n)
      OBVIOUS
    <3> QED
      BY <3>1
  <2>2. h \in [1 .. k -> S]
    BY <2>1
  <2>3. IsFiniteSet(1 .. k) /\ Cardinality(1 .. k) = k
    BY FS_Interval
  <2>4. Cardinality(S) < Cardinality(1 .. k)
    BY <2>3
  <2>5. PICK n, m \in 1 .. k : n # m /\ h[n] = h[m]
    <3> HIDE DEF h
    <3> QED
      BY <2>2, <2>3, <2>4, FS_PigeonHole
  <2> HIDE DEF h
  <2> QED
    BY <1>1, <2>1, <2>5
<1>3. PICK n \in good : \A m \in good : n <= m
  <2>1. good \in SUBSET Nat
    OBVIOUS
  <2> HIDE DEF good
  <2> QED
    BY <1>2, <2>1, SmallestOf
<1>4. ASSUME NEW m \in 1 .. n - 1
      PROVE  \E u \in S : f[u] = At(m)
  <2>1. m \in 1 .. k /\ ~(n <= m)
    BY <1>3
  <2> QED
    BY <1>3, <2>1
<1>5. n \in 1 .. k /\ \A u \in S : f[u] # At(n)
  BY <1>3
<1> QED
  BY <1>4, <1>5 DEF At, FoundAt

-----------------------------------------------------------------------------
(* uip-neighbor.c: an address has been silent as long as the youngest of   *)
(* the entries that it fills.                                              *)
NbInv ==
    /\ entries \in [NbSlots -> [ip : NbAddr \cup {NoAddr}, addr : NbLink \cup {NoAddr},
                                time : 0 .. MAX_TIME]]
    /\ heard \in [NbAddr -> 0 .. MAX_TIME]
    /\ \A i \in NbSlots, ip \in NbAddr : entries[i].ip = ip => heard[ip] <= entries[i].time
    /\ \A i \in NbSlots, ip \in NbAddr : entries[i].ip = ip =>
          \E j \in NbSlots : entries[j].ip = ip /\ entries[j].time = heard[ip]

(* The search for the first entry of the neighbour table finds one of      *)
(* those asked for.                                                        *)
LEMMA LowestIs ==
    ASSUME NEW S \in SUBSET NbSlots, S # {}
    PROVE  Lowest(S) \in S
<1>1. \E i \in S : \A j \in S : i <= j
  BY SmallestOf, NbAssumption DEF NbSlots
<1> QED
  BY <1>1 DEF Lowest

(* The entry that uip_neighbor_add fills is one of the oldest.             *)
LEMMA VictimIsOldest ==
    ASSUME NbInv
    PROVE  /\ Victim(entries) \in NbSlots
           /\ \A j \in NbSlots : entries[j].time <= entries[Victim(entries)].time
<1> DEFINE unused == {i \in NbSlots : entries[i].time = MAX_TIME}
           f == [i \in NbSlots |-> entries[i].time]
           oldest == {i \in NbSlots : \A j \in NbSlots : entries[j].time <= entries[i].time}
<1>1. CASE unused # {}
  <2>1. Victim(entries) = Lowest(unused)
    BY <1>1 DEF Victim
  <2>2. Lowest(unused) \in unused
    BY <1>1, LowestIs
  <2>3. Victim(entries) \in NbSlots /\ entries[Victim(entries)].time = MAX_TIME
    BY <2>1, <2>2 DEF NbInv
  <2>4. \A j \in NbSlots : entries[j].time \in 0 .. MAX_TIME
    BY DEF NbInv
  <2> QED
    BY <2>3, <2>4, NbAssumption
<1>2. CASE unused = {}
  <2>1. Victim(entries) = Lowest(oldest)
    BY <1>2 DEF Victim
  <2>2. oldest # {}
    <3>1. NbEntries \in Nat /\ NbSlots = 1 .. NbEntries /\ NbSlots # {} /\ MAX_TIME \in Nat
      BY NbAssumption DEF NbSlots
    <3>2. \A i \in NbSlots : f[i] \in 0 .. MAX_TIME
      BY DEF NbInv
    <3>3. \E i \in NbSlots : \A j \in NbSlots : f[j] <= f[i]
      <4> HIDE DEF f
      <4> QED
        BY <3>1, <3>2, ExtremesOf
    <3>4. PICK i \in NbSlots : \A j \in NbSlots : f[j] <= f[i]
      BY <3>3
    <3>5. i \in oldest
      BY <3>4
    <3> QED
      BY <3>5
  <2>3. Lowest(oldest) \in oldest
    BY <2>2, LowestIs
  <2> QED
    BY <2>1, <2>3 DEF NbInv
<1> QED
  BY <1>1, <1>2

(* uip_neighbor_add: what the filled entry held before is still told by    *)
(* another entry, or was silent longest.                                   *)
LEMMA AddKeepsInv ==
    ASSUME NbInv, NEW ip \in NbAddr, NEW l \in NbLink, NbAdd(ip, l)
    PROVE  NbInv'
<1> DEFINE v == Victim(entries)
           e == [ip |-> ip, addr |-> l, time |-> 0]
<1>1. v \in NbSlots /\ \A j \in NbSlots : entries[j].time <= entries[v].time
  BY VictimIsOldest
<1>2. entries' = [entries EXCEPT ![v] = e] /\ heard' = [heard EXCEPT ![ip] = 0]
  BY DEF NbAdd
<1>3. /\ e \in [ip : NbAddr \cup {NoAddr}, addr : NbLink \cup {NoAddr}, time : 0 .. MAX_TIME]
      /\ e.ip = ip /\ e.time = 0 /\ MAX_TIME \in Nat
  BY NbAssumption
<1> HIDE DEF v, e
<1>4. /\ \A i \in NbSlots : entries'[i] = IF i = v THEN e ELSE entries[i]
      /\ \A a \in NbAddr : heard'[a] = IF a = ip THEN 0 ELSE heard[a]
      /\ heard' \in [NbAddr -> 0 .. MAX_TIME]
      /\ entries' \in [NbSlots -> [ip : NbAddr \cup {NoAddr}, addr : NbLink \cup {NoAddr},
                                    time : 0 .. MAX_TIME]]
  BY <1>1, <1>2, <1>3 DEF NbInv
<1>5. /\ \A i \in NbSlots : entries[i].time \in 0 .. MAX_TIME
      /\ \A a \in NbAddr : heard[a] \in 0 .. MAX_TIME
      /\ \A i \in NbSlots : entries'[i].time \in 0 .. MAX_TIME
  BY <1>4 DEF NbInv
<1>6. ASSUME NEW i \in NbSlots, NEW a \in NbAddr, entries'[i].ip = a
      PROVE  heard'[a] <= entries'[i].time
  BY <1>3, <1>4, <1>5, <1>6 DEF NbInv
<1>7. ASSUME NEW i \in NbSlots, NEW a \in NbAddr, entries'[i].ip = a
      PROVE  \E j \in NbSlots : entries'[j].ip = a /\ entries'[j].time = heard'[a]
  <2>1. CASE a = ip
    BY <1>1, <1>3, <1>4, <2>1
  <2>2. CASE a # ip
    <3>1. i # v /\ entries[i].ip = a /\ heard'[a] = heard[a]
      BY <1>3, <1>4, <1>7, <2>2
    <3>2. PICK j \in NbSlots : entries[j].ip = a /\ entries[j].time = heard[a]
      BY <3>1 DEF NbInv
    <3>3. heard[a] <= entries[i].time
      BY <3>1 DEF NbInv
    <3>4. CASE j = v
      <4>1. entries[i].time = heard[a]
        BY <1>1, <1>5, <3>2, <3>3, <3>4
      <4> QED
        BY <1>4, <3>1, <4>1
    <3>5. CASE j # v
      BY <1>4, <3>1, <3>2, <3>5
    <3> QED
      BY <3>4, <3>5
  <2> QED
    BY <2>1, <2>2
<1> QED
  BY <1>4, <1>6, <1>7 DEF NbInv

(* uip_neighbor_periodic and update age and renew both alike.              *)
LEMMA AgesKeepInv ==
    ASSUME NbInv, NbPeriodic \/ \E ip \in NbAddr : NbUpdate(ip)
    PROVE  NbInv'
<1> MAX_TIME \in Nat
  BY NbAssumption
<1>1. CASE NbPeriodic
  <2>1. /\ \A i \in NbSlots : /\ entries'[i].ip = entries[i].ip
                              /\ entries'[i].time = IF entries[i].time < MAX_TIME
                                                    THEN entries[i].time + 1 ELSE entries[i].time
        /\ \A a \in NbAddr : heard'[a] = IF heard[a] < MAX_TIME THEN heard[a] + 1 ELSE heard[a]
        /\ heard' \in [NbAddr -> 0 .. MAX_TIME]
        /\ entries' \in [NbSlots -> [ip : NbAddr \cup {NoAddr}, addr : NbLink \cup {NoAddr},
                                      time : 0 .. MAX_TIME]]
    BY <1>1 DEF NbInv, NbPeriodic
  <2>2. /\ \A i \in NbSlots : entries[i].time \in 0 .. MAX_TIME
        /\ \A a \in NbAddr : heard[a] \in 0 .. MAX_TIME
    BY DEF NbInv
  <2>3. ASSUME NEW i \in NbSlots, NEW a \in NbAddr, entries'[i].ip = a
        PROVE  /\ heard'[a] <= entries'[i].time
               /\ \E j \in NbSlots : entries'[j].ip = a /\ entries'[j].time = heard'[a]
    <3>1. entries[i].ip = a
      BY <2>1, <2>3
    <3>2. heard[a] <= entries[i].time
      BY <3>1 DEF NbInv
    <3>3. PICK j \in NbSlots : entries[j].ip = a /\ entries[j].time = heard[a]
      BY <3>1 DEF NbInv
    <3>4. entries'[j].ip = a /\ entries'[j].time = heard'[a]
      BY <2>1, <2>2, <3>3
    <3>5. heard'[a] <= entries'[i].time
      BY <2>1, <2>2, <3>2
    <3> QED
      BY <3>4, <3>5
  <2> QED
    BY <2>1, <2>3 DEF NbInv
<1>2. ASSUME NEW ip \in NbAddr, NbUpdate(ip)
      PROVE  NbInv'
  <2> DEFINE l == Lowest(Known(ip))
  <2>1. l \in NbSlots /\ entries[l].ip = ip
    BY <1>2, LowestIs DEF NbUpdate, Known
  <2>2. entries' = [entries EXCEPT ![l].time = 0] /\ heard' = [heard EXCEPT ![ip] = 0]
    BY <1>2 DEF NbUpdate
  <2> HIDE DEF l
  <2>3. /\ \A i \in NbSlots : /\ entries'[i].ip = entries[i].ip
                              /\ entries'[i].time = IF i = l THEN 0 ELSE entries[i].time
        /\ \A a \in NbAddr : heard'[a] = IF a = ip THEN 0 ELSE heard[a]
        /\ heard' \in [NbAddr -> 0 .. MAX_TIME]
        /\ entries' \in [NbSlots -> [ip : NbAddr \cup {NoAddr}, addr : NbLink \cup {NoAddr},
                                      time : 0 .. MAX_TIME]]
    BY <2>1, <2>2 DEF NbInv
  <2>4. /\ \A i \in NbSlots : entries[i].time \in 0 .. MAX_TIME
        /\ \A a \in NbAddr : heard[a] \in 0 .. MAX_TIME
    BY DEF NbInv
  <2>5. ASSUME NEW i \in NbSlots, NEW a \in NbAddr, entries'[i].ip = a
        PROVE  /\ heard'[a] <= entries'[i].time
               /\ \E j \in NbSlots : entries'[j].ip = a /\ entries'[j].time = heard'[a]
    <3>1. entries[i].ip = a
      BY <2>3, <2>5
    <3>2. heard[a] <= entries[i].time
      BY <3>1 DEF NbInv
    <3>3. PICK j \in NbSlots : entries[j].ip = a /\ entries[j].time = heard[a]
      BY <3>1 DEF NbInv
    <3>4. CASE a = ip
      BY <2>1, <2>3, <2>4, <3>4
    <3>5. CASE a # ip
      BY <2>1, <2>3, <3>1, <3>2, <3>3, <3>5
    <3> QED
      BY <3>4, <3>5
  <2> QED
    BY <2>3, <2>5 DEF NbInv
<1> QED
  BY <1>1, <1>2

(* uip_neighbor_init, periodic, add, lookup and update keep ages and       *)
(* histories in step.                                                      *)
LEMMA NbKeepsInv ==
    NbInv /\ [NbNext]_nbVars => NbInv'
<1> SUFFICES ASSUME NbInv, [NbNext]_nbVars
             PROVE  NbInv'
  OBVIOUS
<1>1. CASE NbPeriodic
  BY <1>1, AgesKeepInv
<1>2. ASSUME NEW ip \in NbAddr, NEW l \in NbLink, NbAdd(ip, l)
      PROVE  NbInv'
  BY <1>2, AddKeepsInv
<1>3. ASSUME NEW ip \in NbAddr, NbUpdate(ip)
      PROVE  NbInv'
  BY <1>3, AgesKeepInv
<1>4. ASSUME NEW ip \in NbAddr, NbLookup(ip)
      PROVE  NbInv'
  BY <1>4 DEF NbInv, NbLookup
<1>5. CASE UNCHANGED nbVars
  BY <1>5 DEF NbInv, nbVars
<1> QED
  BY <1>1, <1>2, <1>3, <1>4, <1>5 DEF NbNext

(* Only uip_neighbor_add forgets an address: that of the entry it fills.   *)
LEMMA ForgottenWasVictim ==
    ASSUME NbInv, [NbNext]_nbVars, NEW ip \in NbAddr, Known(ip) # {}, Known(ip)' = {}
    PROVE  entries[Victim(entries)].ip = ip /\ \A i \in Known(ip) : i = Victim(entries)
<1> SUFFICES ASSUME NEW i \in Known(ip)
             PROVE  i = Victim(entries)
  BY DEF Known
<1>1. i \in NbSlots /\ entries[i].ip = ip /\ entries'[i].ip # ip
  BY DEF Known
<1>2. CASE NbPeriodic
  BY <1>1, <1>2 DEF NbInv, NbPeriodic
<1>3. ASSUME NEW a \in NbAddr, NEW l \in NbLink, NbAdd(a, l)
      PROVE  i = Victim(entries)
  BY <1>1, <1>3 DEF NbInv, NbAdd
<1>4. ASSUME NEW a \in NbAddr, NbUpdate(a)
      PROVE  FALSE
  BY <1>1, <1>4 DEF NbInv, NbUpdate
<1>5. ASSUME NEW a \in NbAddr, NbLookup(a)
      PROVE  FALSE
  BY <1>1, <1>5 DEF NbLookup
<1>6. CASE UNCHANGED nbVars
  BY <1>1, <1>6 DEF nbVars
<1> QED
  BY <1>2, <1>3, <1>4, <1>5, <1>6 DEF NbNext

(* An address that is forgotten was silent longest.                        *)
LEMMA ReplacesLongestSilent ==
    ASSUME NbInv, [NbNext]_nbVars, NEW ip \in NbAddr, Known(ip) # {}, Known(ip)' = {},
           NEW other \in NbAddr, Known(other) # {}
    PROVE  heard[other] <= heard[ip]
<1>1. PICK i \in NbSlots : entries[i].ip = ip
  BY DEF Known
<1>2. PICK j \in NbSlots : entries[j].ip = ip /\ entries[j].time = heard[ip]
  BY <1>1 DEF NbInv
<1>3. j = Victim(entries)
  BY <1>2, ForgottenWasVictim DEF Known
<1>4. PICK k \in NbSlots : entries[k].ip = other
  BY DEF Known
<1>5. heard[other] <= entries[k].time /\ entries[k].time <= entries[j].time
  BY <1>3, <1>4, VictimIsOldest DEF NbInv
<1>6. heard[other] \in Int /\ entries[k].time \in Int /\ entries[j].time \in Int
  BY NbAssumption DEF NbInv
<1> QED
  BY <1>2, <1>5, <1>6

\* uip_neighbor_add, which fills another entry for an address that it knows: no neighbour is
\* forgotten while another one is known that has been silent longer, for a table of any size.
THEOREM NeighborsReplaced == NbSpec => LongestSilentGoes
<1>1. NbInit => NbInv
  BY NbAssumption DEF NbInit, NbInv
<1>2. NbInv /\ [NbNext]_nbVars =>
        [\A ip \in NbAddr : Known(ip) # {} /\ Known(ip)' = {} =>
            \A other \in NbAddr : Known(other) # {} => heard[other] <= heard[ip]]_nbVars
  BY ReplacesLongestSilent
<1> QED
  BY <1>1, <1>2, NbKeepsInv, PTL DEF NbSpec, LongestSilentGoes

-----------------------------------------------------------------------------
(* uip_arp.c.  A neighbour is in the table once at most, with the link     *)
(* address that it announced last, and the byte clock tells how long ago   *)
(* that was for as long as it is less than ARP_MAXAGE periods.             *)
Entry == [ip : Locals \cup {Unset}, eth : Links \cup {Unset}, time : 0 .. TimeMod - 1]

Holds(i, a) == arptable[i].ip = a

ArpInv ==
    /\ arptable \in [Slots -> Entry]
    /\ arptime \in 0 .. TimeMod - 1
    /\ link \in [Neighbours -> Links \cup {Unset}]
    /\ silent \in [Neighbours -> 0 .. ARP_MAXAGE]
    /\ \A i \in Slots, a \in Neighbours : Holds(i, a) =>
          /\ arptable[i].eth = link[a]
          /\ silent[a] < ARP_MAXAGE => arptime - arptable[i].time \in {silent[a], silent[a] - TimeMod}
    /\ \A i, j \in Slots, a \in Neighbours : Holds(i, a) /\ Holds(j, a) => i = j
    /\ FrameReachesNextHop

(* The search for the first entry of the ARP table finds one of those      *)
(* asked for.                                                              *)
LEMMA FirstIs ==
    ASSUME NEW S \in SUBSET Slots, S # {}
    PROVE  First(S) \in S
<1>1. \E i \in S : \A j \in S : i <= j
  BY SmallestOf, ArpAssumption DEF Slots
<1> QED
  BY <1>1 DEF First

(* The search for the oldest entry (tmpage in uip_arp_update) ends with an *)
(* entry of the table.                                                     *)
LEMMA OldestIs ==
    ASSUME ArpInv
    PROVE  Oldest(arptable, arptime) \in Slots
<1> DEFINE S == {i \in Slots : \A j \in Slots : \/ arptime - arptable[j].time <= 0
                                                \/ arptable[j].time >= arptable[i].time}
           f == [i \in Slots |-> arptable[i].time]
<1>1. /\ TableSize \in Nat /\ Slots = 1 .. TableSize /\ Slots # {}
      /\ TimeMod - 1 \in Nat /\ \A i \in Slots : f[i] \in 0 .. TimeMod - 1
  <2>1. TableSize \in Nat \ {0} /\ TimeMod - 1 \in Nat
    BY ArpAssumption
  <2>2. Slots = 1 .. TableSize /\ Slots # {}
    BY <2>1 DEF Slots
  <2>3. \A i \in Slots : f[i] \in 0 .. TimeMod - 1
    BY DEF ArpInv, Entry
  <2> QED
    BY <2>1, <2>2, <2>3
<1>2. PICK i \in Slots : \A j \in Slots : f[i] <= f[j]
  <2> HIDE DEF f
  <2> QED
    BY <1>1, ExtremesOf
<1>3. i \in S
  <2>1. \A j \in Slots : f[j] = arptable[j].time /\ f[j] \in Int
    BY <1>1
  <2> HIDE DEF f
  <2> QED
    BY <1>2, <2>1
<1>4. Oldest(arptable, arptime) = First(S)
  BY DEF Oldest
<1>5. S \in SUBSET Slots /\ S # {}
  BY <1>3
<1> HIDE DEF S
<1> QED
  BY <1>4, <1>5, FirstIs

(* uip_arp_update fills an entry of the table, for a neighbour that is in  *)
(* it the one that the neighbour has.                                      *)
LEMMA EntryForIs ==
    ASSUME ArpInv, NEW ip
    PROVE  /\ EntryFor(arptable, arptime, ip) \in Slots
           /\ ip \in Neighbours => \A i \in Slots : Holds(i, ip) => i = EntryFor(arptable, arptime, ip)
<1> DEFINE same == {i \in Slots : arptable[i].ip \in Neighbours /\ arptable[i].ip = ip}
           free == {i \in Slots : ~Taken(arptable[i])}
           e == EntryFor(arptable, arptime, ip)
<1>1. e = IF same # {} THEN First(same) ELSE IF free # {} THEN First(free)
          ELSE Oldest(arptable, arptime)
  BY DEF EntryFor
<1>2. same # {} => First(same) \in same
  BY FirstIs
<1>3. free # {} => First(free) \in free
  BY FirstIs
<1>4. e \in Slots
  BY <1>1, <1>2, <1>3, OldestIs
<1>5. ASSUME ip \in Neighbours, NEW i \in Slots, Holds(i, ip)
      PROVE  i = e
  <2>1. i \in same
    BY <1>5 DEF Holds
  <2>2. e \in Slots /\ Holds(e, ip)
    BY <1>1, <1>2, <2>1 DEF Holds
  <2> HIDE DEF e
  <2> QED
    BY <1>5, <2>2 DEF ArpInv
<1> QED
  BY <1>4, <1>5

(* uip_arp_update, whichever entry it takes, leaves each address at most   *)
(* once in the table.                                                      *)
LEMMA ArpUpdateKeepsInv ==
    ASSUME ArpInv, NEW ip \in Locals \cup {Unset}, NEW eth \in Links, ArpUpdate(ip, eth),
           arptime' = arptime, FrameReachesNextHop'
    PROVE  ArpInv'
<1> DEFINE e == EntryFor(arptable, arptime, ip)
           new == [ip |-> ip, eth |-> eth, time |-> arptime]
<1>1. e \in Slots /\ (ip \in Neighbours => \A i \in Slots : Holds(i, ip) => i = e)
  BY EntryForIs
<1>2. /\ arptable' = [arptable EXCEPT ![e] = new]
      /\ link' = IF ip \in Neighbours THEN [link EXCEPT ![ip] = eth] ELSE link
      /\ silent' = IF ip \in Neighbours THEN [silent EXCEPT ![ip] = 0] ELSE silent
  BY DEF ArpUpdate
<1>3. new \in Entry /\ new.ip = ip /\ new.eth = eth /\ new.time = arptime
  BY DEF ArpInv, Entry
<1> HIDE DEF e, new
<1>4. /\ arptable' \in [Slots -> Entry]
      /\ arptable'[e] = new /\ \A i \in Slots : i # e => arptable'[i] = arptable[i]
  BY <1>1, <1>2, <1>3 DEF ArpInv
<1>5. /\ link' \in [Neighbours -> Links \cup {Unset}]
      /\ silent' \in [Neighbours -> 0 .. ARP_MAXAGE]
      /\ \A a \in Neighbours : link'[a] = (IF a = ip THEN eth ELSE link[a])
      /\ \A a \in Neighbours : silent'[a] = (IF a = ip THEN 0 ELSE silent[a])
  BY <1>2, ArpAssumption DEF ArpInv
<1>6. ASSUME NEW i \in Slots, NEW a \in Neighbours, Holds(i, a)'
      PROVE  /\ a = ip => i = e
             /\ a # ip => i # e /\ Holds(i, a)
  BY <1>1, <1>3, <1>4, <1>6 DEF Holds
<1>7. ASSUME NEW i \in Slots, NEW a \in Neighbours, Holds(i, a)'
      PROVE  /\ arptable'[i].eth = link'[a]
             /\ silent'[a] < ARP_MAXAGE =>
                   arptime' - arptable'[i].time \in {silent'[a], silent'[a] - TimeMod}
  <2>1. CASE a = ip
    <3>1. arptable'[i] = new /\ link'[a] = eth /\ silent'[a] = 0
      BY <1>4, <1>5, <1>6, <1>7, <2>1
    <3>2. arptime \in Int
      BY DEF ArpInv
    <3> QED
      BY <1>3, <3>1, <3>2
  <2>2. CASE a # ip
    <3>1. Holds(i, a) /\ arptable'[i] = arptable[i] /\ link'[a] = link[a] /\ silent'[a] = silent[a]
      BY <1>4, <1>5, <1>6, <1>7, <2>2
    <3> QED
      BY <3>1 DEF ArpInv
  <2> QED
    BY <2>1, <2>2
<1>8. ASSUME NEW i \in Slots, NEW j \in Slots, NEW a \in Neighbours, Holds(i, a)', Holds(j, a)'
      PROVE  i = j
  <2>1. CASE a = ip
    BY <1>6, <1>8, <2>1
  <2>2. CASE a # ip
    <3>1. Holds(i, a) /\ Holds(j, a)
      BY <1>6, <1>8, <2>2
    <3> QED
      BY <3>1 DEF ArpInv
  <2> QED
    BY <2>1, <2>2
<1>9. arptime' \in 0 .. TimeMod - 1
  BY DEF ArpInv
<1> QED
  BY <1>4, <1>5, <1>7, <1>8, <1>9 DEF ArpInv

(* The byte clock, one period on.                                          *)
LEMMA ClockTicks ==
    ASSUME NEW m \in Nat \ {0}, NEW t \in 0 .. m - 1
    PROVE  (t + 1) % m = IF t + 1 = m THEN 0 ELSE t + 1
OBVIOUS

(* An entry that stays has the age of one period more.                     *)
LEMMA TimerAges ==
    ASSUME ArpInv, ArpTimer, NEW i \in Slots, NEW a \in Neighbours, Holds(i, a),
           silent'[a] < ARP_MAXAGE
    PROVE  /\ silent'[a] = silent[a] + 1
           /\ arptime' - arptable[i].time \in {silent'[a], silent'[a] - TimeMod}
<1>1. TimeMod \in Nat \ {0} /\ ARP_MAXAGE \in 1 .. TimeMod - 1
  BY ArpAssumption
<1>2. arptime \in 0 .. TimeMod - 1 /\ arptable[i].time \in 0 .. TimeMod - 1 /\ silent[a] \in 0 .. ARP_MAXAGE
  BY DEF ArpInv, Entry
<1>3. silent'[a] = IF silent[a] < ARP_MAXAGE THEN silent[a] + 1 ELSE silent[a]
  BY DEF ArpTimer
<1>4. silent[a] < ARP_MAXAGE /\ silent'[a] = silent[a] + 1
  BY <1>1, <1>2, <1>3
<1>5. arptime - arptable[i].time \in {silent[a], silent[a] - TimeMod}
  BY <1>4 DEF ArpInv
<1>6. arptime' = IF arptime + 1 = TimeMod THEN 0 ELSE arptime + 1
  BY <1>1, <1>2, ClockTicks DEF ArpTimer
<1> QED
  BY <1>1, <1>2, <1>4, <1>5, <1>6

(* uip_arp_timer drops entries before the clock comes round to their time. *)
LEMMA ArpTimerKeepsInv ==
    ASSUME ArpInv, ArpTimer
    PROVE  ArpInv'
<1>1. \A i \in Slots : arptable'[i] = IF Taken(arptable[i]) /\ arptime' - arptable[i].time >= ARP_MAXAGE
                                      THEN [arptable[i] EXCEPT !.ip = Unset] ELSE arptable[i]
  BY DEF ArpTimer
<1>2. ASSUME NEW i \in Slots
      PROVE  /\ arptable'[i] \in Entry
             /\ \A a \in Neighbours : Holds(i, a)' => Holds(i, a) /\ arptable'[i] = arptable[i]
  <2>1. arptable[i] \in Entry
    BY DEF ArpInv
  <2>2. CASE arptable'[i] = arptable[i]
    BY <2>1, <2>2 DEF Holds
  <2>3. CASE arptable'[i] = [arptable[i] EXCEPT !.ip = Unset]
    <3>1. arptable'[i] \in Entry /\ arptable'[i].ip = Unset
      BY <2>1, <2>3 DEF Entry
    <3> QED
      BY <3>1, ArpAssumption DEF Holds
  <2> QED
    BY <1>1, <2>2, <2>3
<1>3. arptable' \in [Slots -> Entry]
  <2>1. arptable' = [i \in Slots |-> arptable'[i]]
    BY DEF ArpTimer
  <2> QED
    BY <1>2, <2>1
<1>4. arptime' \in 0 .. TimeMod - 1
  BY ClockTicks, ArpAssumption DEF ArpInv, ArpTimer
<1>5. link' = link /\ silent' \in [Neighbours -> 0 .. ARP_MAXAGE]
  BY ArpAssumption DEF ArpInv, ArpTimer
<1>6. ASSUME NEW i \in Slots, NEW a \in Neighbours, Holds(i, a)'
      PROVE  /\ arptable'[i].eth = link'[a]
             /\ silent'[a] < ARP_MAXAGE =>
                   arptime' - arptable'[i].time \in {silent'[a], silent'[a] - TimeMod}
  <2>1. Holds(i, a) /\ arptable'[i] = arptable[i]
    BY <1>2, <1>6
  <2>2. arptable'[i].eth = link'[a]
    BY <1>5, <2>1 DEF ArpInv
  <2> QED
    BY <2>1, <2>2, TimerAges
<1>7. ASSUME NEW i \in Slots, NEW j \in Slots, NEW a \in Neighbours, Holds(i, a)', Holds(j, a)'
      PROVE  i = j
  <2>1. Holds(i, a) /\ Holds(j, a)
    BY <1>2, <1>7
  <2> QED
    BY <2>1 DEF ArpInv
<1>8. FrameReachesNextHop'
  BY DEF ArpTimer, FrameReachesNextHop, NoFrame
<1> QED
  BY <1>3, <1>4, <1>5, <1>6, <1>7, <1>8 DEF ArpInv

(* uip_arp_out puts the link address on the frame that was announced last. *)
LEMMA ArpOutReaches ==
    ASSUME ArpInv, NEW dip, ArpOut(dip)
    PROVE  FrameReachesNextHop'
<1> DEFINE known == {i \in Slots : arptable[i].ip = NextHop(dip)}
<1>1. CASE dip = Broadcast /\ frame' = [type |-> "ip", dest |-> Broadcast, to |-> dip]
  BY <1>1 DEF FrameReachesNextHop
<1>2. CASE known # {} /\ frame' = [type |-> "ip", dest |-> arptable[First(known)].eth, to |-> dip]
  <2>1. First(known) \in known
    BY <1>2, FirstIs
  <2>2. First(known) \in Slots /\ Holds(First(known), NextHop(dip))
    BY <2>1 DEF Holds
  <2> HIDE DEF known
  <2>3. /\ frame'.to = dip /\ frame'.dest = arptable[First(known)].eth /\ link' = link
        /\ NextHop(frame'.to) = NextHop(dip)
    BY <1>2 DEF ArpOut
  <2>4. NextHop(dip) \in Neighbours => frame'.dest = link'[NextHop(dip)]
    BY <2>2, <2>3 DEF ArpInv
  <2> QED
    BY <2>3, <2>4 DEF FrameReachesNextHop, NextHop
<1>3. CASE frame' = [type |-> "request", dest |-> Broadcast, to |-> NextHop(dip)]
  BY <1>3 DEF FrameReachesNextHop
<1> QED
  BY <1>1, <1>2, <1>3 DEF ArpOut

(* Every step on the ARP table keeps the invariant.                        *)
LEMMA ArpKeepsInv ==
    ArpInv /\ [ArpNext]_arpVars => ArpInv'
<1> SUFFICES ASSUME ArpInv, [ArpNext]_arpVars
             PROVE  ArpInv'
  OBVIOUS
<1>1. CASE ArpTimer
  BY <1>1, ArpTimerKeepsInv
<1>2. ASSUME NEW op \in {"request", "reply", "short"}, NEW sip \in Locals \cup {Unset},
             NEW eth \in Links, NEW dip \in {Me, Router}, ArpIn(op, sip, eth, dip)
      PROVE  ArpInv'
  <2>1. FrameReachesNextHop' /\ arptime' = arptime
    BY <1>2 DEF ArpIn, FrameReachesNextHop, NoFrame
  <2>2. CASE ArpUpdate(sip, eth)
    BY <2>1, <2>2, ArpUpdateKeepsInv
  <2>3. CASE UNCHANGED <<arptable, link, silent>>
    BY <2>1, <2>3 DEF ArpInv, Holds
  <2> QED
    BY <1>2, <2>2, <2>3 DEF ArpIn
<1>3. ASSUME NEW dip \in Locals \cup Remote \cup {Broadcast}, ArpOut(dip)
      PROVE  ArpInv'
  <2>1. FrameReachesNextHop'
    BY <1>3, ArpOutReaches
  <2>2. UNCHANGED <<arptable, arptime, link, silent>>
    BY <1>3 DEF ArpOut
  <2> QED
    BY <2>1, <2>2 DEF ArpInv, Holds
<1>4. CASE UNCHANGED arpVars
  BY <1>4 DEF ArpInv, Holds, arpVars, FrameReachesNextHop, NextHop
<1> QED
  BY <1>1, <1>2, <1>3, <1>4 DEF ArpNext

(* uip_arp_timer leaves an entry alone that was heard of less than         *)
(* ARP_MAXAGE ago.                                                         *)
LEMMA FreshStaysInStep ==
    ASSUME ArpInv, [ArpNext]_arpVars, NEW a \in Neighbours, arptime' # arptime,
           silent[a] + 1 < ARP_MAXAGE, NEW i \in Slots, arptable[i].ip = a
    PROVE  arptable'[i].ip = a
<1>1. ArpTimer
  BY DEF ArpNext, ArpIn, ArpOut, arpVars
<1>2. TimeMod \in Nat \ {0} /\ ARP_MAXAGE \in 1 .. TimeMod - 1
  BY ArpAssumption
<1>3. arptime' \in Int /\ arptable[i].time \in Int /\ silent[a] \in 0 .. ARP_MAXAGE
  BY ArpTimerKeepsInv, <1>1 DEF ArpInv, Entry
<1>4. silent'[a] = silent[a] + 1
  BY <1>1, <1>2, <1>3 DEF ArpTimer
<1>5. silent'[a] < ARP_MAXAGE
  BY <1>4
<1>6. arptime' - arptable[i].time \in {silent'[a], silent'[a] - TimeMod}
  BY <1>1, <1>5, TimerAges DEF Holds
<1>7. ~(arptime' - arptable[i].time >= ARP_MAXAGE)
  BY <1>2, <1>3, <1>4, <1>5, <1>6
<1> QED
  BY <1>1, <1>7 DEF ArpTimer

(* uip_arp.c: a packet goes to the link address that its next hop          *)
(* announced last, and the byte clock forgets no neighbour early, for a    *)
(* table of any size and a clock of any width above ARP_MAXAGE.            *)
THEOREM ArpWorks == ArpSpec => ArpSafe
<1>1. ArpInit => ArpInv
  <2>1. ASSUME ArpInit
        PROVE  ArpInv
    <3>1. 0 \in 0 .. TimeMod - 1 /\ 0 \in 0 .. ARP_MAXAGE
      BY ArpAssumption
    <3>2. \A i \in Slots, a \in Neighbours : ~Holds(i, a)
      BY <2>1, ArpAssumption DEF ArpInit, Holds
    <3>3. arptable \in [Slots -> Entry] /\ FrameReachesNextHop
      BY <2>1, <3>1 DEF ArpInit, Entry, FrameReachesNextHop, NoFrame
    <3>4. link \in [Neighbours -> Links \cup {Unset}] /\ silent \in [Neighbours -> 0 .. ARP_MAXAGE]
      BY <2>1, <3>1 DEF ArpInit
    <3>5. arptime \in 0 .. TimeMod - 1
      BY <2>1, <3>1 DEF ArpInit
    <3> QED
      BY <3>2, <3>3, <3>4, <3>5 DEF ArpInv
  <2> QED
    BY <2>1
<1>2. ArpInv => FrameReachesNextHop
  BY DEF ArpInv
<1>3. ArpInv /\ [ArpNext]_arpVars =>
        [\A a \in Neighbours :
            arptime' # arptime /\ silent[a] + 1 < ARP_MAXAGE /\ (\E i \in Slots : arptable[i].ip = a)
                => \E i \in Slots : arptable'[i].ip = a]_arpVars
  BY FreshStaysInStep
<1> QED
  BY <1>1, <1>2, <1>3, ArpKeepsInv, PTL DEF ArpSpec, ArpSafe, FreshStays

-----------------------------------------------------------------------------
(* uip.c.  Two UDP connections in use never share a port, and there are    *)
(* more ports to hand out than connections.                                *)
Ports == {0, 68} \cup FirstUdp .. UdpLimit - 1

IpInv ==
    /\ udp \in [UdpSlot -> [lport : Ports, rport : {0, ServerPort}, ripaddr : {Zeroes, Ones, Peer}]]
    /\ udpport \in FirstUdp .. UdpLimit - 1
    /\ OneUdpPerPort

(* uip_udp_new finds a port that no connection has, wherever the counter   *)
(* lastport is.                                                            *)
LEMMA NextUdpPortIs ==
    ASSUME IpInv
    PROVE  NextUdpPort \in FirstUdp .. UdpLimit - 1 /\ ~Used(NextUdpPort)
<1> DEFINE k == UdpLimit - FirstUdp
           a == udpport - FirstUdp
           IsNext(n) == ~Used(UdpPortAfter(n)) /\ \A m \in 1 .. n - 1 : Used(UdpPortAfter(m))
           f == [u \in UdpSlot |-> udp[u].lport]
           c == CHOOSE n \in 1 .. k : IsNext(n)
<1>1. /\ FirstUdp \in Nat /\ UdpLimit \in Nat /\ k \in Nat \ {0} /\ IsFiniteSet(UdpSlot)
      /\ Cardinality(UdpSlot) < k /\ a \in 0 .. k - 1
  <2>1. FirstUdp \in Nat /\ UdpLimit \in Nat /\ IsFiniteSet(UdpSlot)
    BY IpAssumption
  <2>2. Cardinality(UdpSlot) \in Nat
    BY <2>1, FS_CardinalityType
  <2>3. FirstUdp + Cardinality(UdpSlot) < UdpLimit
    BY IpAssumption
  <2> QED
    BY <2>1, <2>2, <2>3 DEF IpInv
<1>2. \A n : UdpPortAfter(n) = FirstUdp + ((a + n) % k)
  BY DEF UdpPortAfter
<1>3. \A p : Used(p) <=> \E u \in UdpSlot : f[u] = p
  BY DEF Used
<1>4. NextUdpPort = UdpPortAfter(c)
  BY DEF NextUdpPort
<1> HIDE DEF k, a, f
<1>5. \E n \in 1 .. k : IsNext(n)
  <2>1. PICK n \in 1 .. k : FoundAt(n, k, a, FirstUdp, UdpSlot, f)
    BY <1>1, SearchEnds
  <2> QED
    BY <1>2, <1>3, <2>1 DEF FoundAt
<1>6. c \in 1 .. k /\ IsNext(c)
  <2> HIDE DEF IsNext
  <2> QED
    BY <1>5
<1>7. ~Used(UdpPortAfter(c))
  BY <1>6
<1> HIDE DEF c
<1>8. (a + c) % k \in 0 .. k - 1
  BY <1>1, <1>6, RoundTheRing
<1>9. FirstUdp + ((a + c) % k) \in FirstUdp .. UdpLimit - 1
  <2> DEFINE r == (a + c) % k
  <2>1. r \in 0 .. UdpLimit - FirstUdp - 1
    BY <1>8 DEF k
  <2> HIDE DEF r
  <2> QED
    BY <1>1, <2>1 DEF r
<1> QED
  BY <1>2, <1>4, <1>7, <1>9

(* uip_udp_new, after its search for a port, gives one that nobody else    *)
(* has.                                                                    *)
LEMMA UipUdpNewKeepsInv ==
    ASSUME IpInv, NEW a \in {Zeroes, Ones, Peer}, NEW r \in {0, ServerPort}, UipUdpNew(a, r)
    PROVE  IpInv'
<1> DEFINE free == {u \in UdpSlot : udp[u].lport = 0}
           p == NextUdpPort
           new == [lport |-> p, rport |-> r, ripaddr |-> a]
<1>1. p \in FirstUdp .. UdpLimit - 1 /\ ~Used(p)
  BY NextUdpPortIs
<1>2. udpport' = p
  BY DEF UipUdpNew
<1>3. CASE UNCHANGED udp
  BY <1>1, <1>2, <1>3 DEF IpInv, OneUdpPerPort
<1>4. ASSUME NEW u \in free, udp' = [udp EXCEPT ![u] = new]
      PROVE  IpInv'
  <2>1. /\ new \in [lport : Ports, rport : {0, ServerPort}, ripaddr : {Zeroes, Ones, Peer}]
        /\ new.lport = p
    BY <1>1 DEF Ports
  <2> HIDE DEF new, p
  <2>2. /\ udp' \in [UdpSlot -> [lport : Ports, rport : {0, ServerPort}, ripaddr : {Zeroes, Ones, Peer}]]
        /\ \A v \in UdpSlot : udp'[v].lport = (IF v = u THEN p ELSE udp[v].lport)
    BY <1>4, <2>1 DEF IpInv
  <2>3. \A v \in UdpSlot : udp[v].lport # p
    BY <1>1 DEF Used
  <2>4. OneUdpPerPort'
    BY <2>2, <2>3 DEF IpInv, OneUdpPerPort
  <2> QED
    BY <1>1, <1>2, <2>2, <2>4 DEF IpInv
<1> QED
  BY <1>3, <1>4 DEF UipUdpNew

(* Every step of the IP layer keeps the invariant.                         *)
LEMMA IpKeepsInv ==
    IpInv /\ [IpNext]_ipVars => IpInv'
<1> SUFFICES ASSUME IpInv, [IpNext]_ipVars
             PROVE  IpInv'
  OBVIOUS
<1>1. ASSUME NEW a \in {Zeroes, Ones, Peer}, NEW r \in {0, ServerPort}, UipUdpNew(a, r)
      PROVE  IpInv'
  BY <1>1, UipUdpNewKeepsInv
<1>2. ASSUME NEW u \in UdpSlot, UipUdpRemove(u)
      PROVE  IpInv'
  <2>1. /\ udp' \in [UdpSlot -> [lport : Ports, rport : {0, ServerPort}, ripaddr : {Zeroes, Ones, Peer}]]
        /\ \A v \in UdpSlot : udp'[v].lport = (IF v = u THEN 0 ELSE udp[v].lport)
    BY <1>2 DEF IpInv, UipUdpRemove, Ports
  <2>2. OneUdpPerPort'
    BY <2>1 DEF IpInv, OneUdpPerPort
  <2> QED
    BY <1>2, <2>1, <2>2 DEF IpInv, UipUdpRemove
<1>3. ASSUME NEW u \in UdpSlot, UipUdpBind(u)
      PROVE  IpInv'
  <2>1. /\ udp' \in [UdpSlot -> [lport : Ports, rport : {0, ServerPort}, ripaddr : {Zeroes, Ones, Peer}]]
        /\ \A v \in UdpSlot : udp'[v].lport = (IF v = u THEN 68 ELSE udp[v].lport)
    BY <1>3 DEF IpInv, UipUdpBind, Ports
  <2>2. \A v \in UdpSlot : udp[v].lport # 68
    BY <1>3 DEF UipUdpBind, Used
  <2>3. OneUdpPerPort'
    BY <2>1, <2>2 DEF IpInv, OneUdpPerPort
  <2> QED
    BY <1>3, <2>1, <2>3 DEF IpInv, UipUdpBind
<1>4. ASSUME UNCHANGED <<udp, udpport>>
      PROVE  IpInv'
  BY <1>4 DEF IpInv, OneUdpPerPort
<1> QED
  BY <1>1, <1>2, <1>3, <1>4 DEF IpNext, UdpTimer, IpInput, ipVars

(* icmp_input: the address of a host changes only by a ping that it gets   *)
(* while it has none, and every reply comes from the address it then has.  *)
LEMMA AddressFromPingInStep ==
    ASSUME IpNext
    PROVE  /\ hostaddr' # hostaddr => hostaddr = Zeroes /\ out'.proto = "ICMP"
           /\ out'.proto = "ICMP" => out'.by = hostaddr'
<1>1. ASSUME NEW a \in {Zeroes, Ones, Peer}, NEW r \in {0, ServerPort}, UipUdpNew(a, r)
      PROVE  out'.proto # "ICMP" /\ hostaddr' = hostaddr
  BY <1>1 DEF UipUdpNew, Nothing
<1>2. ASSUME NEW u \in UdpSlot, UipUdpRemove(u) \/ UipUdpBind(u) \/ UdpTimer(u)
      PROVE  out'.proto # "ICMP" /\ hostaddr' = hostaddr
  BY <1>2 DEF UipUdpRemove, UipUdpBind, UdpTimer, UdpSend, Nothing
<1>3. ASSUME NEW p \in Packets, IpInput(p)
      PROVE  \/ out'.proto # "ICMP" /\ hostaddr' = hostaddr
             \/ /\ hostaddr' # hostaddr => hostaddr = Zeroes
                /\ out'.proto = "ICMP" /\ out'.by = hostaddr'
  <2>1. CASE Drop
    BY <2>1 DEF Drop, Nothing
  <2>2. CASE UdpInput(p) /\ UNCHANGED hostaddr
    BY <2>2 DEF UdpInput, UdpSend, Nothing
  <2>3. CASE IcmpInput(p)
    BY <2>3 DEF IcmpInput, Nothing
  <2> QED
    BY <1>3, <2>1, <2>2, <2>3 DEF IpInput
<1> QED
  BY <1>1, <1>2, <1>3 DEF IpNext

(* uip.c: a datagram reaches one UDP connection at most, whatever number   *)
(* of ports and connections there is and however often lastport wrapped    *)
(* around, and a host that has no address gets it from a ping alone.       *)
THEOREM IpWorks == IpSpec => IpSafe
<1>1. IpInit => IpInv
  BY IpAssumption, FS_CardinalityType DEF IpInit, IpInv, FreeUdp, Ports, OneUdpPerPort
<1>2. IpInv => OneUdpPerPort
  BY DEF IpInv
<1>3. [IpNext]_ipVars =>
        [/\ hostaddr' # hostaddr => hostaddr = Zeroes /\ out'.proto = "ICMP"
         /\ out'.proto = "ICMP" => out'.by = hostaddr']_ipVars
  BY AddressFromPingInStep
<1> QED
  BY <1>1, <1>2, <1>3, IpKeepsInv, PTL DEF IpSpec, IpSafe, AddressFromPing

-----------------------------------------------------------------------------
(* uip-fw.c.  What the cache distinguishes, and the packets.               *)
Keys == [src : Stations \cup {FwHost, NoHost}, dest : Stations \cup {Everyone, FwHost, NoHost},
         id : Ids, proto : {"ICMP", "UDP", "none"}]

(* The entries that fwcache_register would rather keep than entry i        *)
Rivals(i) == {j \in CacheSlots : j # i /\ fwcache[j].timer >= fwcache[i].timer}
Newest == {j \in CacheSlots : fwcache[j].timer = FW_TIME}

(* A packet registered lately is in the cache, and no more entries look as *)
(* young as its own than others were registered since or with it.          *)
Remembered(r) == \E i \in CacheSlots : /\ fwcache[i].key = r.key
                                       /\ fwcache[i].timer = FW_TIME - r.age
                                       /\ Cardinality(Rivals(i)) <= r.others

FwInv ==
    /\ fwcache \in [CacheSlots -> [timer : 0 .. FW_TIME, key : Keys]]
    /\ fwhost \in {NoHost, FwHost}
    /\ recent \in SUBSET [key : Keys, age : 0 .. FW_TIME - 1, others : 0 .. CacheSize - 1]
    /\ inPeriod \in 0 .. CacheSize
    /\ Cardinality(Newest) <= inPeriod
    /\ \A r \in recent : Remembered(r)
    /\ TtlInRange

(* Sets of entries of the cache have a size.                               *)
LEMMA SlotSets ==
    ASSUME NEW S \in SUBSET CacheSlots, NEW T \in SUBSET S
    PROVE  /\ IsFiniteSet(S) /\ IsFiniteSet(T)
           /\ Cardinality(S) \in Nat /\ Cardinality(T) \in Nat
           /\ Cardinality(T) <= Cardinality(S) /\ Cardinality(S) <= CacheSize
<1>1. CacheSize \in Nat
  BY FwAssumption
<1>2. IsFiniteSet(CacheSlots) /\ Cardinality(CacheSlots) = CacheSize
  BY <1>1, FS_Interval DEF CacheSlots
<1>3. IsFiniteSet(S) /\ Cardinality(S) <= CacheSize
  BY <1>2, FS_Subset
<1> QED
  BY <1>3, FS_Subset, FS_CardinalityType

(* One entry more makes a set of them larger by one at most.               *)
LEMMA OneMoreSlot ==
    ASSUME NEW S \in SUBSET CacheSlots, NEW T \in SUBSET CacheSlots, NEW v \in CacheSlots,
           T \subseteq S \cup {v}
    PROVE  Cardinality(T) <= Cardinality(S) + 1
<1>1. S \cup {v} \in SUBSET CacheSlots /\ T \in SUBSET (S \cup {v})
  OBVIOUS
<1>2. IsFiniteSet(S) /\ Cardinality(S) \in Nat /\ Cardinality(T) \in Nat
      /\ Cardinality(T) <= Cardinality(S \cup {v})
  BY <1>1, SlotSets
<1>3. Cardinality(S \cup {v}) = Cardinality(S) \/ Cardinality(S \cup {v}) = Cardinality(S) + 1
  BY <1>2, FS_AddElement
<1> QED
  BY <1>2, <1>3

(* All entries but one are a set one smaller than the cache.               *)
LEMMA AllButOne ==
    ASSUME NEW v \in CacheSlots
    PROVE  Cardinality(CacheSlots \ {v}) = CacheSize - 1
<1>1. CacheSize \in Nat
  BY FwAssumption
<1>2. IsFiniteSet(CacheSlots) /\ Cardinality(CacheSlots) = CacheSize
  BY <1>1, FS_Interval DEF CacheSlots
<1> QED
  BY <1>2, FS_RemoveElement

(* fwcache_register finds an entry to fill: a free one or one of the       *)
(* oldest.                                                                 *)
LEMMA CacheVictimIs ==
    ASSUME FwInv
    PROVE  /\ CacheVictim \in CacheSlots
           /\ \/ fwcache[CacheVictim].timer = 0
              \/ \A j \in CacheSlots : fwcache[CacheVictim].timer <= fwcache[j].timer
<1> DEFINE free == {i \in CacheSlots : fwcache[i].timer = 0}
<1>1. /\ CacheSize \in Nat /\ CacheSlots = 1 .. CacheSize /\ CacheSlots # {} /\ FW_TIME \in Nat
      /\ \A i \in CacheSlots : fwcache[i].timer \in 0 .. FW_TIME
  <2>1. CacheSize \in Nat \ {0} /\ FW_TIME \in Nat
    BY FwAssumption
  <2>2. CacheSlots = 1 .. CacheSize /\ CacheSlots # {}
    BY <2>1 DEF CacheSlots
  <2>3. \A i \in CacheSlots : fwcache[i].timer \in 0 .. FW_TIME
    BY DEF FwInv
  <2> QED
    BY <2>1, <2>2, <2>3
<1>2. CASE free # {}
  <2>1. \E i \in free : \A j \in free : i <= j
    <3>1. free \in SUBSET Nat
      BY <1>1
    <3> HIDE DEF free
    <3> QED
      BY <1>2, <3>1, SmallestOf
  <2>2. CacheVictim = CHOOSE i \in free : \A j \in free : i <= j
    BY <1>2 DEF CacheVictim
  <2> QED
    BY <2>1, <2>2
<1>3. CASE free = {}
  <2> DEFINE least == {i \in CacheSlots : \A j \in CacheSlots : fwcache[i].timer <= fwcache[j].timer}
             IsVictim(i) == \A j \in CacheSlots :
                                \/ fwcache[i].timer < fwcache[j].timer
                                \/ fwcache[i].timer = fwcache[j].timer /\ j <= i
  <2>1. least \in SUBSET (1 .. CacheSize) /\ least \in SUBSET (0 .. CacheSize) /\ least # {}
    <3> DEFINE f == [i \in CacheSlots |-> fwcache[i].timer]
    <3>1. \A i \in CacheSlots : f[i] \in 0 .. FW_TIME
      BY <1>1
    <3>2. \E i \in CacheSlots : \A j \in CacheSlots : f[i] <= f[j]
      <4> HIDE DEF f
      <4> QED
        BY <1>1, <3>1, ExtremesOf
    <3>3. PICK i \in CacheSlots : \A j \in CacheSlots : fwcache[i].timer <= fwcache[j].timer
      BY <3>2
    <3>4. i \in least
      BY <3>3
    <3>5. \A k \in CacheSlots : k \in 1 .. CacheSize /\ k \in 0 .. CacheSize
      BY <1>1
    <3>6. least \in SUBSET CacheSlots
      OBVIOUS
    <3> HIDE DEF least
    <3> QED
      BY <3>4, <3>5, <3>6
  <2> HIDE DEF least
  <2>2. PICK i \in least : \A j \in least : j <= i
    BY <1>1, <2>1, LargestOf
  <2>3. i \in CacheSlots /\ IsVictim(i)
    BY <1>1, <2>2 DEF least
  <2>4. CacheVictim = CHOOSE k \in CacheSlots : IsVictim(k)
    BY <1>3 DEF CacheVictim
  <2>5. IsVictim(CacheVictim) /\ CacheVictim \in CacheSlots
    <3> HIDE DEF IsVictim
    <3> QED
      BY <2>3, <2>4
  <2> QED
    BY <1>1, <2>5
<1> QED
  BY <1>2, <1>3

(* A packet is registered: what was registered lately is still in the      *)
(* cache, or enough others were registered since.                          *)
LEMMA RegisterRemembers ==
    ASSUME FwInv, NEW p, Key(p) \in Keys, FwcacheRegister(p), NEW r \in recent,
           r.others + 1 < CacheSize
    PROVE  Remembered([r EXCEPT !.others = @ + 1])'
<1> DEFINE v == CacheVictim
           e == [timer |-> FW_TIME, key |-> Key(p)]
           q == [r EXCEPT !.others = @ + 1]
<1>1. /\ v \in CacheSlots
      /\ fwcache[v].timer = 0 \/ \A j \in CacheSlots : fwcache[v].timer <= fwcache[j].timer
  BY CacheVictimIs
<1>2. fwcache' = [fwcache EXCEPT ![v] = e]
  BY DEF FwcacheRegister
<1>3. r \in [key : Keys, age : 0 .. FW_TIME - 1, others : 0 .. CacheSize - 1]
  BY DEF FwInv
<1>4. q.key = r.key /\ q.age = r.age /\ q.others = r.others + 1 /\ r.others \in Nat
  BY <1>3
<1>5. PICK i \in CacheSlots : /\ fwcache[i].key = r.key /\ fwcache[i].timer = FW_TIME - r.age
                              /\ Cardinality(Rivals(i)) <= r.others
  BY DEF FwInv, Remembered
<1>6. \A j \in CacheSlots : fwcache[j].timer \in 0 .. FW_TIME
  BY DEF FwInv
<1>7. fwcache[i].timer # 0 /\ CacheSize \in Nat
  BY <1>3, <1>5, FwAssumption
<1> HIDE DEF v, e, q
<1>8. v # i
  <2> SUFFICES ASSUME v = i
               PROVE  FALSE
    OBVIOUS
  <2>1. CacheSlots \ {i} \subseteq Rivals(i)
    BY <1>1, <1>6, <1>7, FwAssumption DEF Rivals
  <2>2. Rivals(i) \in SUBSET CacheSlots
    BY DEF Rivals
  <2>3. /\ Cardinality(CacheSlots \ {i}) <= Cardinality(Rivals(i))
        /\ Cardinality(Rivals(i)) \in Nat
    BY <2>1, <2>2, SlotSets
  <2>4. CacheSize - 1 <= r.others
    BY <1>4, <1>5, <1>7, <2>3, AllButOne
  <2> QED
    BY <1>4, <1>7, <2>4
<1>9. \A j \in CacheSlots : j # v => fwcache'[j] = fwcache[j]
  BY <1>2 DEF FwInv
<1>10. Rivals(i)' \subseteq Rivals(i) \cup {v}
  BY <1>5, <1>8, <1>9 DEF Rivals
<1>11. Rivals(i)' \in SUBSET CacheSlots /\ Rivals(i) \in SUBSET CacheSlots
  BY DEF Rivals
<1>12. Cardinality(Rivals(i)') <= Cardinality(Rivals(i)) + 1 /\ Cardinality(Rivals(i)) \in Nat
       /\ Cardinality(Rivals(i)') \in Nat
  <2>1. \A S, T \in SUBSET CacheSlots : T \subseteq S \cup {v} =>
           Cardinality(T) <= Cardinality(S) + 1 /\ Cardinality(S) \in Nat /\ Cardinality(T) \in Nat
    BY <1>1, OneMoreSlot, SlotSets
  <2> QED
    BY <1>10, <1>11, <2>1
<1>13. Cardinality(Rivals(i)') <= q.others
  BY <1>4, <1>5, <1>12
<1>14. fwcache'[i].key = q.key /\ fwcache'[i].timer = FW_TIME - q.age
  BY <1>4, <1>5, <1>8, <1>9
<1> QED
  BY <1>13, <1>14 DEF Remembered, q

(* A packet is sent, and registered.                                       *)
LEMMA OutputKeepsInv ==
    ASSUME FwInv, NEW p, Key(p) \in Keys, p.ttl \in 1 .. UIP_TTL, FwOutput(p), fwhost' = fwhost
    PROVE  FwInv'
<1>1. PICK v \in CacheSlots : v = CacheVictim
  BY CacheVictimIs
<1> DEFINE e == [timer |-> FW_TIME, key |-> Key(p)]
           n == [key |-> Key(p), age |-> 0, others |-> inPeriod]
<1>2. FwcacheRegister(p)
  BY DEF FwOutput
<1>3. /\ fwcache' = [fwcache EXCEPT ![v] = e]
      /\ recent' = {r \in {[q EXCEPT !.others = @ + 1] : q \in {q \in recent : q.key # Key(p)}}
                            \cup {n} : r.others < CacheSize}
      /\ inPeriod' = IF inPeriod < CacheSize THEN inPeriod + 1 ELSE inPeriod
  BY <1>1, <1>2 DEF FwcacheRegister
<1>4. e \in [timer : 0 .. FW_TIME, key : Keys] /\ e.timer = FW_TIME /\ e.key = Key(p)
  BY FwAssumption
<1>5. n.key = Key(p) /\ n.age = 0 /\ n.others = inPeriod
  OBVIOUS
<1> HIDE DEF e
<1>6. /\ fwcache' \in [CacheSlots -> [timer : 0 .. FW_TIME, key : Keys]]
      /\ fwcache'[v] = e
      /\ \A j \in CacheSlots : j # v => fwcache'[j] = fwcache[j]
  BY <1>1, <1>3, <1>4 DEF FwInv
<1>7. inPeriod \in 0 .. CacheSize /\ inPeriod' \in 0 .. CacheSize /\ CacheSize \in Nat \ {0}
  BY <1>3, FwAssumption DEF FwInv
<1>8. /\ Newest \in SUBSET CacheSlots /\ Newest' \in SUBSET CacheSlots
      /\ Newest' \subseteq Newest \cup {v}
      /\ Rivals(v)' \in SUBSET CacheSlots /\ Rivals(v)' \subseteq Newest
  <2>1. \A j \in CacheSlots : fwcache'[j].timer \in 0 .. FW_TIME
    BY <1>6
  <2>2. FW_TIME \in Nat
    BY FwAssumption
  <2> QED
    BY <1>4, <1>6, <2>1, <2>2 DEF Newest, Rivals
<1>9. \A S, T \in SUBSET CacheSlots :
         /\ T \subseteq S \cup {v} => Cardinality(T) <= Cardinality(S) + 1
         /\ T \subseteq S => Cardinality(T) <= Cardinality(S)
         /\ Cardinality(S) \in Nat /\ Cardinality(S) <= CacheSize
  BY <1>1, OneMoreSlot, SlotSets
<1>10. Cardinality(Newest) <= inPeriod
  BY DEF FwInv
<1>11. Cardinality(Newest') <= inPeriod'
  <2>1. /\ Cardinality(Newest') <= Cardinality(Newest) + 1 /\ Cardinality(Newest') <= CacheSize
        /\ Cardinality(Newest) \in Nat /\ Cardinality(Newest') \in Nat
    BY <1>8, <1>9
  <2> QED
    BY <1>3, <1>7, <1>10, <2>1
<1>12. Cardinality(Rivals(v)') <= inPeriod
  <2>1. /\ Cardinality(Rivals(v)') <= Cardinality(Newest)
        /\ Cardinality(Newest) \in Nat /\ Cardinality(Rivals(v)') \in Nat
    BY <1>8, <1>9
  <2> QED
    BY <1>7, <1>10, <2>1
<1>13. ASSUME NEW r \in recent'
       PROVE  /\ r \in [key : Keys, age : 0 .. FW_TIME - 1, others : 0 .. CacheSize - 1]
              /\ Remembered(r)'
  <2>1. CASE r = n
    <3>1. r.others < CacheSize
      BY <1>3
    <3>2. fwcache'[v].key = r.key /\ fwcache'[v].timer = FW_TIME - r.age
          /\ Cardinality(Rivals(v)') <= r.others
      BY <1>4, <1>5, <1>6, <1>12, <2>1, FwAssumption
    <3>3. Remembered(r)'
      BY <1>1, <3>2 DEF Remembered
    <3>4. n \in [key : Keys, age : 0 .. FW_TIME - 1, others : 0 .. CacheSize - 1]
      BY <1>7, <2>1, <3>1, FwAssumption
    <3> QED
      BY <2>1, <3>3, <3>4
  <2>2. CASE r # n
    <3>1. PICK q \in recent : r = [q EXCEPT !.others = @ + 1] /\ r.others < CacheSize
      BY <1>3, <2>2
    <3>2. q \in [key : Keys, age : 0 .. FW_TIME - 1, others : 0 .. CacheSize - 1]
      BY DEF FwInv
    <3>3. r.others = q.others + 1
      BY <3>1, <3>2
    <3>4. r \in [key : Keys, age : 0 .. FW_TIME - 1, others : 0 .. CacheSize - 1]
      BY <1>7, <3>1, <3>2, <3>3
    <3>5. Remembered([q EXCEPT !.others = @ + 1])'
      BY <1>2, <3>1, <3>3, RegisterRemembers
    <3> QED
      BY <3>1, <3>4, <3>5
  <2> QED
    BY <2>1, <2>2
<1>14. TtlInRange'
  BY DEF FwOutput, TtlInRange
<1>15. fwhost' \in {NoHost, FwHost}
  BY DEF FwInv
<1> HIDE DEF n
<1> QED
  BY <1>6, <1>7, <1>11, <1>13, <1>14, <1>15 DEF FwInv

(* What changes neither cache nor history keeps the invariant.             *)
LEMMA Unchanged ==
    ASSUME FwInv, UNCHANGED <<fwcache, history>>, fwhost' \in {fwhost, FwHost}, sent' = <<>>
    PROVE  FwInv'
<1>1. /\ fwcache' = fwcache /\ recent' = recent /\ inPeriod' = inPeriod
      /\ fwhost' \in {NoHost, FwHost}
  BY DEF history, FwInv
<1>2. Newest' = Newest /\ \A r \in recent : Remembered(r)' = Remembered(r)
  BY <1>1 DEF Newest, Remembered, Rivals
<1>3. TtlInRange'
  BY DEF TtlInRange
<1> QED
  BY <1>1, <1>2, <1>3 DEF FwInv

(* A packet that arrives, of either protocol                               *)
LEMMA ArrivingIs ==
    ASSUME NEW p \in Arriving
    PROVE  p \in [src : Stations \cup {FwHost}, dest : Stations \cup {Everyone, FwHost}, id : Ids,
                  proto : {"UDP", "ICMP"}, echo : BOOLEAN, ttl : {0, 1, 3}]
BY DEF Arriving, Message

(* uip_fw_forward registers what it forwards and answers what is too old.  *)
LEMMA ForwardKeepsInv ==
    ASSUME FwInv, NEW p \in Arriving, FwForward(p)
    PROVE  FwInv'
<1>0. fwhost' = fwhost
  BY DEF FwForward
<1>1. CASE Keep
  BY <1>0, <1>1, Unchanged DEF Keep
<1>2. CASE ~Cached(p) /\ ForwardNew(p)
  <2> DEFINE q == Decremented(p)
             r == Decremented(TimeExceeded(p))
  <2>1. ASSUME p.ttl > 1, FwOutput(q)
        PROVE  FwInv'
    <3>1. q.src = p.src /\ q.ttl = p.ttl - 1 /\ Key(q) = Key(p)
      BY ArrivingIs DEF Decremented, Key
    <3>2. Key(p) \in Keys /\ p.ttl = 3
      BY <2>1, ArrivingIs DEF Key, Keys
    <3>3. q.ttl \in 1 .. UIP_TTL
      BY <3>1, <3>2, FwAssumption
    <3> HIDE DEF q
    <3> QED
      BY <1>0, <2>1, <3>1, <3>2, <3>3, OutputKeepsInv
  <2>2. ASSUME p.dest # Everyone, FwOutput(r)
        PROVE  FwInv'
    <3>1. r.src = fwhost /\ r.ttl = UIP_TTL - 1
      BY DEF Decremented, TimeExceeded
    <3>2. Key(r) = [src |-> fwhost, dest |-> p.src, id |-> p.id, proto |-> "ICMP"]
      BY DEF Decremented, TimeExceeded, Key
    <3>3. Key(r) \in Keys
      BY <3>2, ArrivingIs DEF Keys, FwInv
    <3>4. r.ttl \in 1 .. UIP_TTL
      BY <3>1, FwAssumption
    <3> HIDE DEF r
    <3> QED
      BY <1>0, <2>2, <3>3, <3>4, OutputKeepsInv
  <2> QED
    BY <1>1, <1>2, <2>1, <2>2 DEF ForwardNew
<1> QED
  BY <1>1, <1>2 DEF FwForward

(* uip_fw_periodic counts down the entries of the cache.                   *)
LEMMA PeriodicKeepsFwInv ==
    ASSUME FwInv, FwPeriodic
    PROVE  FwInv'
<1>1. /\ fwcache' = [i \in CacheSlots |-> IF fwcache[i].timer > 0
                        THEN [fwcache[i] EXCEPT !.timer = @ - 1] ELSE fwcache[i]]
      /\ recent' = {[r EXCEPT !.age = @ + 1] : r \in {q \in recent : q.age + 1 < FW_TIME}}
      /\ inPeriod' = 0 /\ sent' = <<>> /\ fwhost' = fwhost
  BY DEF FwPeriodic
<1>2. \A i \in CacheSlots : fwcache[i] \in [timer : 0 .. FW_TIME, key : Keys]
  BY DEF FwInv
<1>3. FW_TIME \in Nat \ {0} /\ CacheSize \in Nat
  BY FwAssumption
<1>4. ASSUME NEW i \in CacheSlots
      PROVE  /\ fwcache'[i] \in [timer : 0 .. FW_TIME, key : Keys]
             /\ fwcache'[i].key = fwcache[i].key
             /\ fwcache'[i].timer = IF fwcache[i].timer > 0 THEN fwcache[i].timer - 1 ELSE 0
             /\ fwcache[i].timer \in 0 .. FW_TIME
  BY <1>1, <1>2, <1>3
<1>5. fwcache' \in [CacheSlots -> [timer : 0 .. FW_TIME, key : Keys]]
  BY <1>1, <1>4
<1>6. Newest' = {}
  BY <1>3, <1>4 DEF Newest
<1>7. Cardinality(Newest') <= inPeriod'
  BY <1>1, <1>6, FS_EmptySet
<1>8. ASSUME NEW r \in recent'
      PROVE  /\ r \in [key : Keys, age : 0 .. FW_TIME - 1, others : 0 .. CacheSize - 1]
             /\ Remembered(r)'
  <2>1. PICK q \in recent : r = [q EXCEPT !.age = @ + 1] /\ q.age + 1 < FW_TIME
    BY <1>1
  <2>2. q \in [key : Keys, age : 0 .. FW_TIME - 1, others : 0 .. CacheSize - 1]
    BY DEF FwInv
  <2>3. /\ r.key = q.key /\ r.age = q.age + 1 /\ r.others = q.others
        /\ r \in [key : Keys, age : 0 .. FW_TIME - 1, others : 0 .. CacheSize - 1]
    BY <1>3, <2>1, <2>2
  <2>4. PICK i \in CacheSlots : /\ fwcache[i].key = q.key /\ fwcache[i].timer = FW_TIME - q.age
                                /\ Cardinality(Rivals(i)) <= q.others
    BY DEF FwInv, Remembered
  <2>5. fwcache[i].timer >= 2 /\ fwcache'[i].timer = FW_TIME - r.age /\ fwcache'[i].key = r.key
    BY <1>3, <1>4, <2>1, <2>2, <2>3, <2>4
  <2>6. Rivals(i)' \subseteq Rivals(i)
    BY <1>4, <2>5 DEF Rivals
  <2>7. Rivals(i) \in SUBSET CacheSlots
    BY DEF Rivals
  <2>8. Cardinality(Rivals(i)') <= Cardinality(Rivals(i)) /\ Cardinality(Rivals(i)) \in Nat
        /\ Cardinality(Rivals(i)') \in Nat
    <3>1. \A T \in SUBSET Rivals(i) : Cardinality(T) <= Cardinality(Rivals(i))
              /\ Cardinality(Rivals(i)) \in Nat /\ Cardinality(T) \in Nat
      BY <2>7, SlotSets
    <3> QED
      BY <2>6, <3>1
  <2>9. Cardinality(Rivals(i)') <= r.others
    BY <2>2, <2>3, <2>4, <2>8
  <2> QED
    BY <2>3, <2>5, <2>9 DEF Remembered
<1>9. TtlInRange'
  BY <1>1 DEF TtlInRange
<1>10. fwhost' \in {NoHost, FwHost} /\ inPeriod' \in 0 .. CacheSize
  BY <1>1, <1>3 DEF FwInv
<1> QED
  BY <1>5, <1>7, <1>8, <1>9, <1>10 DEF FwInv

(* Every step of forwarding keeps the invariant.                           *)
LEMMA FwKeepsInv ==
    FwInv /\ [FwNext]_fwVars => FwInv'
<1> SUFFICES ASSUME FwInv, [FwNext]_fwVars
             PROVE  FwInv'
  OBVIOUS
<1>1. ASSUME NEW n \in Netifs, FwRegister(n) \/ FwDefault(n)
      PROVE  FwInv'
  BY <1>1, Unchanged DEF FwRegister, FwDefault
<1>2. CASE FwPeriodic
  BY <1>2, PeriodicKeepsFwInv
<1>3. CASE Configured
  BY <1>3, Unchanged DEF Configured
<1>4. ASSUME NEW p \in Arriving, FwForward(p)
      PROVE  FwInv'
  BY <1>4, ForwardKeepsInv
<1>5. ASSUME NEW p \in Own, FwSend(p)
      PROVE  FwInv'
  <2>1. Key(p) \in Keys /\ p.ttl \in 1 .. UIP_TTL
    BY FwAssumption DEF Own, Key, Keys
  <2> QED
    BY <1>5, <2>1, OutputKeepsInv DEF FwSend
<1>6. CASE UNCHANGED fwVars
  BY <1>6 DEF FwInv, fwVars, history, TtlInRange, Remembered, Rivals, Newest
<1> QED
  BY <1>1, <1>2, <1>3, <1>4, <1>5, <1>6 DEF FwNext

(* uip_fw_forward of a packet that is still remembered                     *)
LEMMA RememberedIsDropped ==
    ASSUME FwInv, NEW r \in recent, NEW p \in Arriving, Key(p) = r.key, FwForward(p)
    PROVE  sent' = <<>>
<1>1. PICK i \in CacheSlots : fwcache[i].key = r.key /\ fwcache[i].timer = FW_TIME - r.age
  BY DEF FwInv, Remembered
<1>2. fwcache[i].timer # 0
  BY <1>1, FwAssumption DEF FwInv
<1>3. Cached(p)
  BY <1>1, <1>2 DEF Cached
<1> QED
  BY <1>3 DEF FwForward, Keep

\* uip_fw_forward: what is forwarded ends, by its ttl, which neither wraps around nor grows, and
\* by the cache, of any size: a packet that comes back within FW_TIME is found there unless as
\* many others as it has entries were registered, whichever entries fwcache_register gave them.
THEOREM ForwardingEnds == FwSpec => FwSafe
<1>1. FwInit => FwInv
  <2>1. ASSUME FwInit
        PROVE  FwInv
    <3>1. Blank \in Keys /\ FW_TIME \in Nat \ {0} /\ CacheSize \in Nat
      BY FwAssumption DEF Blank, Keys
    <3> HIDE DEF Blank
    <3>2. fwcache \in [CacheSlots -> [timer : 0 .. FW_TIME, key : Keys]]
      BY <2>1, <3>1 DEF FwInit
    <3>3. Newest = {}
      BY <2>1, <3>1 DEF FwInit, Newest
    <3>4. Cardinality(Newest) = 0
      BY <3>3, FS_EmptySet
    <3> QED
      BY <2>1, <3>1, <3>2, <3>4 DEF FwInit, FwInv, TtlInRange
  <2> QED
    BY <2>1
<1>2. FwInv => TtlInRange
  BY DEF FwInv
<1>3. FwInv /\ [FwNext]_fwVars =>
        [sent' # <<>> => \A r \in recent, p \in Arriving : Key(p) = r.key => ~FwForward(p)]_fwVars
  BY RememberedIsDropped
<1> QED
  BY <1>1, <1>2, <1>3, FwKeepsInv, PTL DEF FwSpec, FwSafe, NoEcho

(***************************************************************************)
(* Reassembly                                                              *)
(***************************************************************************)

(* The sizes of reassembly are numbers.                                    *)
LEMMA ReassSizes ==
    /\ PerByte \in Nat \ {0} /\ BufBlocks \in Nat /\ HeaderBlocks \in Nat
    /\ MAXAGE \in Nat \ {0} /\ Size \in [Datagram -> Nat \ {0}]
BY ReassAssumption DEF ReassAssumption

(* A block has one bit in one byte, and later blocks have later ones.      *)
LEMMA BlockAddress ==
    ASSUME NEW b \in Nat
    PROVE  /\ b \div PerByte \in Nat /\ b % PerByte \in Bits
           /\ b = PerByte * (b \div PerByte) + (b % PerByte)
<1>1. PICK p \in Nat \ {0} : p = PerByte
  BY ReassSizes
<1>2. b \div p \in Nat /\ b % p \in 0 .. p - 1 /\ b = p * (b \div p) + (b % p)
  BY <1>1
<1> QED
  BY <1>1, <1>2 DEF Bits

(* A bit of a later byte of the bitmap stands for a later block.           *)
LEMMA LaterByte ==
    ASSUME NEW i \in Nat, NEW j \in Nat, NEW k \in Bits, NEW l \in Bits, i < j
    PROVE  PerByte * i + k < PerByte * j + l
<1>1. PICK n \in Nat : j = i + 1 + n
  <2>1. j - i - 1 \in Nat /\ j = i + 1 + (j - i - 1)
    OBVIOUS
  <2> QED
    BY <2>1
<1>2. PICK p \in Nat \ {0} : p = PerByte
  BY ReassSizes
<1>3. p * j = p * i + p + p * n /\ p * n \in Nat /\ p * i \in Nat
  BY <1>1, <1>2
<1>4. k < p /\ k \in Nat /\ l \in Nat
  BY <1>2 DEF Bits
<1> QED
  BY <1>2, <1>3, <1>4

(* Blocks are ordered as first their bytes and then their bits are.        *)
LEMMA EarlierBlock ==
    ASSUME NEW b \in Nat, NEW c \in Nat
    PROVE  b < c <=> \/ b \div PerByte < c \div PerByte
                     \/ b \div PerByte = c \div PerByte /\ b % PerByte < c % PerByte
<1>1. PICK i \in Nat, k \in Bits : i = b \div PerByte /\ k = b % PerByte /\ b = PerByte * i + k
  BY BlockAddress
<1>2. PICK j \in Nat, l \in Bits : j = c \div PerByte /\ l = c % PerByte /\ c = PerByte * j + l
  BY BlockAddress
<1>3. CASE i < j
  BY <1>1, <1>2, <1>3, LaterByte
<1>4. CASE j < i
  BY <1>1, <1>2, <1>4, LaterByte
<1>5. CASE i = j
  <2>1. PICK m \in Int : m = PerByte * i
    BY ReassSizes
  <2>2. b = m + k /\ c = m + l /\ k \in Nat /\ l \in Nat
    BY <1>1, <1>2, <1>5, <2>1, ReassSizes DEF Bits
  <2>3. b < c <=> k < l
    BY <2>1, <2>2
  <2> QED
    BY <1>1, <1>2, <1>5, <2>3
<1> QED
  BY <1>3, <1>4, <1>5

Bitmaps == [Cells -> SUBSET Bits]

(* The bytes that uip_reass writes                                         *)
LEMMA MarkedBits ==
    ASSUME NEW m \in Bitmaps, NEW off \in Nat, NEW end \in Nat, off < end, end \div PerByte \in Cells,
           NEW q, q = Marked(m, off, end)
    PROVE  /\ q \in Bitmaps
           /\ \A i \in Cells, k \in Bits : k \in q[i] <=>
                 \/ k \in m[i]
                 \/ /\ off \div PerByte < i \/ (off \div PerByte = i /\ off % PerByte <= k)
                    /\ i < end \div PerByte \/ (i = end \div PerByte /\ k < end % PerByte)
<1>0. off \div PerByte \in Cells
  <2>1. /\ off \div PerByte \in Nat /\ end \div PerByte \in Nat
        /\ off \div PerByte <= end \div PerByte
    BY BlockAddress, EarlierBlock
  <2>2. PICK n \in Int : n = BufBlocks \div PerByte
    BY ReassSizes
  <2> QED
    BY <2>1, <2>2 DEF Cells
<1>1. PICK f \in Cells, k0 \in Bits : f = off \div PerByte /\ k0 = off % PerByte
  BY <1>0, BlockAddress
<1>2. PICK l \in Cells, k1 \in Bits : l = end \div PerByte /\ k1 = end % PerByte
  BY BlockAddress
<1>3. f < l \/ (f = l /\ k0 < k1)
  BY <1>1, <1>2, EarlierBlock
<1>4. Cells \subseteq Nat /\ Bits \subseteq Nat
  BY ReassSizes DEF Cells, Bits
<1>5. CASE f = l
  <2>1. q = [m EXCEPT ![f] = @ \cup (From(k0) \ From(k1))]
    BY <1>1, <1>2, <1>5 DEF Marked
  <2>2. From(k0) \ From(k1) \subseteq Bits /\ \A k \in Bits : k \in From(k0) \ From(k1) <=> k0 <= k /\ k < k1
    BY <1>4 DEF From
  <2>3. q \in Bitmaps /\ \A i \in Cells : q[i] = IF i = f THEN m[i] \cup (From(k0) \ From(k1)) ELSE m[i]
    BY <2>1, <2>2 DEF Bitmaps
  <2>4. \A i \in Cells, k \in Bits : k \in q[i] <=> k \in m[i] \/ (i = f /\ k0 <= k /\ k < k1)
    BY <2>2, <2>3
  <2> QED
    BY <1>1, <1>2, <1>4, <1>5, <2>3, <2>4
<1>6. CASE f < l
  <2>1. q = [i \in Cells |-> CASE i = f -> m[i] \cup From(k0)
                               [] f < i /\ i < l -> Bits
                               [] i = l -> m[i] \cup (Bits \ From(k1))
                               [] OTHER -> m[i]]
    BY <1>1, <1>2, <1>4, <1>6 DEF Marked
  <2>2. /\ From(k0) \subseteq Bits /\ \A k \in Bits : k \in From(k0) <=> k0 <= k
        /\ \A k \in Bits : k \in Bits \ From(k1) <=> k < k1
    BY <1>4 DEF From
  <2>3. \A i \in Cells : /\ i = f => q[i] = m[i] \cup From(k0)
                         /\ f < i /\ i < l => q[i] = Bits
                         /\ i = l => q[i] = m[i] \cup (Bits \ From(k1))
                         /\ i < f \/ l < i => q[i] = m[i]
    BY <1>4, <1>6, <2>1
  <2>4. \A i \in Cells : i = f \/ (f < i /\ i < l) \/ i = l \/ i < f \/ l < i
    BY <1>4
  <2>5. q \in Bitmaps
    <3>1. \A i \in Cells : q[i] \in SUBSET Bits
      BY <2>2, <2>3, <2>4 DEF Bitmaps
    <3>2. DOMAIN q = Cells /\ q = [i \in Cells |-> q[i]]
      BY <2>1
    <3> QED
      BY <3>1, <3>2 DEF Bitmaps
  <2>6. \A i \in Cells, k \in Bits : k \in q[i] <=>
           k \in m[i] \/ ((f < i \/ (f = i /\ k0 <= k)) /\ (i < l \/ (i = l /\ k < k1)))
    <3> SUFFICES ASSUME NEW i \in Cells, NEW k \in Bits
                 PROVE  k \in q[i] <=>
           k \in m[i] \/ ((f < i \/ (f = i /\ k0 <= k)) /\ (i < l \/ (i = l /\ k < k1)))
      OBVIOUS
    <3>1. m[i] \subseteq Bits
      BY DEF Bitmaps
    <3>2. CASE i = f
      BY <1>4, <1>6, <2>2, <2>3, <3>2
    <3>3. CASE f < i /\ i < l
      BY <1>4, <2>3, <3>3
    <3>4. CASE i = l
      BY <1>4, <1>6, <2>2, <2>3, <3>4
    <3>5. CASE i < f \/ l < i
      BY <1>4, <1>6, <2>3, <3>5
    <3> QED
      BY <2>4, <3>2, <3>3, <3>4, <3>5
  <2> QED
    BY <1>1, <1>2, <2>5, <2>6
<1> QED
  BY <1>3, <1>5, <1>6

(* The bitmap m speaks of the blocks in got.                               *)
Agree(m, got) == \A b \in 0 .. BufBlocks - 1 : b \div PerByte \in Cells =>
                    (b % PerByte \in m[b \div PerByte] <=> b \in got)

(* Setting the bits of a fragment in the bitmap (first byte, whole bytes,  *)
(* last byte) adds exactly its blocks.                                     *)
LEMMA MarkedAgree ==
    ASSUME NEW m \in Bitmaps, NEW got, Agree(m, got),
           NEW off \in Nat, NEW end \in Nat, off < end, end \div PerByte \in Cells
    PROVE  Marked(m, off, end) \in Bitmaps /\ Agree(Marked(m, off, end), got \cup off .. end - 1)
<1>1. PICK q : q = Marked(m, off, end)
  OBVIOUS
<1>2. /\ q \in Bitmaps
      /\ \A i \in Cells, k \in Bits : k \in q[i] <=>
            \/ k \in m[i]
            \/ /\ off \div PerByte < i \/ (off \div PerByte = i /\ off % PerByte <= k)
               /\ i < end \div PerByte \/ (i = end \div PerByte /\ k < end % PerByte)
  BY <1>1, MarkedBits
<1>3. ASSUME NEW b \in 0 .. BufBlocks - 1, b \div PerByte \in Cells
      PROVE  b % PerByte \in q[b \div PerByte] <=> b \in got \cup off .. end - 1
  <2>1. b \in Nat /\ b <= BufBlocks
    BY ReassSizes
  <2>2. PICK i \in Cells, k \in Bits : i = b \div PerByte /\ k = b % PerByte
    BY <1>3, <2>1, BlockAddress
  <2>3. k \in m[i] <=> b \in got
    BY <1>3, <2>2 DEF Agree
  <2>4. b < end <=> i < end \div PerByte \/ (i = end \div PerByte /\ k < end % PerByte)
    BY <2>1, <2>2, EarlierBlock
  <2>5. b < off <=> i < off \div PerByte \/ (i = off \div PerByte /\ k < off % PerByte)
    BY <2>1, <2>2, EarlierBlock
  <2>6. /\ i \in Nat /\ k \in Nat /\ off \div PerByte \in Nat /\ off % PerByte \in Nat
    BY <2>1, <2>2, BlockAddress DEF Bits
  <2>7. ~(b < off) <=> off \div PerByte < i \/ (off \div PerByte = i /\ off % PerByte <= k)
    BY <2>5, <2>6
  <2>8. b \in off .. end - 1 <=> ~(b < off) /\ b < end
    BY <2>1
  <2> QED
    BY <1>2, <2>2, <2>3, <2>4, <2>7, <2>8
<1> QED
  BY <1>1, <1>2, <1>3 DEF Agree

ReassInv ==
    /\ reassbitmap \in Bitmaps
    /\ reasstmr # 0 => Agree(reassbitmap, received)

(* uip_reass keeps the invariant.                                          *)
LEMMA ReassKeeps ==
    ASSUME ReassInv, NEW d \in Datagram, NEW f \in Fragments(d), UipReass(d, f.off, f.end)
    PROVE  ReassInv'
<1> DEFINE fresh == reasstmr = 0
           m     == IF fresh THEN NoBits ELSE reassbitmap
           got   == IF fresh THEN {} ELSE received
           m2    == Marked(m, f.off, f.end)
           got2  == got \cup f.off .. f.end - 1
<1>1. \/ UNCHANGED <<reasstmr, reassbitmap, received>>
      \/ reasstmr' = 0 /\ reassbitmap' = m
      \/ Inside(f.end) /\ reassbitmap' = m2 /\ received' = got2
  BY DEF UipReass
<1>2. f.off \in Nat /\ f.end \in Nat /\ f.off < f.end
  BY ReassSizes DEF Fragments
<1>3. reassbitmap \in Bitmaps /\ (reasstmr # 0 => Agree(reassbitmap, received))
  BY DEF ReassInv
<1>4. m \in Bitmaps /\ Agree(m, got)
  <2>1. NoBits \in Bitmaps
    BY DEF NoBits, Bitmaps
  <2>2. Agree(NoBits, {})
    BY DEF Agree, NoBits
  <2> QED
    BY <1>3, <2>1, <2>2
<1>5. Inside(f.end) => m2 \in Bitmaps /\ Agree(m2, got2)
  <2> HIDE DEF m, got
  <2> QED
    BY <1>2, <1>4, MarkedAgree DEF Inside
<1>6. CASE UNCHANGED <<reasstmr, reassbitmap, received>>
  BY <1>3, <1>6 DEF ReassInv
<1>7. CASE reasstmr' = 0 /\ reassbitmap' = m
  <2> HIDE DEF m
  <2> QED
    BY <1>4, <1>7 DEF ReassInv
<1>8. CASE Inside(f.end) /\ reassbitmap' = m2 /\ received' = got2
  <2> HIDE DEF m2, got2
  <2> QED
    BY <1>5, <1>8 DEF ReassInv
<1> QED
  BY <1>1, <1>6, <1>7, <1>8

(* Every step of uip_reass keeps bitmap and blocks in agreement.           *)
LEMMA ReassStep ==
    ASSUME ReassInv, [ReassNext]_reassVars
    PROVE  ReassInv'
<1>1. CASE ReassTimer
  <2>1. UNCHANGED <<reassbitmap, received>> /\ reasstmr # 0
    BY <1>1 DEF ReassTimer
  <2> QED
    BY <2>1 DEF ReassInv
<1>2. CASE UNCHANGED reassVars
  BY <1>2 DEF reassVars, ReassInv
<1>3. CASE \E d \in Datagram : \E f \in Fragments(d) : UipReass(d, f.off, f.end)
  BY <1>3, ReassKeeps
<1> QED
  BY <1>1, <1>2, <1>3 DEF ReassNext

\* uip_reass and its bitmap_bits for datagrams, buffers and bytes of any size: as long as no
\* fragment reaches behind the two arrays, the bitmap marks what has arrived, in whatever order
\* and overlap.
THEOREM BitmapRight == ReassSpec => []BitmapIsReceived
<1>1. ReassInit => ReassInv
  <2>1. NoBits \in Bitmaps
    BY DEF NoBits, Bitmaps
  <2> QED
    BY <2>1 DEF ReassInit, ReassInv
<1>2. ReassInv /\ [ReassNext]_reassVars => ReassInv'
  BY ReassStep
<1>3. ReassInv => BitmapIsReceived
  BY DEF ReassInv, Agree, BitmapIsReceived
<1> QED
  BY <1>1, <1>2, <1>3, PTL DEF ReassSpec
-----------------------------------------------------------------------------
(***************************************************************************)
(* Arithmetic on octets: 32-bit numbers in four bytes, then the checksum   *)
(* as a sum modulo the largest word, Most.                                 *)
(***************************************************************************)
(* Below h there is one more digit, d.                                     *)
Extended(B, h, h2, d, d2, k, M, t) == (h * B + d) + k = (h2 * B + d2) + (M * B) * t
(* A number h and a digit d below it grow by k if the digit does, with carry l into h. *)
LEMMA DigitAdded ==
    ASSUME NEW B \in Int, NEW h \in Int, NEW h2 \in Int, NEW d \in Int, NEW d2 \in Int,
           NEW k \in Int, NEW M \in Int, NEW t \in Int,
           \E l \in Int : d + k = d2 + B * l /\ h + l = h2 + M * t
    PROVE  Extended(B, h, h2, d, d2, k, M, t)
<1>0. PICK l \in Int : d + k = d2 + B * l /\ h + l = h2 + M * t
  OBVIOUS
<1>1. (h + l) * B = h * B + l * B
  OBVIOUS
<1>2. (h2 + M * t) * B = h2 * B + (M * B) * t
  OBVIOUS
<1>3. l * B = B * l
  OBVIOUS
<1>4. h * B + B * l = h2 * B + (M * B) * t
  BY <1>0, <1>1, <1>2, <1>3
<1>5. PICK a \in Int, b \in Int, c \in Int, e \in Int : a = h * B /\ b = B * l /\ c = h2 * B /\ e = (M * B) * t
  OBVIOUS
<1> QED
  BY <1>0, <1>4, <1>5 DEF Extended

(* A positive multiple is not below what it is a multiple of.              *)
LEMMA Multiple ==
    ASSUME NEW m \in Nat \ {0}, NEW n \in Nat \ {0}
    PROVE  m * n \in Nat /\ m * n >= m
<1>1. PICK k \in Nat : n = k + 1
  <2>1. n - 1 \in Nat /\ n = (n - 1) + 1
    OBVIOUS
  <2> QED
    BY <2>1
<1>2. m * n = m * k + m /\ m * k \in Nat
  BY <1>1
<1> QED
  BY <1>2

(* Quotient and rest are unique.                                           *)
LEMMA RestIs ==
    ASSUME NEW m \in Nat \ {0}, NEW x \in Int, NEW q \in Int, NEW v \in 0 .. m - 1, x = m * q + v
    PROVE  x % m = v
<1>1. PICK p \in Int, w \in 0 .. m - 1 : w = x % m /\ x = m * p + w
  <2>1. x \div m \in Int /\ x % m \in 0 .. m - 1 /\ x = m * (x \div m) + (x % m)
    OBVIOUS
  <2> QED
    BY <2>1
<1>2. PICK d \in Int : d = q - p
  OBVIOUS
<1>3. m * q = m * p + m * d
  BY <1>2
<1>4. m * d = w - v
  <2>1. PICK a \in Int, b \in Int : a = m * p /\ b = m * d
    OBVIOUS
  <2>2. x = a + b + v /\ x = a + w
    BY <1>1, <1>3, <2>1
  <2>3. b = w - v
    BY <2>2
  <2> QED
    BY <2>1, <2>3
<1>5. CASE d = 0
  BY <1>1, <1>4, <1>5
<1>6. CASE d > 0
  <2>1. m * d >= m
    BY <1>6, Multiple
  <2> QED
    BY <1>4, <2>1
<1>7. CASE d < 0
  <2>1. m * (0 - d) >= m /\ m * (0 - d) = 0 - m * d
    BY <1>7, Multiple
  <2> QED
    BY <1>4, <2>1
<1> QED
  BY <1>5, <1>6, <1>7

(* A byte holds 0 and 1.                                                   *)
LEMMA Bases == Base \in Nat \ {0} /\ 1 \in Byte /\ 0 \in Byte
BY ArithAssumption DEF ArithAssumption, Byte

(* A digit x grows by k to s with carry c.                                 *)
Carried(x, k, s, c) == s \in Byte /\ c \in {0, 1} /\ x + k = s + Base * c

(* The carry is one exactly if the sum is below what was added.            *)
LEMMA CarrySeen ==
    ASSUME NEW x \in Byte, NEW k \in Byte, NEW s, s = (x + k) % Base, NEW c, c = IF s < k THEN 1 ELSE 0
    PROVE  Carried(x, k, s, c)
<1>1. PICK m \in Nat \ {0} : m = Base
  BY Bases
<1>2. x \in 0 .. m - 1 /\ k \in 0 .. m - 1 /\ s = (x + k) % m
  BY <1>1 DEF Byte
<1>3. CASE x + k < m
  <2>1. s = x + k
    BY <1>1, <1>2, <1>3
  <2>2. c = 0 /\ s \in 0 .. m - 1
    BY <1>2, <1>3, <2>1
  <2> QED
    BY <1>1, <1>2, <2>1, <2>2 DEF Carried, Byte
<1>4. CASE x + k >= m
  <2>1. x + k = m * 1 + (x + k - m) /\ x + k - m \in 0 .. m - 1 /\ x + k \in Int
    BY <1>2, <1>4
  <2>2. s = x + k - m
    BY <1>2, <2>1, RestIs
  <2>3. c = 1
    BY <1>2, <2>2
  <2> QED
    BY <1>1, <1>2, <2>1, <2>2, <2>3 DEF Carried, Byte
<1> QED
  BY <1>2, <1>3, <1>4

(* An incremented byte has carried exactly if it is 0 (the tests of uip_add32 on op32). *)
LEMMA UpCarries ==
    ASSUME NEW x \in Byte, NEW k \in {0, 1}, NEW s, s = IF k = 1 THEN Up(x) ELSE x,
           NEW c, c = IF k = 1 /\ s = 0 THEN 1 ELSE 0
    PROVE  Carried(x, k, s, c)
<1>1. CASE k = 0
  BY <1>1, Bases DEF Byte, Carried
<1>2. CASE k = 1
  <2>1. s = (x + 1) % Base /\ 1 \in Byte
    BY <1>2, Bases DEF Up
  <2>2. PICK d : d = IF s < 1 THEN 1 ELSE 0
    OBVIOUS
  <2>3. Carried(x, 1, s, d)
    BY <2>1, <2>2, CarrySeen
  <2>4. s < 1 <=> s = 0
    BY <2>3 DEF Carried, Byte
  <2> QED
    BY <1>2, <2>2, <2>3, <2>4
<1> QED
  BY <1>1, <1>2

Value3(x, y, z) == (x * Base + y) * Base + z
Value(q) == ((q[1] * Base + q[2]) * Base + q[3]) * Base + q[4]
Quads == Byte \X Byte \X Byte \X Byte

(* The number of three digits is one.                                      *)
LEMMA ValueIsInt == \A x, y, z \in Int : Value3(x, y, z) \in Int
<1>1. PICK m \in Int : m = Base
  BY Bases
<1>2. \A x, y, z \in Int : (x * m + y) * m + z \in Int
  OBVIOUS
<1> QED
  BY <1>1, <1>2 DEF Value3

(* A number of three digits grows by k, to s with carry c in its last one. *)
ThreeGrow(x, y, z, k, x2, y2, s) ==
    /\ y2 \in Byte /\ x2 \in Byte
    /\ \E t \in Int : Value3(x, y, z) + k = Value3(x2, y2, s) + ((Base * Base) * Base) * t

(* The upper three bytes with the carries that uip_add32 tests for.        *)
LEMMA ThreeDigits ==
    ASSUME NEW x \in Byte, NEW y \in Byte, NEW z \in Byte, NEW k \in Byte, NEW s, NEW c, Carried(z, k, s, c),
           NEW y2, y2 = IF c = 1 THEN Up(y) ELSE y,
           NEW x2, x2 = IF c = 1 /\ y2 = 0 THEN Up(x) ELSE x
    PROVE  ThreeGrow(x, y, z, k, x2, y2, s)
<1>0. s \in Byte /\ c \in {0, 1} /\ z + k = s + Base * c
  BY DEF Carried
<1>1. PICK d : d = IF c = 1 /\ y2 = 0 THEN 1 ELSE 0
  OBVIOUS
<1>2. Carried(y, c, y2, d)
  BY <1>0, <1>1, UpCarries
<1>3. y2 \in Byte /\ d \in {0, 1} /\ y + c = y2 + Base * d
  BY <1>2 DEF Carried
<1>4. x2 = IF d = 1 THEN Up(x) ELSE x
  BY <1>1
<1>5. PICK t : t = IF d = 1 /\ x2 = 0 THEN 1 ELSE 0
  OBVIOUS
<1>6. Carried(x, d, x2, t)
  BY <1>3, <1>4, <1>5, UpCarries
<1>7. x2 \in Byte /\ t \in {0, 1} /\ x + d = x2 + Base * t
  BY <1>6 DEF Carried
<1>8. PICK m \in Int : m = Base
  BY Bases
<1>9. /\ x \in Int /\ y \in Int /\ z \in Int /\ k \in Int /\ s \in Int /\ c \in Int
      /\ d \in Int /\ t \in Int /\ x2 \in Int /\ y2 \in Int
  BY <1>0, <1>3, <1>7, <1>8 DEF Byte
<1>10. (x * m + y) + c = (x2 * m + y2) + (m * m) * t
  <2>1. \E e \in Int : y + c = y2 + m * e /\ x + e = x2 + m * t
    BY <1>3, <1>7, <1>8, <1>9
  <2> QED
    <3>1. Extended(m, x, x2, y, y2, c, m, t)
      BY <1>9, <2>1, DigitAdded
    <3> QED
      BY <3>1 DEF Extended
<1>11. ((x * m + y) * m + z) + k = ((x2 * m + y2) * m + s) + ((m * m) * m) * t
  <2>1. x * m + y \in Int /\ x2 * m + y2 \in Int /\ m * m \in Int
    BY <1>9
  <2>2. \E e \in Int : z + k = s + m * e /\ (x * m + y) + e = (x2 * m + y2) + (m * m) * t
    BY <1>0, <1>8, <1>9, <1>10
  <2> QED
    <3>1. Extended(m, x * m + y, x2 * m + y2, z, s, k, m * m, t)
      BY <1>9, <2>1, <2>2, DigitAdded
    <3> QED
      BY <3>1 DEF Extended
<1> QED
  BY <1>3, <1>7, <1>8, <1>9, <1>11 DEF Value3, ThreeGrow

(* uip_add32 adds, and what it drops is a multiple of Base^4.              *)
AddsTo(q, n, r) == r \in Quads /\ \E t \in Int : Value(q) + n = Value(r) + (Base * Base * Base * Base) * t

(* A word is its high byte and its low byte.                               *)
LEMMA HalvesOf ==
    ASSUME NEW n \in Word
    PROVE  n \div Base \in Byte /\ n % Base \in Byte /\ n = (n \div Base) * Base + (n % Base)
<1>0. PICK m \in Nat \ {0} : m = Base
  BY Bases
<1>1. n \in Nat /\ n < m * m
  BY <1>0 DEF Word
<1>2. PICK h \in Nat, l \in 0 .. m - 1 : h = n \div m /\ l = n % m /\ n = m * h + l
  <2>1. n \div m \in Nat /\ n % m \in 0 .. m - 1 /\ n = m * (n \div m) + (n % m)
    BY <1>1
  <2> QED
    BY <2>1
<1>3. h < m
  <2>1. SUFFICES ASSUME h >= m PROVE FALSE
    OBVIOUS
  <2>2. PICK e \in Nat : h = m + e
    <3>1. h - m \in Nat /\ h = m + (h - m)
      BY <2>1
    <3> QED
      BY <3>1
  <2>3. m * h = m * m + m * e /\ m * e \in Nat /\ m * m \in Nat
    BY <2>2
  <2> QED
    BY <1>1, <1>2, <2>3
<1>4. h * m = m * h
  OBVIOUS
<1> QED
  BY <1>0, <1>2, <1>3, <1>4 DEF Byte

(* uip_add32 adds a word to the number in the four bytes.                  *)
LEMMA Add32 ==
    ASSUME NEW q \in Quads, NEW n \in Word, NEW r, r = UipAdd32(q, n)
    PROVE  AddsTo(q, n, r)
<1>1. PICK hi \in Byte, lo \in Byte : hi = n \div Base /\ lo = n % Base /\ n = hi * Base + lo
  BY HalvesOf
<1>2. PICK q1 \in Byte, q2 \in Byte, q3 \in Byte, q4 \in Byte : q = <<q1, q2, q3, q4>>
  BY DEF Quads
<1>3. PICK b4 : b4 = (q4 + lo) % Base
  OBVIOUS
<1>4. PICK b3 : b3 = (q3 + hi) % Base
  OBVIOUS
<1>5. PICK a2 : a2 = IF b3 < hi THEN Up(q2) ELSE q2
  OBVIOUS
<1>6. PICK a1 : a1 = IF b3 < hi /\ a2 = 0 THEN Up(q1) ELSE q1
  OBVIOUS
<1>7. PICK c3 : c3 = IF b4 < lo THEN Up(b3) ELSE b3
  OBVIOUS
<1>8. PICK c2 : c2 = IF b4 < lo /\ c3 = 0 THEN Up(a2) ELSE a2
  OBVIOUS
<1>9. PICK c1 : c1 = IF b4 < lo /\ c3 = 0 /\ c2 = 0 THEN Up(a1) ELSE a1
  OBVIOUS
<1>10. r = <<c1, c2, c3, b4>>
  BY <1>1, <1>2, <1>3, <1>4, <1>5, <1>6, <1>7, <1>8, <1>9 DEF UipAdd32
<1>11. PICK k4 : k4 = IF b4 < lo THEN 1 ELSE 0
  OBVIOUS
<1>12. PICK k3 : k3 = IF b3 < hi THEN 1 ELSE 0
  OBVIOUS
<1>13. Carried(q4, lo, b4, k4)
  BY <1>3, <1>11, CarrySeen
<1>14. Carried(q3, hi, b3, k3)
  BY <1>4, <1>12, CarrySeen
<1>15. (a2 = IF k3 = 1 THEN Up(q2) ELSE q2) /\ (a1 = IF k3 = 1 /\ a2 = 0 THEN Up(q1) ELSE q1)
  BY <1>5, <1>6, <1>12
<1>16. ThreeGrow(q1, q2, q3, hi, a1, a2, b3)
  BY <1>14, <1>15, ThreeDigits
<1>17. a1 \in Byte /\ a2 \in Byte /\ b3 \in Byte /\ b4 \in Byte /\ k4 \in {0, 1} /\ q4 + lo = b4 + Base * k4
  BY <1>13, <1>14, <1>16 DEF Carried, ThreeGrow
<1>18. PICK l : l = IF k4 = 1 /\ c3 = 0 THEN 1 ELSE 0
  OBVIOUS
<1>19. Carried(b3, k4, c3, l)
  <2>1. c3 = IF k4 = 1 THEN Up(b3) ELSE b3
    BY <1>7, <1>11
  <2> QED
    BY <1>17, <1>18, <2>1, UpCarries
<1>20. (c2 = IF l = 1 THEN Up(a2) ELSE a2) /\ (c1 = IF l = 1 /\ c2 = 0 THEN Up(a1) ELSE a1)
  BY <1>8, <1>9, <1>11, <1>18
<1>21. k4 \in Byte
  BY <1>17, Bases
<1>22. ThreeGrow(a1, a2, b3, k4, c1, c2, c3)
  <2>1. a1 \in Byte /\ a2 \in Byte /\ b3 \in Byte
    BY <1>17
  <2>2. c2 = IF l = 1 THEN Up(a2) ELSE a2
    BY <1>20
  <2>3. c1 = IF l = 1 /\ c2 = 0 THEN Up(a1) ELSE a1
    BY <1>20
  <2> QED
    BY <1>19, <1>21, <2>1, <2>2, <2>3, ThreeDigits
<1>23. c1 \in Byte /\ c2 \in Byte /\ c3 \in Byte
  BY <1>19, <1>22 DEF Carried, ThreeGrow
<1>24. PICK m \in Int : m = Base
  BY Bases
<1>25. PICK t \in Int : Value3(q1, q2, q3) + hi = Value3(a1, a2, b3) + ((m * m) * m) * t
  BY <1>16, <1>24 DEF ThreeGrow
<1>26. PICK u \in Int : Value3(a1, a2, b3) + k4 = Value3(c1, c2, c3) + ((m * m) * m) * u
  BY <1>22, <1>24 DEF ThreeGrow
<1>27. \A b \in Byte : b \in Int
  BY <1>24 DEF Byte
<1>28. PICK vq \in Int, va \in Int, vc \in Int :
          vq = Value3(q1, q2, q3) /\ va = Value3(a1, a2, b3) /\ vc = Value3(c1, c2, c3)
  BY <1>17, <1>23, <1>27, ValueIsInt
<1>29. PICK m3 \in Int : m3 = (m * m) * m
  OBVIOUS
<1>30. Value(q) = vq * m + q4 /\ Value(r) = vc * m + b4
  BY <1>2, <1>10, <1>24, <1>28 DEF Value, Value3
<1>31. hi \in Int /\ lo \in Int /\ q4 \in Int /\ b4 \in Int /\ k4 \in Int /\ t + u \in Int /\ hi + k4 \in Int
  BY <1>17, <1>27
<1>32. vq + (hi + k4) = vc + m3 * (t + u)
  <2>1. m3 * (t + u) = m3 * t + m3 * u
    OBVIOUS
  <2>2. PICK x \in Int, y \in Int : x = m3 * t /\ y = m3 * u
    OBVIOUS
  <2>3. vq + hi = va + x /\ va + k4 = vc + y
    BY <1>25, <1>26, <1>28, <1>29, <2>2
  <2> QED
    BY <1>31, <2>1, <2>2, <2>3
<1>33. q4 + n = b4 + m * (hi + k4)
  <2>1. PICK x \in Int, y \in Int : x = hi * m /\ y = m * k4
    BY <1>31
  <2>2. m * (hi + k4) = x + y
    BY <1>31, <2>1
  <2>3. n = x + lo /\ q4 + lo = b4 + y
    BY <1>1, <1>17, <1>24, <2>1
  <2> QED
    BY <1>31, <2>2, <2>3
<1>34. n \in Int
  BY <1>1, <1>24, <1>31
<1>35. (vq * m + q4) + n = (vc * m + b4) + (m3 * m) * (t + u)
  <2>1. \E e \in Int : q4 + n = b4 + m * e /\ vq + e = vc + m3 * (t + u)
    BY <1>31, <1>32, <1>33
  <2> QED
    <3>1. Extended(m, vq, vc, q4, b4, n, m3, t + u)
      BY <1>31, <1>34, <2>1, DigitAdded
    <3> QED
      BY <3>1 DEF Extended
<1>36. r \in Quads
  BY <1>10, <1>17, <1>23 DEF Quads
<1> QED
  BY <1>24, <1>29, <1>30, <1>31, <1>35, <1>36 DEF AddsTo

(* The chain of increments adds 1.                                         *)
LEMMA Incremented ==
    ASSUME NEW q \in Quads, NEW r, r = Increment(q)
    PROVE  AddsTo(q, 1, r)
<1>1. PICK q1 \in Byte, q2 \in Byte, q3 \in Byte, q4 \in Byte : q = <<q1, q2, q3, q4>>
  BY DEF Quads
<1>2. PICK d4 : d4 = Up(q4)
  OBVIOUS
<1>3. PICK d3 : d3 = IF d4 = 0 THEN Up(q3) ELSE q3
  OBVIOUS
<1>4. PICK d2 : d2 = IF d4 = 0 /\ d3 = 0 THEN Up(q2) ELSE q2
  OBVIOUS
<1>5. PICK d1 : d1 = IF d4 = 0 /\ d3 = 0 /\ d2 = 0 THEN Up(q1) ELSE q1
  OBVIOUS
<1>6. r = <<d1, d2, d3, d4>>
  BY <1>1, <1>2, <1>3, <1>4, <1>5 DEF Increment
<1>7. PICK k4 : k4 = IF d4 = 0 THEN 1 ELSE 0
  OBVIOUS
<1>8. Carried(q4, 1, d4, k4)
  <2>1. PICK one \in {0, 1} : one = 1
    OBVIOUS
  <2>2. d4 = (IF one = 1 THEN Up(q4) ELSE q4) /\ k4 = IF one = 1 /\ d4 = 0 THEN 1 ELSE 0
    BY <1>2, <1>7, <2>1
  <2>3. Carried(q4, one, d4, k4)
    BY <2>2, UpCarries
  <2> QED
    BY <2>1, <2>3
<1>9. PICK k3 : k3 = IF k4 = 1 /\ d3 = 0 THEN 1 ELSE 0
  OBVIOUS
<1>10. k4 \in {0, 1} /\ d4 \in Byte /\ q4 + 1 = d4 + Base * k4
  BY <1>8 DEF Carried
<1>11. Carried(q3, k4, d3, k3)
  <2>1. d3 = IF k4 = 1 THEN Up(q3) ELSE q3
    BY <1>3, <1>7
  <2> QED
    BY <1>9, <1>10, <2>1, UpCarries
<1>12. (d2 = IF k3 = 1 THEN Up(q2) ELSE q2) /\ (d1 = IF k3 = 1 /\ d2 = 0 THEN Up(q1) ELSE q1)
  BY <1>4, <1>5, <1>7, <1>9
<1>13. k4 \in Byte
  BY <1>10, Bases
<1>14. ThreeGrow(q1, q2, q3, k4, d1, d2, d3)
  BY <1>11, <1>12, <1>13, ThreeDigits
<1>15. PICK m \in Int : m = Base
  BY Bases
<1>16. PICK t \in Int : Value3(q1, q2, q3) + k4 = Value3(d1, d2, d3) + ((m * m) * m) * t
  BY <1>14, <1>15 DEF ThreeGrow
<1>17. d1 \in Byte /\ d2 \in Byte /\ d3 \in Byte
  BY <1>11, <1>14 DEF Carried, ThreeGrow
<1>18. \A b \in Byte : b \in Int
  BY <1>15 DEF Byte
<1>19. PICK vq \in Int, vd \in Int : vq = Value3(q1, q2, q3) /\ vd = Value3(d1, d2, d3)
  BY <1>17, <1>18, ValueIsInt
<1>20. PICK m3 \in Int : m3 = (m * m) * m
  OBVIOUS
<1>21. Value(q) = vq * m + q4 /\ Value(r) = vd * m + d4
  BY <1>1, <1>6, <1>15, <1>19 DEF Value, Value3
<1>22. q4 \in Int /\ d4 \in Int /\ k4 \in Int /\ 1 \in Int
  BY <1>10, <1>18
<1>23. q4 + 1 = d4 + m * k4 /\ vq + k4 = vd + m3 * t
  BY <1>10, <1>15, <1>16, <1>19, <1>20
<1>24. (vq * m + q4) + 1 = (vd * m + d4) + (m3 * m) * t
  <2>1. \E e \in Int : q4 + 1 = d4 + m * e /\ vq + e = vd + m3 * t
    BY <1>22, <1>23
  <2> QED
    <3>1. Extended(m, vq, vd, q4, d4, 1, m3, t)
      BY <1>22, <2>1, DigitAdded
    <3> QED
      BY <3>1 DEF Extended
<1>25. r \in Quads
  BY <1>6, <1>10, <1>17 DEF Quads
<1> QED
  BY <1>15, <1>20, <1>21, <1>24, <1>25 DEF AddsTo

(* What holds of 0 and, with i - 1, of i, holds up to n.                   *)
LEMMA StepByStep ==
    ASSUME NEW n \in Nat, NEW P, 0 \in P, \A i \in 1 .. n : i - 1 \in P => i \in P
    PROVE  \A i \in 0 .. n : i \in P
<1> DEFINE D == (0 .. n) \ P
<1>1. ASSUME D # {} PROVE FALSE
  <2>1. PICK i \in D : \A j \in D : i <= j
    <3>1. D \in SUBSET Nat
      OBVIOUS
    <3> HIDE DEF D
    <3> QED
      BY <1>1, <3>1, SmallestOf
  <2>2. i \in 1 .. n
    BY <2>1
  <2>3. i - 1 \in P
    BY <2>1, <2>2
  <2> QED
    BY <2>1, <2>2, <2>3
<1> QED
  BY <1>1

(* A loop that makes each state of the one before has its sequence of states. *)
IsLoop(f, n, S, a, g) == f \in [0 .. n -> S] /\ f[0] = a /\ \A i \in 1 .. n : f[i] = g[i][f[i - 1]]
LEMMA LoopRuns ==
    ASSUME NEW n \in Nat, NEW S, NEW a \in S, NEW g \in [1 .. n -> [S -> S]]
    PROVE  \E f : IsLoop(f, n, S, a, g)
<1> DEFINE Runs(m, f) == f \in [0 .. m -> S] /\ f[0] = a /\ \A i \in 1 .. m : f[i] = g[i][f[i - 1]]
           P == {m \in 0 .. n : \E f : Runs(m, f)}
<1>1. 0 \in P
  <2>1. Runs(0, [i \in 0 .. 0 |-> a])
    OBVIOUS
  <2> HIDE DEF Runs
  <2> QED
    BY <2>1
<1>2. ASSUME NEW m \in 1 .. n, m - 1 \in P PROVE m \in P
  <2>1. PICK f : Runs(m - 1, f)
    BY <1>2
  <2> DEFINE h == [i \in 0 .. m |-> IF i = m THEN g[m][f[m - 1]] ELSE f[i]]
  <2>2. f[m - 1] \in S
    BY <2>1
  <2>3. g[m][f[m - 1]] \in S
    BY <2>2
  <2>4. h \in [0 .. m -> S] /\ h[0] = a
    BY <2>1, <2>3
  <2>5. \A i \in 1 .. m : h[i] = g[i][h[i - 1]]
    <3>1. ASSUME NEW i \in 1 .. m - 1 PROVE h[i] = g[i][h[i - 1]]
      <4>1. h[i] = f[i] /\ h[i - 1] = f[i - 1]
        OBVIOUS
      <4> QED
        BY <2>1, <4>1
    <3>2. h[m] = g[m][h[m - 1]]
      OBVIOUS
    <3>3. \A i \in 1 .. m : i \in 1 .. m - 1 \/ i = m
      OBVIOUS
    <3> HIDE DEF h
    <3> QED
      BY <3>1, <3>2, <3>3, Zenon
  <2>6. Runs(m, h)
    BY <2>4, <2>5
  <2> HIDE DEF Runs, h
  <2> QED
    BY <2>6
<1>3. n \in P
  <2>1. n \in 0 .. n
    OBVIOUS
  <2> HIDE DEF P
  <2>2. \A i \in 0 .. n : i \in P
    BY <1>1, <1>2, StepByStep
  <2> QED
    BY <2>1, <2>2
<1>4. PICK f : Runs(n, f)
  BY <1>3
<1> QED
  BY <1>4 DEF IsLoop

(* Products of integers, for steps that must not multiply out.             *)
LEMMA ProductInt == \A x, y \in Int : x * y \in Int
OBVIOUS

(* Powers of the base                                                      *)
LEMMA ValueBound ==
    ASSUME NEW q \in Quads
    PROVE  Value(q) \in 0 .. Base * Base * Base * Base - 1
<1>1. PICK m \in Nat \ {0} : m = Base
  BY Bases
<1>2. ASSUME NEW M \in Nat, NEW h \in 0 .. M - 1, NEW d \in 0 .. m - 1
      PROVE  h * m + d \in 0 .. M * m - 1
  <2>1. PICK e \in Nat : M = h + 1 + e
    <3>1. M - 1 - h \in Nat /\ M = h + 1 + (M - 1 - h)
      OBVIOUS
    <3> QED
      BY <3>1
  <2>2. M * m = h * m + m + e * m /\ e * m \in Nat /\ h * m \in Nat
    BY <2>1
  <2> QED
    BY <2>2
<1>3. PICK q1 \in 0 .. m - 1, q2 \in 0 .. m - 1, q3 \in 0 .. m - 1, q4 \in 0 .. m - 1 : q = <<q1, q2, q3, q4>>
  BY <1>1 DEF Quads, Byte
<1>4. q1 * m + q2 \in 0 .. m * m - 1
  BY <1>2
<1>5. m * m \in Nat /\ m * m * m \in Nat
  OBVIOUS
<1>6. (q1 * m + q2) * m + q3 \in 0 .. m * m * m - 1
  BY <1>2, <1>4, <1>5
<1>7. ((q1 * m + q2) * m + q3) * m + q4 \in 0 .. m * m * m * m - 1
  BY <1>2, <1>6, <1>5
<1> QED
  BY <1>1, <1>3, <1>7 DEF Value

(* What was added modulo Base^4, as the run states it.                     *)
LEMMA SumKept ==
    ASSUME NEW q \in Quads, NEW n \in Int, NEW r, AddsTo(q, n, r)
    PROVE  Value(r) = (Value(q) + n) % (Base * Base * Base * Base)
<1>1. PICK m \in Nat \ {0} : m = Base
  BY Bases
<1>2. PICK M \in Nat \ {0} : M = Base * Base * Base * Base
  <2>1. m * m \in Nat \ {0}
    BY Multiple
  <2>2. (m * m) * m \in Nat \ {0}
    BY <2>1, Multiple
  <2>3. ((m * m) * m) * m \in Nat \ {0}
    BY <2>2, Multiple
  <2> QED
    BY <1>1, <2>3
<1>3. r \in Quads /\ \E t \in Int : Value(q) + n = Value(r) + M * t
  BY <1>2 DEF AddsTo
<1>4. PICK t \in Int : Value(q) + n = Value(r) + M * t
  BY <1>3
<1>5. Value(q) \in 0 .. M - 1 /\ Value(r) \in 0 .. M - 1
  BY <1>2, <1>3, ValueBound
<1>6. PICK x \in Int, v \in 0 .. M - 1 : x = Value(q) + n /\ v = Value(r)
  BY <1>5
<1>7. x = M * t + v
  <2>1. M * t \in Int
    OBVIOUS
  <2> QED
    BY <1>4, <1>6, <2>1
<1>8. x % M = v
  BY <1>6, <1>7, RestIs
<1> QED
  BY <1>2, <1>6, <1>8

(* The largest word, that the sums are taken modulo; equal modulo it.       *)
Most == Base * Base - 1
Same(x, y) == \E k \in Int : x = y + Most * k

(* The largest word; what is reduced modulo Base * Base in the code.       *)
LEMMA OnesIs == /\ Most \in Nat \ {0}
                /\ Base * Base = Most + 1
                /\ Base <= Most
                /\ Word = 0 .. Most
<1>1. PICK n \in Nat : Base = n + 2
  <2>1. Base - 2 \in Nat /\ Base = (Base - 2) + 2
    BY ArithAssumption DEF ArithAssumption
  <2> QED
    BY <2>1
<1>2. Base * Base = n * n + 4 * n + 4 /\ n * n \in Nat
  BY <1>1
<1> QED
  BY <1>1, <1>2 DEF Most, Word

(* Congruent numbers may be added and subtracted,                          *)
LEMMA SameAdds ==
    ASSUME NEW x \in Int, NEW y \in Int, NEW u \in Int, NEW v \in Int, Same(x, y), Same(u, v)
    PROVE  Same(x + u, y + v) /\ Same(x - u, y - v)
<1>1. PICK m \in Nat \ {0} : m = Most
  BY OnesIs
<1>2. PICK k \in Int : x = y + m * k
  BY <1>1 DEF Same
<1>3. PICK l \in Int : u = v + m * l
  BY <1>1 DEF Same
<1>4. m * (k + l) = m * k + m * l /\ m * (k - l) = m * k - m * l
  OBVIOUS
<1>5. m * k \in Int /\ m * l \in Int /\ k + l \in Int /\ k - l \in Int
  OBVIOUS
<1>6. x + u = (y + v) + m * (k + l)
  BY <1>2, <1>3, <1>4, <1>5
<1>7. x - u = (y - v) + m * (k - l)
  BY <1>2, <1>3, <1>4, <1>5
<1> QED
  BY <1>1, <1>5, <1>6, <1>7 DEF Same

(* and are congruent to themselves and both ways,                          *)
LEMMA SameIs ==
    ASSUME NEW x \in Int
    PROVE  Same(x, x) /\ Same(x + Most, x) /\ \A y \in Int : Same(x, y) => Same(y, x)
<1>1. PICK m \in Nat \ {0} : m = Most
  BY OnesIs
<1>2. x = x + m * 0 /\ x + m = x + m * 1
  OBVIOUS
<1>3. ASSUME NEW y \in Int, NEW k \in Int, x = y + m * k PROVE y = x + m * (0 - k)
  <2>1. m * (0 - k) = 0 - m * k /\ m * k \in Int
    OBVIOUS
  <2> QED
    BY <1>3, <2>1
<1>4. \A k \in Int : 0 - k \in Int
  OBVIOUS
<1>5. Same(x, x) /\ Same(x + Most, x)
  BY <1>1, <1>2 DEF Same
<1>6. ASSUME NEW y \in Int, Same(x, y) PROVE Same(y, x)
  <2>1. PICK k \in Int : x = y + m * k
    BY <1>1, <1>6 DEF Same
  <2> QED
    BY <1>1, <1>3, <1>4, <2>1 DEF Same
<1> QED
  BY <1>5, <1>6

(* and one after another,                                                  *)
LEMMA SameFollows ==
    ASSUME NEW x \in Int, NEW y \in Int, NEW z \in Int, Same(x, y), Same(y, z)
    PROVE  Same(x, z)
<1>1. Same(x + y, y + z)
  BY SameAdds
<1>2. Same(y, y)
  BY SameIs
<1>3. Same((x + y) - y, (y + z) - y)
  BY <1>1, <1>2, SameAdds
<1>4. (x + y) - y = x /\ (y + z) - y = z
  OBVIOUS
<1> QED
  BY <1>3, <1>4

(* and multiplied.                                                         *)
LEMMA SameTimes ==
    ASSUME NEW x \in Int, NEW y \in Int, NEW z \in Int, Same(x, y)
    PROVE  Same(x * z, y * z)
<1>1. PICK m \in Nat \ {0} : m = Most
  BY OnesIs
<1>2. PICK k \in Int : x = y + m * k
  BY <1>1 DEF Same
<1>3. x * z = y * z + m * (k * z) /\ k * z \in Int
  BY <1>2
<1> QED
  BY <1>1, <1>3 DEF Same

(* Divisible is what the property says of congruent numbers.               *)
LEMMA SameDivides ==
    ASSUME NEW x \in Int, NEW y \in Int, Same(x, y)
    PROVE  (x - y) % Most = 0
<1>1. PICK m \in Nat \ {0} : m = Most
  BY OnesIs
<1>2. PICK k \in Int : x = y + m * k
  BY <1>1 DEF Same
<1>3. PICK e \in Int : e = x - y
  OBVIOUS
<1>4. e = m * k + 0
  <2>1. m * k \in Int
    OBVIOUS
  <2> QED
    BY <1>2, <1>3, <2>1
<1>5. 0 \in 0 .. m - 1
  OBVIOUS
<1>6. e % m = 0
  BY <1>4, <1>5, RestIs
<1> QED
  BY <1>1, <1>3, <1>6

(* A word congruent to zero is zero or all ones.                           *)
LEMMA OnesOrZero ==
    ASSUME NEW w \in Word, Same(w, 0)
    PROVE  w = 0 \/ w = Most
<1>1. PICK m \in Nat \ {0} : m = Most
  BY OnesIs
<1>2. PICK k \in Int : w = m * k
  BY <1>1 DEF Same
<1>3. w \in 0 .. m
  BY <1>1, OnesIs
<1>4. CASE k <= 0
  <2>1. m * (0 - k) \in Nat /\ m * k = 0 - m * (0 - k)
    BY <1>4
  <2> QED
    BY <1>2, <1>3, <2>1
<1>5. CASE k = 1
  BY <1>1, <1>2, <1>5
<1>6. CASE k >= 2
  <2>1. m * (k - 2) \in Nat /\ m * k = m * (k - 2) + 2 * m
    BY <1>6
  <2> QED
    BY <1>2, <1>3, <2>1
<1> QED
  BY <1>4, <1>5, <1>6

(* An addition of chksum with its carry added in.                          *)
LEMMA AddWordIs ==
    ASSUME NEW x \in Word, NEW t \in Word, NEW r, r = AddWord(x, t)
    PROVE  r \in Word /\ Same(x + t, r) /\ (r = 0 <=> x = 0 /\ t = 0)
<1>1. PICK m \in Nat \ {0} : m = Most
  BY OnesIs
<1>2. x \in 0 .. m /\ t \in 0 .. m /\ Base * Base = m + 1
  BY <1>1, OnesIs
<1>3. r = LET s == (x + t) % (m + 1) IN IF s < t THEN (s + 1) % (m + 1) ELSE s
  BY <1>2 DEF AddWord
<1>4. CASE x + t <= m
  <2>1. (x + t) % (m + 1) = x + t
    BY <1>2, <1>4
  <2>2. r = x + t
    BY <1>2, <1>3, <2>1
  <2>3. Same(x + t, x + t)
    BY <1>2, SameIs
  <2> QED
    BY <1>1, <1>2, <1>4, <2>2, <2>3, OnesIs
<1>5. CASE x + t > m
  <2>1. (x + t) % (m + 1) = x + t - m - 1
    <3>1. x + t = (m + 1) * 1 + (x + t - m - 1) /\ x + t - m - 1 \in 0 .. (m + 1) - 1
      BY <1>2, <1>5
    <3>2. PICK y \in Int, v \in 0 .. (m + 1) - 1 : y = x + t /\ v = x + t - m - 1
      BY <1>2, <3>1
    <3>3. m + 1 \in Nat \ {0} /\ 1 \in Int /\ y = (m + 1) * 1 + v
      BY <3>1, <3>2
    <3>4. y % (m + 1) = v
      BY <3>3, RestIs
    <3> QED
      BY <3>2, <3>4
  <2>2. x + t - m - 1 < t /\ x + t - m \in 1 .. m
    BY <1>2, <1>5
  <2>3. (x + t - m) % (m + 1) = x + t - m
    BY <2>2
  <2>4. r = x + t - m
    <3>1. (x + t - m - 1) + 1 = x + t - m
      BY <1>2
    <3> QED
      BY <1>3, <2>1, <2>2, <2>3, <3>1
  <2>5. r \in Int /\ x + t = r + m
    BY <1>2, <2>4
  <2>6. Same(r + m, r)
    BY <1>1, <2>5, SameIs
  <2> QED
    BY <1>1, <1>2, <2>2, <2>4, <2>5, <2>6, OnesIs
<1> QED
  BY <1>2, <1>4, <1>5

(***************************************************************************)
(* Words of the data                                                       *)
(***************************************************************************)
LEMMA PairInWord ==
    ASSUME NEW a \in Byte, NEW b \in Byte
    PROVE  /\ a * Base + b \in Word
           /\ (a * Base + b) \div Base = a
           /\ (a * Base + b) % Base = b
<1>1. PICK m \in Nat \ {0} : m = Base
  BY Bases
<1>2. a \in 0 .. m - 1 /\ b \in 0 .. m - 1
  BY <1>1 DEF Byte
<1>3. a * m + b \in 0 .. m * m - 1
  <2>1. PICK e \in Nat : m = a + 1 + e
    <3>1. m - 1 - a \in Nat /\ m = a + 1 + (m - 1 - a)
      BY <1>2
    <3> QED
      BY <3>1
  <2>2. m * m = a * m + m + e * m /\ e * m \in Nat /\ a * m \in Nat
    BY <1>2, <2>1
  <2> QED
    BY <1>2, <2>2
<1>4. PICK w \in Word : w = a * Base + b
  BY <1>1, <1>3 DEF Word
<1>5. PICK h \in 0 .. m - 1, l \in 0 .. m - 1 : h = w \div Base /\ l = w % Base /\ w = h * m + l
  BY <1>1, HalvesOf DEF Byte
<1>6. l = b
  <2>1. w = m * a + b /\ w = m * h + l
    BY <1>1, <1>2, <1>4, <1>5
  <2>2. w \in Int /\ a \in Int
    BY <1>2, <2>1, ProductInt
  <2>3. w % m = b
    BY <1>2, <2>1, <2>2, RestIs
  <2> QED
    BY <1>1, <1>5, <2>3
<1>7. m * h = m * a
  <2>1. PICK c \in Int, d \in Int : c = m * h /\ d = m * a
    BY <1>2
  <2>2. w = c + l /\ w = d + b
    <3>1. h * m = m * h /\ a * m = m * a
      BY <1>2
    <3> QED
      BY <1>1, <1>4, <1>5, <2>1, <3>1
  <2> QED
    BY <1>2, <1>6, <2>1, <2>2
<1>8. h = a
  <2>1. PICK d \in Int : d = h - a
    BY <1>2
  <2>2. m * d = 0
    <3>1. m * d = m * h - m * a
      BY <1>2, <2>1
    <3> QED
      BY <1>2, <1>7, <3>1
  <2>3. d > 0 => m * d >= m
    BY Multiple
  <2>4. d < 0 => m * (0 - d) >= m /\ m * (0 - d) = 0 - m * d
    BY Multiple
  <2>5. d = 0
    BY <2>2, <2>3, <2>4
  <2> QED
    BY <1>2, <2>1, <2>5
<1> QED
  BY <1>1, <1>3, <1>4, <1>5, <1>6, <1>8 DEF Word

(* An odd or even number of bytes.                                          *)
LEMMA CountIs ==
    ASSUME NEW d \in Seq(Byte)
    PROVE  /\ WordCount(d) \in Nat
           /\ Len(d) = 2 * WordCount(d) \/ Len(d) = 2 * WordCount(d) - 1
<1> QED
  BY DEF WordCount

(* Each word of the data is one.                                           *)
LEMMA WordAtIs ==
    ASSUME NEW d \in Seq(Byte), NEW i \in 1 .. WordCount(d)
    PROVE  WordAt(d, i) \in Word
<1>1. 2 * i - 1 \in 1 .. Len(d)
  BY CountIs
<1>2. d[2 * i - 1] \in Byte
  BY <1>1
<1>3. 2 * i <= Len(d) => d[2 * i] \in Byte
  <2>1. 2 * i <= Len(d) => 2 * i \in 1 .. Len(d)
    BY CountIs
  <2> QED
    BY <2>1
<1>4. PICK b \in Byte : b = IF 2 * i <= Len(d) THEN d[2 * i] ELSE 0
  BY <1>3, Bases
<1> QED
  BY <1>2, <1>4, PairInWord DEF WordAt

(* Both sums are the last of a row of sums.                                *)
Sums(d, f, S, a) == f \in [0 .. WordCount(d) -> S] /\ f[0] = a
(* A word is a number.                                                     *)
LEMMA WordIsNat == \A w \in Word : w \in Nat
BY OnesIs

(* The loop of chksum has one sum after each word.                         *)
LEMMA ChksumRuns ==
    ASSUME NEW d \in Seq(Byte), NEW a \in Word
    PROVE  \E f : /\ Sums(d, f, Word, a)
                  /\ \A i \in 1 .. WordCount(d) : f[i] = AddWord(f[i - 1], WordAt(d, i))
                  /\ Chksum(a, d) = f[WordCount(d)]
<1>1. PICK n \in Nat : n = WordCount(d)
  BY CountIs
<1> DEFINE g == [i \in 1 .. n |-> [s \in Word |-> AddWord(s, WordAt(d, i))]]
           F(f) == [i \in 0 .. n |-> IF i = 0 THEN a ELSE AddWord(f[i - 1], WordAt(d, i))]
<1>2. g \in [1 .. n -> [Word -> Word]]
  BY <1>1, WordAtIs, AddWordIs
<1>3. PICK f : IsLoop(f, n, Word, a, g)
  <2> HIDE DEF g
  <2> QED
    BY <1>2, LoopRuns
<1>4. f = F(f)
  <2>1. f \in [0 .. n -> Word] /\ f[0] = a /\ \A i \in 1 .. n : f[i] = g[i][f[i - 1]]
    BY <1>3 DEF IsLoop
  <2>2. ASSUME NEW i \in 0 .. n PROVE f[i] = F(f)[i]
    <3>1. CASE i = 0
      BY <2>1, <3>1
    <3>2. CASE i # 0
      <4>1. i \in 1 .. n /\ i - 1 \in 0 .. n
        BY <3>2
      <4>2. f[i - 1] \in Word
        BY <2>1, <4>1
      <4>3. f[i] = AddWord(f[i - 1], WordAt(d, i))
        BY <2>1, <4>1, <4>2
      <4> QED
        BY <3>2, <4>3
    <3> QED
      BY <3>1, <3>2
  <2> QED
    BY <2>1, <2>2
<1> DEFINE e == CHOOSE h : h = F(h)
<1>5. e = F(e)
  BY <1>4
<1>6. Chksum(a, d) = e[n]
  BY <1>1 DEF Chksum
<1> HIDE DEF e
<1>7. e[0] = a /\ \A i \in 1 .. n : e[i] = AddWord(e[i - 1], WordAt(d, i))
  <2>1. \A i \in 0 .. n : e[i] = IF i = 0 THEN a ELSE AddWord(e[i - 1], WordAt(d, i))
    BY <1>5
  <2>2. 0 \in 0 .. n /\ \A i \in 1 .. n : i \in 0 .. n /\ i # 0
    OBVIOUS
  <2> QED
    BY <2>1, <2>2
<1>8. e \in [0 .. n -> Word]
  <2> DEFINE P == {i \in 0 .. n : e[i] \in Word}
  <2>1. 0 \in P
    BY <1>7
  <2>2. ASSUME NEW i \in 1 .. n, i - 1 \in P PROVE i \in P
    <3>1. e[i - 1] \in Word /\ WordAt(d, i) \in Word
      BY <1>1, <2>2, WordAtIs
    <3>2. AddWord(e[i - 1], WordAt(d, i)) \in Word
      BY <3>1, AddWordIs
    <3> QED
      BY <1>7, <3>2
  <2> HIDE DEF P
  <2>3. \A i \in 0 .. n : i \in P
    BY <2>1, <2>2, StepByStep
  <2>4. \A i \in 0 .. n : e[i] \in Word
    BY <2>3 DEF P
  <2>5. DOMAIN e = 0 .. n /\ e = [i \in 0 .. n |-> e[i]]
    <3>1. DOMAIN F(e) = 0 .. n /\ F(e) = [i \in 0 .. n |-> F(e)[i]]
      OBVIOUS
    <3> HIDE DEF F
    <3> QED
      BY <1>5, <3>1
  <2> QED
    BY <2>4, <2>5
<1> QED
  BY <1>1, <1>6, <1>7, <1>8 DEF Sums
(* The same for the sum without a limit.                                   *)
LEMMA PlainRuns ==
    ASSUME NEW d \in Seq(Byte)
    PROVE  \E f : /\ Sums(d, f, Nat, 0)
                  /\ \A i \in 1 .. WordCount(d) : f[i] = f[i - 1] + WordAt(d, i)
                  /\ PlainSum(d) = f[WordCount(d)]
<1>1. PICK n \in Nat : n = WordCount(d)
  BY CountIs
<1> DEFINE g == [i \in 1 .. n |-> [s \in Nat |-> s + WordAt(d, i)]]
           F(f) == [i \in 0 .. n |-> IF i = 0 THEN 0 ELSE f[i - 1] + WordAt(d, i)]
<1>2. g \in [1 .. n -> [Nat -> Nat]]
  BY <1>1, WordAtIs, WordIsNat
<1>3. PICK f : IsLoop(f, n, Nat, 0, g)
  <2> HIDE DEF g
  <2> QED
    BY <1>2, LoopRuns
<1>4. f = F(f)
  <2>1. f \in [0 .. n -> Nat] /\ f[0] = 0 /\ \A i \in 1 .. n : f[i] = g[i][f[i - 1]]
    BY <1>3 DEF IsLoop
  <2>2. ASSUME NEW i \in 0 .. n PROVE f[i] = F(f)[i]
    <3>1. CASE i = 0
      BY <2>1, <3>1
    <3>2. CASE i # 0
      <4>1. i \in 1 .. n /\ i - 1 \in 0 .. n
        BY <3>2
      <4>2. f[i - 1] \in Nat
        BY <2>1, <4>1
      <4>3. f[i] = f[i - 1] + WordAt(d, i)
        BY <2>1, <4>1, <4>2
      <4> QED
        BY <3>2, <4>3
    <3> QED
      BY <3>1, <3>2
  <2> QED
    BY <2>1, <2>2
<1> DEFINE e == CHOOSE h : h = F(h)
<1>5. e = F(e)
  BY <1>4
<1>6. PlainSum(d) = e[n]
  BY <1>1 DEF PlainSum
<1> HIDE DEF e
<1>7. e[0] = 0 /\ \A i \in 1 .. n : e[i] = e[i - 1] + WordAt(d, i)
  <2>1. \A i \in 0 .. n : e[i] = IF i = 0 THEN 0 ELSE e[i - 1] + WordAt(d, i)
    BY <1>5
  <2>2. 0 \in 0 .. n /\ \A i \in 1 .. n : i \in 0 .. n /\ i # 0
    OBVIOUS
  <2> QED
    BY <2>1, <2>2
<1>8. e \in [0 .. n -> Nat]
  <2> DEFINE P == {i \in 0 .. n : e[i] \in Nat}
  <2>1. 0 \in P
    BY <1>7
  <2>2. ASSUME NEW i \in 1 .. n, i - 1 \in P PROVE i \in P
    <3>1. e[i - 1] \in Nat /\ WordAt(d, i) \in Word
      BY <1>1, <2>2, WordAtIs
    <3>2. e[i - 1] + WordAt(d, i) \in Nat
      BY <3>1, WordIsNat
    <3> QED
      BY <1>7, <3>2
  <2> HIDE DEF P
  <2>3. \A i \in 0 .. n : i \in P
    BY <2>1, <2>2, StepByStep
  <2>4. \A i \in 0 .. n : e[i] \in Nat
    BY <2>3 DEF P
  <2>5. DOMAIN e = 0 .. n /\ e = [i \in 0 .. n |-> e[i]]
    <3>1. DOMAIN F(e) = 0 .. n /\ F(e) = [i \in 0 .. n |-> F(e)[i]]
      OBVIOUS
    <3> HIDE DEF F
    <3> QED
      BY <1>5, <3>1
  <2> QED
    BY <2>4, <2>5
<1> QED
  BY <1>1, <1>6, <1>7, <1>8 DEF Sums

(* What a row of sums with the same words ends in.                         *)
LEMMA PlainIs ==
    ASSUME NEW d \in Seq(Byte), NEW f, Sums(d, f, Int, 0),
           \A i \in 1 .. WordCount(d) : f[i] = f[i - 1] + WordAt(d, i)
    PROVE  PlainSum(d) = f[WordCount(d)]
<1>1. PICK e : /\ Sums(d, e, Nat, 0)
               /\ \A i \in 1 .. WordCount(d) : e[i] = e[i - 1] + WordAt(d, i)
               /\ PlainSum(d) = e[WordCount(d)]
  BY PlainRuns
<1>2. PICK n \in Nat : n = WordCount(d)
  BY CountIs
<1> DEFINE P == {i \in 0 .. n : e[i] = f[i]}
<1>3. 0 \in P
  BY <1>1 DEF Sums
<1>4. ASSUME NEW i \in 1 .. n, i - 1 \in P PROVE i \in P
  BY <1>1, <1>2, <1>4
<1> HIDE DEF P
<1>5. \A i \in 0 .. n : i \in P
  BY <1>3, <1>4, StepByStep
<1> QED
  BY <1>1, <1>2, <1>5 DEF P

(* The sum of words with carries is the plain sum, modulo the largest word. *)
LEMMA ChksumIs ==
    ASSUME NEW d \in Seq(Byte), NEW a \in Word
    PROVE  /\ Chksum(a, d) \in Word
           /\ PlainSum(d) \in Nat
           /\ Same(a + PlainSum(d), Chksum(a, d))
           /\ Chksum(a, d) = 0 <=> a = 0 /\ PlainSum(d) = 0
<1>1. PICK f : /\ Sums(d, f, Word, a)
               /\ \A i \in 1 .. WordCount(d) : f[i] = AddWord(f[i - 1], WordAt(d, i))
               /\ Chksum(a, d) = f[WordCount(d)]
  BY ChksumRuns
<1>2. PICK e : /\ Sums(d, e, Nat, 0)
               /\ \A i \in 1 .. WordCount(d) : e[i] = e[i - 1] + WordAt(d, i)
               /\ PlainSum(d) = e[WordCount(d)]
  BY PlainRuns
<1>3. PICK n \in Nat : n = WordCount(d)
  BY CountIs
<1>4. /\ f \in [0 .. n -> Word] /\ f[0] = a
      /\ e \in [0 .. n -> Nat] /\ e[0] = 0
  BY <1>1, <1>2, <1>3 DEF Sums
<1> DEFINE P == {i \in 0 .. n : Same(a + e[i], f[i]) /\ (f[i] = 0 <=> a = 0 /\ e[i] = 0)}
<1>5. 0 \in P
  <2>1. a \in Int /\ a + 0 = a
    BY WordIsNat
  <2> QED
    BY <1>4, <2>1, SameIs
<1>6. ASSUME NEW i \in 1 .. n, i - 1 \in P PROVE i \in P
  <2>1. i - 1 \in 0 .. n /\ i \in 0 .. n
    OBVIOUS
  <2>2. PICK x \in Word, p \in Nat, t \in Word :
           x = f[i - 1] /\ p = e[i - 1] /\ t = WordAt(d, i)
    BY <1>3, <1>4, <2>1, WordAtIs
  <2>3. f[i] = AddWord(x, t) /\ e[i] = p + t
    BY <1>1, <1>2, <1>3, <2>2
  <2>4. PICK r \in Word : r = f[i]
    BY <1>4, <2>1
  <2>5. Same(x + t, r) /\ (r = 0 <=> x = 0 /\ t = 0)
    BY <2>3, <2>4, AddWordIs
  <2>6. Same(a + p, x) /\ (x = 0 <=> a = 0 /\ p = 0)
    BY <1>6, <2>2
  <2>7. a \in Nat /\ x \in Nat /\ t \in Nat /\ r \in Nat
    BY WordIsNat
  <2>8. Same((a + p) + t, x + t)
    BY <2>6, <2>7, SameIs, SameAdds
  <2>9. Same((a + p) + t, r)
    <3>1. PICK y \in Int, z \in Int : y = (a + p) + t /\ z = x + t
      BY <2>7
    <3>2. Same(y, z) /\ Same(z, r)
      BY <2>5, <2>8, <3>1
    <3> QED
      BY <2>7, <3>1, <3>2, SameFollows
  <2>10. (a + p) + t = a + (p + t) /\ (p + t = 0 <=> p = 0 /\ t = 0)
    BY <2>7
  <2> QED
    BY <2>3, <2>4, <2>5, <2>6, <2>9, <2>10
<1> HIDE DEF P
<1>7. \A i \in 0 .. n : i \in P
  BY <1>5, <1>6, StepByStep
<1>8. n \in 0 .. n
  OBVIOUS
<1> QED
  BY <1>1, <1>2, <1>3, <1>4, <1>7, <1>8 DEF P

(* A word is appended to data of whole words,                              *)
LEMMA PlainAppended ==
    ASSUME NEW d \in Seq(Byte), Len(d) % 2 = 0, NEW x \in Byte, NEW y \in Byte
    PROVE  PlainSum(d \o <<x, y>>) = PlainSum(d) + (x * Base + y)
<1>1. PICK n \in Nat : n = WordCount(d) /\ Len(d) = 2 * n
  BY CountIs
<1>2. PICK e : e = d \o <<x, y>>
  OBVIOUS
<1>3. e \in Seq(Byte) /\ Len(e) = 2 * n + 2 /\ WordCount(e) = n + 1
  <2>1. <<x, y>> \in Seq(Byte) /\ Len(<<x, y>>) = 2
    OBVIOUS
  <2>2. e \in Seq(Byte) /\ Len(e) = 2 * n + 2
    BY <1>1, <1>2, <2>1, ConcatProperties
  <2>3. (2 * n + 2 + 1) \div 2 = n + 1
    OBVIOUS
  <2> QED
    BY <2>2, <2>3 DEF WordCount
<1>4. \A i \in 1 .. n : WordAt(e, i) = WordAt(d, i)
  <2>1. \A j \in 1 .. 2 * n : e[j] = d[j]
    BY <1>1, <1>2
  <2>2. \A i \in 1 .. n : /\ 2 * i - 1 \in 1 .. 2 * n /\ 2 * i \in 1 .. 2 * n
                           /\ 2 * i <= 2 * n /\ 2 * i <= 2 * n + 2
    OBVIOUS
  <2> QED
    BY <1>1, <1>3, <2>1, <2>2 DEF WordAt
<1>5. WordAt(e, n + 1) = x * Base + y
  <2>1. e[2 * n + 1] = x /\ e[2 * n + 2] = y
    <3>0. PICK p : p = <<x, y>>
      OBVIOUS
    <3>1. p = <<x, y>> /\ p \in Seq(Byte) /\ Len(p) = 2 /\ p[1] = x /\ p[2] = y
      BY <3>0
    <3>2. e = d \o p
      BY <1>2, <3>1
    <3>3. \A i \in 2 * n + 1 .. 2 * n + 2 : e[i] = p[i - 2 * n]
      BY <1>1, <3>1, <3>2, ConcatProperties
    <3>4. 2 * n + 1 - 2 * n = 1 /\ 2 * n + 2 - 2 * n = 2
      OBVIOUS
    <3> QED
      BY <3>1, <3>3, <3>4
  <2>2. 2 * (n + 1) - 1 = 2 * n + 1 /\ 2 * (n + 1) = 2 * n + 2 /\ 2 * n + 2 <= 2 * n + 2
    OBVIOUS
  <2> QED
    BY <1>3, <2>1, <2>2 DEF WordAt
<1>6. PICK f : /\ Sums(d, f, Nat, 0)
               /\ \A i \in 1 .. n : f[i] = f[i - 1] + WordAt(d, i)
               /\ PlainSum(d) = f[n]
  BY <1>1, PlainRuns
<1>7. PICK w \in Nat : w = x * Base + y
  BY PairInWord, WordIsNat
<1>8. PICK g : g = [i \in 0 .. n + 1 |-> IF i = n + 1 THEN f[n] + w ELSE f[i]]
  OBVIOUS
<1>9. f \in [0 .. n -> Nat] /\ f[0] = 0
  BY <1>1, <1>6 DEF Sums
<1>10. \A i \in 0 .. n : g[i] = f[i]
  BY <1>8
<1>11. g[n + 1] = f[n] + w
  BY <1>8
<1>12. Sums(e, g, Int, 0)
  <2>1. \A i \in 0 .. n + 1 : g[i] \in Int
    <3>1. \A i \in 0 .. n + 1 : i \in 0 .. n \/ i = n + 1
      OBVIOUS
    <3> QED
      BY <1>9, <1>10, <1>11, <3>1
  <2>2. g[0] = 0
    BY <1>9, <1>10
  <2> QED
    BY <1>3, <1>8, <2>1, <2>2 DEF Sums
<1>13. ASSUME NEW i \in 1 .. n + 1 PROVE g[i] = g[i - 1] + WordAt(e, i)
  <2>1. CASE i \in 1 .. n
    BY <1>4, <1>6, <1>10, <2>1
  <2>2. CASE i = n + 1
    <3>1. n + 1 - 1 = n /\ n \in 0 .. n
      OBVIOUS
    <3> QED
      BY <1>5, <1>7, <1>10, <1>11, <2>2, <3>1
  <2> QED
    BY <2>1, <2>2
<1>14. PlainSum(e) = g[n + 1]
  BY <1>3, <1>12, <1>13, PlainIs
<1> QED
  BY <1>2, <1>6, <1>7, <1>11, <1>14

(* or put before the data.                                                 *)
LEMMA PlainPrefixed ==
    ASSUME NEW d \in Seq(Byte), NEW x \in Byte, NEW y \in Byte
    PROVE  PlainSum(<<x, y>> \o d) = (x * Base + y) + PlainSum(d)
<1>1. PICK n \in Nat : n = WordCount(d)
  BY CountIs
<1>2. PICK e : e = <<x, y>> \o d
  OBVIOUS
<1>3. e \in Seq(Byte) /\ Len(e) = Len(d) + 2 /\ WordCount(e) = n + 1
  BY <1>1, <1>2 DEF WordCount
<1>4. \A i \in 2 .. n + 1 : WordAt(e, i) = WordAt(d, i - 1)
  <2>1. \A j \in 1 .. Len(d) : e[j + 2] = d[j]
    BY <1>2
  <2>2. ASSUME NEW i \in 2 .. n + 1 PROVE WordAt(e, i) = WordAt(d, i - 1)
    <3>1. PICK k \in 1 .. n : k = i - 1 /\ i = k + 1
      OBVIOUS
    <3>2. 2 * k - 1 \in 1 .. Len(d) /\ (2 * k <= Len(d) => 2 * k \in 1 .. Len(d))
      BY <1>1, CountIs
    <3>3. e[(2 * k - 1) + 2] = d[2 * k - 1] /\ (2 * k <= Len(d) => e[2 * k + 2] = d[2 * k])
      BY <2>1, <3>2
    <3>4. /\ 2 * (k + 1) - 1 = (2 * k - 1) + 2 /\ 2 * (k + 1) = 2 * k + 2
          /\ 2 * k + 2 <= Len(d) + 2 <=> 2 * k <= Len(d)
      OBVIOUS
    <3> QED
      BY <1>3, <3>1, <3>3, <3>4 DEF WordAt
  <2> QED
    BY <2>2
<1>5. WordAt(e, 1) = x * Base + y
  <2>1. e[1] = x /\ e[2] = y
    BY <1>2
  <2>2. 2 * 1 - 1 = 1 /\ 2 * 1 = 2 /\ 2 <= Len(e)
    BY <1>3
  <2> QED
    BY <2>1, <2>2 DEF WordAt
<1>6. PICK f : /\ Sums(d, f, Nat, 0)
               /\ \A i \in 1 .. n : f[i] = f[i - 1] + WordAt(d, i)
               /\ PlainSum(d) = f[n]
  BY <1>1, PlainRuns
<1>7. PICK w \in Nat : w = x * Base + y
  BY PairInWord, WordIsNat
<1>8. PICK g : g = [i \in 0 .. n + 1 |-> IF i = 0 THEN 0 ELSE w + f[i - 1]]
  OBVIOUS
<1>9. f \in [0 .. n -> Nat] /\ f[0] = 0
  BY <1>1, <1>6 DEF Sums
<1>10. \A i \in 1 .. n + 1 : g[i] = w + f[i - 1] /\ f[i - 1] \in Nat
  BY <1>8, <1>9
<1>11. g[0] = 0
  BY <1>8
<1>12. Sums(e, g, Int, 0)
  <2>1. \A i \in 0 .. n + 1 : g[i] \in Int
    <3>1. \A i \in 0 .. n + 1 : i \in 1 .. n + 1 \/ i = 0
      OBVIOUS
    <3> QED
      BY <1>10, <1>11, <3>1
  <2> QED
    BY <1>3, <1>8, <1>11, <2>1 DEF Sums
<1>13. ASSUME NEW i \in 1 .. n + 1 PROVE g[i] = g[i - 1] + WordAt(e, i)
  <2>1. CASE i \in 2 .. n + 1
    <3>1. PICK k \in 1 .. n : k = i - 1 /\ k - 1 = i - 2
      BY <2>1
    <3>2. f[k] = f[k - 1] + WordAt(d, k)
      BY <1>6
    <3>3. WordAt(e, i) = WordAt(d, k) /\ g[i] = w + f[k] /\ g[k] = w + f[k - 1] /\ f[k - 1] \in Nat
      BY <1>4, <1>10, <2>1, <3>1
    <3>4. WordAt(d, k) \in Nat
      BY <1>1, WordAtIs, WordIsNat
    <3> QED
      BY <3>1, <3>2, <3>3, <3>4
  <2>2. CASE i = 1
    <3>1. i - 1 = 0 /\ 1 \in 1 .. n + 1
      BY <2>2
    <3> QED
      BY <1>5, <1>7, <1>9, <1>10, <1>11, <2>2, <3>1
  <2> QED
    BY <2>1, <2>2
<1>14. PlainSum(e) = g[n + 1]
  BY <1>3, <1>12, <1>13, PlainIs
<1>15. n + 1 \in 1 .. n + 1 /\ n + 1 - 1 = n
  OBVIOUS
<1> QED
  BY <1>2, <1>6, <1>7, <1>10, <1>14, <1>15

(* The high byte of a word lowered by h.                                    *)
LEMMA PlainLowered ==
    ASSUME NEW d \in Seq(Byte), NEW j \in 1 .. Len(d), j % 2 = 1, NEW h \in 1 .. d[j],
           NEW e, e = [d EXCEPT ![j] = @ - h]
    PROVE  e \in Seq(Byte) /\ PlainSum(e) = PlainSum(d) - h * Base
<1>1. PICK n \in Nat : n = WordCount(d)
  BY CountIs
<1>2. PICK c \in 1 .. n : j = 2 * c - 1
  <2>1. PICK c \in Int : j = 2 * c - 1
    <3>1. j = 2 * ((j + 1) \div 2) - 1 /\ (j + 1) \div 2 \in Int
      OBVIOUS
    <3> QED
      BY <3>1
  <2>2. c \in 1 .. n
    BY <1>1, <2>1, CountIs
  <2> QED
    BY <2>1, <2>2
<1>3. d[j] \in Byte /\ d[j] \in Nat /\ h \in Nat /\ d[j] - h \in Byte
  <2>1. d[j] \in Byte
    OBVIOUS
  <2> QED
    BY <2>1, Bases DEF Byte
<1>4. e \in Seq(Byte) /\ Len(e) = Len(d) /\ WordCount(e) = n
  BY <1>1, <1>3 DEF WordCount
<1>5. e[j] = d[j] - h /\ \A i \in 1 .. Len(d) : i # j => e[i] = d[i]
  OBVIOUS
<1>6. PICK w \in Nat : w = h * Base
  BY <1>3, Bases
<1>7. ASSUME NEW i \in 1 .. n, i # c PROVE WordAt(e, i) = WordAt(d, i)
  <2>1. 2 * i - 1 \in 1 .. Len(d) /\ (2 * i <= Len(d) => 2 * i \in 1 .. Len(d))
    BY <1>1, CountIs
  <2>2. 2 * i - 1 # j /\ 2 * i # j
    BY <1>2, <1>7
  <2> QED
    BY <1>4, <1>5, <2>1, <2>2 DEF WordAt
<1>8. WordAt(e, c) = WordAt(d, c) - w
  <2>1. 2 * c <= Len(d) => 2 * c \in 1 .. Len(d) /\ 2 * c # j
    BY <1>2
  <2>2. PICK l \in Nat : /\ l = IF 2 * c <= Len(d) THEN d[2 * c] ELSE 0
                         /\ l = IF 2 * c <= Len(e) THEN e[2 * c] ELSE 0
    <3>1. 2 * c <= Len(d) => d[2 * c] \in Byte /\ e[2 * c] = d[2 * c]
      BY <1>5, <2>1
    <3>2. \A b \in Byte : b \in Nat
      BY DEF Byte
    <3> QED
      BY <1>4, <3>1, <3>2
  <2>3. WordAt(e, c) = (d[j] - h) * Base + l /\ WordAt(d, c) = d[j] * Base + l
    BY <1>2, <1>5, <2>2 DEF WordAt
  <2>4. PICK u \in Nat, b \in Nat : u = d[j] /\ b = Base
    BY <1>3, Bases
  <2>5. (u - h) * b + l = (u * b + l) - h * b
    BY <1>3
  <2> QED
    BY <1>6, <2>3, <2>4, <2>5
<1>9. PICK f : /\ Sums(d, f, Nat, 0)
               /\ \A i \in 1 .. n : f[i] = f[i - 1] + WordAt(d, i)
               /\ PlainSum(d) = f[n]
  BY <1>1, PlainRuns
<1>10. PICK g : g = [i \in 0 .. n |-> IF i >= c THEN f[i] - w ELSE f[i]]
  OBVIOUS
<1>11. f \in [0 .. n -> Nat] /\ f[0] = 0
  BY <1>1, <1>9 DEF Sums
<1>12. Sums(e, g, Int, 0)
  <2>1. \A i \in 0 .. n : g[i] \in Int
    BY <1>10, <1>11
  <2>2. g[0] = 0
    BY <1>10, <1>11
  <2> QED
    BY <1>4, <1>10, <2>1, <2>2 DEF Sums
<1>13. ASSUME NEW i \in 1 .. n PROVE g[i] = g[i - 1] + WordAt(e, i)
  <2>1. i - 1 \in 0 .. n /\ i \in 0 .. n
    OBVIOUS
  <2>2. PICK x \in Nat, t \in Nat : x = f[i - 1] /\ t = WordAt(d, i) /\ f[i] = x + t
    <3>1. f[i - 1] \in Nat
      BY <1>11, <2>1
    <3>2. WordAt(d, i) \in Nat
      BY <1>1, WordAtIs, WordIsNat
    <3> QED
      BY <1>9, <3>1, <3>2
  <2>3. /\ g[i] = IF i >= c THEN x + t - w ELSE x + t
        /\ g[i - 1] = IF i - 1 >= c THEN x - w ELSE x
    <3>1. i \in 0 .. n /\ g[i] = IF i >= c THEN f[i] - w ELSE f[i]
      BY <1>10, <2>1
    <3>2. g[i - 1] = IF i - 1 >= c THEN f[i - 1] - w ELSE f[i - 1]
      BY <1>10, <2>1
    <3> QED
      BY <2>2, <3>1, <3>2
  <2>4. WordAt(e, i) = IF i = c THEN t - w ELSE t
    BY <1>7, <1>8, <2>2
  <2> QED
    BY <2>2, <2>3, <2>4
<1>14. PlainSum(e) = g[n]
  BY <1>4, <1>12, <1>13, PlainIs
<1> QED
  BY <1>4, <1>6, <1>9, <1>10, <1>14

(* The halves of a word exchanged.                                          *)
LEMMA HtonsIs ==
    ASSUME NEW w \in Word
    PROVE  /\ Htons(w) \in Word
           /\ w = (w % Base) + (w \div Base) * Base
           /\ w \div Base \in Byte /\ w % Base \in Byte
           /\ Htons(Htons(w)) = w
<1>1. PICK h \in Byte, l \in Byte : h = w \div Base /\ l = w % Base /\ w = h * Base + l
  BY HalvesOf
<1>2. Htons(w) = l * Base + h
  BY <1>1 DEF Htons
<1>3. PICK v \in Word : v = l * Base + h /\ v \div Base = l /\ v % Base = h
  BY PairInWord
<1>4. Htons(v) = h * Base + l
  BY <1>3 DEF Htons
<1>5. h * Base + l = l + h * Base
  <2>1. h * Base \in Int /\ l \in Int
    BY Bases DEF Byte
  <2> QED
    BY <2>1
<1> QED
  BY <1>1, <1>2, <1>3, <1>4, <1>5

(* Exchanging the halves multiplies by the base, modulo the largest word.   *)
LEMMA HtonsTimes ==
    ASSUME NEW w \in Word
    PROVE  Same(w * Base, Htons(w))
<1>1. PICK m \in Nat \ {0} : m = Most /\ Base * Base = m + 1
  BY OnesIs
<1>2. PICK b \in Nat : b = Base /\ b * b = m + 1
  BY <1>1, Bases
<1>3. PICK h \in 0 .. b - 1, l \in 0 .. b - 1 : h = w \div b /\ l = w % b /\ w = h * b + l
  BY <1>2, HalvesOf DEF Byte
<1>4. Htons(w) = l * b + h
  BY <1>2, <1>3 DEF Htons
<1>5. w * b = (l * b + h) + m * h
  <2>1. (h * b + l) * b = h * (b * b) + l * b
    OBVIOUS
  <2>2. h * (b * b) = h * (m + 1)
    BY <1>2
  <2>3. h * (m + 1) = m * h + h
    OBVIOUS
  <2>4. PICK x \in Int, y \in Int : x = m * h /\ y = l * b
    OBVIOUS
  <2>5. w * b = (x + h) + y
    BY <1>3, <2>1, <2>2, <2>3, <2>4
  <2>6. (x + h) + y = (y + h) + x
    BY <2>4
  <2> QED
    BY <2>4, <2>5, <2>6
<1>6. h \in Int
  OBVIOUS
<1> QED
  BY <1>1, <1>2, <1>4, <1>5, <1>6 DEF Same

(* The complement of a word with its halves exchanged.                     *)
LEMMA HtonsRest ==
    ASSUME NEW w \in Word
    PROVE  Most - w \in Word /\ Htons(Most - w) = Most - Htons(w)
<1>1. PICK m \in Nat \ {0} : m = Most /\ Base * Base = m + 1
  BY OnesIs
<1>2. PICK b \in Nat : b = Base /\ b * b = m + 1 /\ Byte = 0 .. b - 1
  BY <1>1, Bases DEF Byte
<1>3. PICK h \in Byte, l \in Byte : h = w \div b /\ l = w % b /\ w = h * b + l
  BY <1>2, HalvesOf
<1>4. b - 1 - h \in Byte /\ b - 1 - l \in Byte
  BY <1>2
<1>5. \A x, y \in Byte : (b - 1 - x) * b + (b - 1 - y) = m - (x * b + y)
  <2>1. ASSUME NEW x \in Nat, NEW y \in Nat PROVE (b - 1 - x) * b + (b - 1 - y) = m - (x * b + y)
    <3>1. (b - 1 - x) * b = b * b - b - x * b /\ x * b \in Nat
      OBVIOUS
    <3> QED
      BY <1>2, <3>1
  <2> QED
    BY <1>2, <2>1
<1>6. Htons(w) = l * b + h
  BY <1>2, <1>3 DEF Htons
<1>7. PICK i \in Byte, j \in Byte : i = b - 1 - h /\ j = b - 1 - l
  BY <1>4
<1>8. i * b + j \in Word /\ (i * b + j) \div b = i /\ (i * b + j) % b = j
  BY <1>2, PairInWord
<1>9. PICK v \in Word : v = i * b + j /\ v \div b = i /\ v % b = j
  BY <1>8
<1>10. Htons(v) = j * b + i
  BY <1>2, <1>9 DEF Htons
<1>11. i * b + j = m - (h * b + l) /\ j * b + i = m - (l * b + h)
  BY <1>5, <1>7
<1>12. v = Most - w
  BY <1>1, <1>3, <1>9, <1>11
<1>13. Htons(v) = Most - Htons(w)
  BY <1>1, <1>6, <1>10, <1>11
<1> QED
  BY <1>12, <1>13

(* Zero, all ones and a high byte with their halves exchanged.             *)
LEMMA HtonsEnds ==
    /\ 0 \in Word /\ Most \in Word
    /\ Htons(0) = 0 /\ Htons(Most) = Most
    /\ \A h \in Byte : h * Base \in Word /\ Htons(h * Base) = h
<1>1. \A h \in Byte : h * Base \in Word /\ Htons(h * Base) = h
  <2>1. ASSUME NEW h \in Byte PROVE h * Base \in Word /\ Htons(h * Base) = h
    <3>1. /\ h * Base + 0 \in Word
          /\ (h * Base + 0) \div Base = h /\ (h * Base + 0) % Base = 0
      BY PairInWord, Bases
    <3>2. h * Base + 0 = h * Base /\ 0 * Base + h = h
      BY Bases DEF Byte
    <3> QED
      BY <3>1, <3>2 DEF Htons
  <2> QED
    BY <2>1
<1>2. 0 \in Word /\ Most \in Word
  BY OnesIs
<1>3. Htons(0) = 0
  <2>1. 0 * Base = 0 /\ 0 \in Byte
    BY Bases
  <2> QED
    BY <1>1, <2>1
<1>4. Htons(Most) = Most
  <2>1. Htons(Most - 0) = Most - Htons(0)
    BY <1>2, HtonsRest
  <2>2. Most - 0 = Most
    BY OnesIs
  <2> QED
    BY <1>3, <2>1, <2>2
<1> QED
  BY <1>1, <1>2, <1>3, <1>4

(* The adjusted field is the old one, h more.                               *)
LEMMA AdjustedIs ==
    ASSUME NEW w \in Word, NEW h \in Byte
    PROVE  AdjustedChksum(w, h) \in Int /\ Same(AdjustedChksum(w, h), w + h)
<1>1. PICK m \in Nat \ {0} : m = Most /\ Base * Base = m + 1 /\ Base <= m
  BY OnesIs
<1>2. w \in 0 .. m /\ h \in 0 .. m - 1
  <2>1. PICK b \in Nat : b = Base /\ b <= m
    BY <1>1, Bases
  <2>2. h \in 0 .. b - 1
    BY <2>1 DEF Byte
  <2> QED
    BY <1>1, <2>1, <2>2, OnesIs
<1>3. Htons(h * Base) = h /\ Htons(m - h * Base) = m - h
  BY <1>1, HtonsEnds, HtonsRest
<1>4. AdjustedChksum(w, h) = IF w >= m - h THEN (w + h + 1) % (m + 1) ELSE (w + h) % (m + 1)
  <2>1. Base * Base - 1 = m
    BY <1>1
  <2> QED
    BY <1>1, <1>3, <2>1 DEF AdjustedChksum
<1>5. CASE w >= m - h
  <2>1. PICK x \in Int, v \in 0 .. (m + 1) - 1 : x = w + h + 1 /\ v = w + h - m
    BY <1>2, <1>5
  <2>2. x = (m + 1) * 1 + v
    BY <1>2, <2>1
  <2>3. x % (m + 1) = v
    <3>1. m + 1 \in Nat \ {0} /\ 1 \in Int
      OBVIOUS
    <3> QED
      BY <2>1, <2>2, <3>1, RestIs
  <2>4. w + h = v + m
    BY <1>2, <2>1
  <2>5. Same(v + m, v)
    BY <1>1, SameIs
  <2>6. Same(v, v + m)
    BY <2>5, SameIs
  <2> QED
    BY <1>4, <1>5, <2>1, <2>3, <2>4, <2>6
<1>6. CASE w < m - h
  <2>1. w + h \in Int /\ (w + h) % (m + 1) = w + h
    BY <1>2, <1>6
  <2>2. Same(w + h, w + h)
    BY <2>1, SameIs
  <2> QED
    BY <1>2, <1>4, <1>6, <2>1, <2>2
<1> QED
  BY <1>2, <1>5, <1>6

(* A sum that is all ones or zero is handed out as all ones.                *)
LEMMA HeaderOnes ==
    ASSUME NEW d \in Seq(Byte), NEW a \in Word, Same(a + PlainSum(d), 0)
    PROVE  HeaderChksum(a, d) = Most
<1>1. PICK c \in Word : c = Chksum(a, d)
  BY ChksumIs
<1>2. PICK p \in Int : p = a + PlainSum(d)
  BY ChksumIs, WordIsNat
<1>3. c \in Int /\ Same(p, c) /\ Same(p, 0)
  BY <1>1, <1>2, ChksumIs, WordIsNat
<1>4. Same(c, p)
  BY <1>3, SameIs
<1>5. Same(c, 0)
  BY <1>3, <1>4, SameFollows
<1>6. c = 0 \/ c = Most
  BY <1>5, OnesOrZero
<1>7. Base * Base - 1 = Most
  BY DEF Most
<1> QED
  BY <1>1, <1>6, <1>7, HtonsEnds DEF HeaderChksum

(* The sum that starts at zero, as uip_chksum's does.                      *)
LEMMA DataSum ==
    ASSUME NEW d \in Seq(Byte)
    PROVE  /\ Chksum(0, d) \in Word
           /\ PlainSum(d) \in Nat
           /\ Same(PlainSum(d), Chksum(0, d))
           /\ Chksum(0, d) = 0 <=> PlainSum(d) = 0
<1>1. 0 + PlainSum(d) = PlainSum(d)
  BY HtonsEnds, ChksumIs
<1> QED
  BY <1>1, HtonsEnds, ChksumIs

(* Data followed by its own checksum sums up to all ones.                  *)
LEMMA OwnChecksum ==
    ASSUME NEW d \in Seq(Byte), Len(d) % 2 = 0, NEW s, s = Chksum(0, d)
    PROVE  HeaderChksum(0, d \o <<(Most - s) \div Base, (Most - s) % Base>>) = Most
<1>1. s \in Word /\ s \in Int /\ PlainSum(d) \in Int /\ Same(PlainSum(d), s)
  BY DataSum, WordIsNat
<1>2. PICK r \in Word : r = Most - s
  BY <1>1, HtonsRest
<1>3. PICK h \in Byte, l \in Byte : h = r \div Base /\ l = r % Base /\ r = h * Base + l
  BY HalvesOf
<1>4. PICK e : e = d \o <<h, l>>
  OBVIOUS
<1>5. PlainSum(e) = PlainSum(d) + r
  <2>1. PlainSum(d \o <<h, l>>) = PlainSum(d) + (h * Base + l)
    BY PlainAppended
  <2> QED
    BY <1>3, <1>4, <2>1
<1>6. e \in Seq(Byte)
  <2>1. <<h, l>> \in Seq(Byte)
    OBVIOUS
  <2> QED
    BY <1>4, <2>1, ConcatProperties
<1>7. r \in Int /\ Same(r, r) /\ s + r = Most /\ Most \in Int
  BY <1>1, <1>2, WordIsNat, SameIs, OnesIs
<1>8. Same(PlainSum(d) + r, s + r)
  BY <1>1, <1>7, SameAdds
<1>9. Same(0 + Most, 0) /\ 0 + Most = Most
  BY <1>7, SameIs
<1>10. Same(PlainSum(e), 0)
  <2>1. PICK p \in Int : p = PlainSum(d) + r
    BY <1>1, <1>7
  <2>2. Same(p, Most) /\ Same(Most, 0)
    BY <1>7, <1>8, <1>9, <2>1
  <2> QED
    BY <1>5, <1>7, <2>1, <2>2, SameFollows
<1>11. 0 + PlainSum(e) = PlainSum(e) /\ 0 \in Word
  BY <1>1, <1>5, <1>7, HtonsEnds
<1>12. HeaderChksum(0, e) = Most
  BY <1>6, <1>10, <1>11, HeaderOnes
<1> QED
  BY <1>2, <1>3, <1>4, <1>12

(* The field adjusted for a byte lowered by h is the checksum of the new data. *)
LEMMA AdjustedRight ==
    ASSUME NEW d \in Seq(Byte), NEW j \in 1 .. Len(d), j % 2 = 1, NEW h \in 1 .. d[j],
           NEW e, e = [d EXCEPT ![j] = @ - h],
           NEW w, w = Most - Htons(Chksum(0, d))
    PROVE  (Most - Htons(Chksum(0, e)) - AdjustedChksum(w, h)) % Most = 0
<1>1. e \in Seq(Byte) /\ PlainSum(e) = PlainSum(d) - h * Base
  BY PlainLowered
<1>2. h \in Byte
  <2>1. d[j] \in Byte
    OBVIOUS
  <2> QED
    BY <2>1, Bases DEF Byte
<1>3. PICK p \in Int, s \in Word : p = PlainSum(d) /\ s = Chksum(0, d) /\ Same(p, s)
  BY DataSum
<1>0. PICK q \in Int, t \in Word : q = PlainSum(e) /\ t = Chksum(0, e) /\ Same(q, t)
  <2>1. \A f \in Seq(Byte) : \E q \in Int, t \in Word : q = PlainSum(f) /\ t = Chksum(0, f) /\ Same(q, t)
    BY DataSum
  <2> QED
    BY <1>1, <2>1
<1>4. PICK b \in Nat : b = Base
  BY Bases
<1>5. PICK x \in Word, y \in Word : x = Htons(s) /\ y = Htons(t)
  BY HtonsIs
<1>6. s \in Int /\ t \in Int /\ x \in Int /\ y \in Int /\ h \in Int /\ Most \in Int
  BY WordIsNat, OnesIs
<1>7. Same(p * b, x)
  <2>1. Same(p * b, s * b) /\ Same(s * b, x)
    <3>1. b \in Int /\ Same(p, s)
      BY <1>3
    <3>2. Same(p * b, s * b)
      BY <1>6, <3>1, SameTimes
    <3>3. Same(s * Base, Htons(s))
      BY HtonsTimes
    <3> QED
      BY <1>4, <1>5, <3>2, <3>3
  <2>2. p * b \in Int /\ s * b \in Int
    BY <1>6
  <2> QED
    BY <1>6, <2>1, <2>2, SameFollows
<1>8. Same(q * b, y)
  <2>1. Same(q * b, t * b) /\ Same(t * b, y)
    <3>1. b \in Int /\ Same(q, t)
      BY <1>0
    <3>2. Same(q * b, t * b)
      BY <1>6, <3>1, SameTimes
    <3>3. Same(t * Base, Htons(t))
      BY HtonsTimes
    <3> QED
      BY <1>4, <1>5, <3>2, <3>3
  <2>2. q * b \in Int /\ t * b \in Int
    BY <1>6
  <2> QED
    BY <1>6, <2>1, <2>2, SameFollows
<1>9. Same((h * b) * b, h)
  <2>1. h * b \in Word /\ Htons(h * b) = h
    BY <1>2, <1>4, HtonsEnds
  <2> QED
    BY <1>4, <2>1, HtonsTimes
<1>10. q * b = p * b - (h * b) * b
  <2>1. q = p - h * b
    BY <1>0, <1>1, <1>3, <1>4
  <2> QED
    BY <1>6, <2>1
<1>11. PICK u \in Int, v \in Int : u = p * b /\ v = (h * b) * b
  BY <1>6
<1>12. Same(u - v, x - h) /\ Same(u - v, y)
  BY <1>6, <1>7, <1>8, <1>9, <1>10, <1>11, SameAdds
<1>13. Same(x - h, y)
  <2>1. u - v \in Int /\ x - h \in Int
    BY <1>6, <1>11
  <2>2. Same(x - h, u - v)
    BY <1>12, <2>1, SameIs
  <2> QED
    BY <1>6, <1>12, <2>1, <2>2, SameFollows
<1>14. w = Most - x /\ w \in Word /\ w \in Int
  BY <1>3, <1>5, HtonsRest, WordIsNat
<1>15. PICK a \in Int : a = AdjustedChksum(w, h) /\ Same(a, w + h)
  BY <1>2, <1>14, AdjustedIs
<1>16. Same(Most - y, Most - (x - h))
  <2>1. Same(y, x - h) /\ x - h \in Int
    BY <1>6, <1>13, SameIs
  <2>2. Same(Most, Most)
    BY <1>6, SameIs
  <2>3. PICK z \in Int : z = x - h
    BY <2>1
  <2>4. Same(Most - y, Most - z)
    BY <1>6, <2>1, <2>2, <2>3, SameAdds
  <2> QED
    BY <2>3, <2>4
<1>17. Same(Most - y, a)
  <2>1. Most - (x - h) = w + h /\ w + h \in Int /\ Most - y \in Int
    BY <1>6, <1>14, SMTT(20)
  <2>2. PICK z \in Int, v1 \in Int : z = w + h /\ v1 = Most - y
    BY <2>1
  <2>3. Same(v1, z)
    BY <1>16, <2>1, <2>2
  <2>4. Same(z, a)
    <3>1. Same(a, z)
      BY <1>15, <2>2
    <3>2. \A y0 \in Int : Same(a, y0) => Same(y0, a)
      BY SameIs
    <3> QED
      BY <3>1, <3>2
  <2>5. Same(v1, a)
    BY <1>15, <2>3, <2>4, SameFollows
  <2> QED
    BY <2>2, <2>5
<1>18. ((Most - y) - a) % Most = 0
  <2>1. Most - y \in Int
    BY <1>6
  <2> QED
    BY <1>15, <1>17, <2>1, SameDivides
<1> QED
  BY <1>0, <1>5, <1>15, <1>18

(* The checksum field of a segment that is sent passes the check of one received. *)
LEMMA SentAccepted ==
    ASSUME NEW adr \in Seq(Byte), NEW rest \in Seq(Byte), Len(rest) + 3 <= Most, NEW dgr \in BOOLEAN,
           NEW hdrs, hdrs = SentChksum(adr, rest, dgr)
    PROVE  UpperLayerChksum(adr, hdrs \o rest) = Most /\ (dgr => hdrs # <<0, 0>>)
<1>1. PICK n \in Word : n = Len(rest) + 3
  BY OnesIs
<1>2. PICK a \in Word : a = Chksum(n, adr) /\ a # 0
  <2>1. n # 0
    BY <1>1
  <2> QED
    BY <2>1, ChksumIs
<1>3. PICK z : z = <<0, 0>> \o rest
  OBVIOUS
<1>4. z \in Seq(Byte) /\ Len(z) + 1 = n
  <2>1. <<0, 0>> \in Seq(Byte) /\ Len(<<0, 0>>) = 2
    BY Bases
  <2> QED
    BY <1>1, <1>3, <2>1, ConcatProperties
<1>5. PlainSum(z) = PlainSum(rest) /\ PlainSum(rest) \in Nat
  <2>1. PlainSum(z) = (0 * Base + 0) + PlainSum(rest)
    BY <1>3, Bases, PlainPrefixed
  <2>2. 0 * Base + 0 = 0 /\ PlainSum(rest) \in Nat
    BY Bases, DataSum
  <2> QED
    BY <2>1, <2>2
<1>6. PICK p \in Nat : p = PlainSum(rest)
  BY <1>5
<1>7. PICK c \in Word : c = Chksum(a, z) /\ c # 0 /\ Same(a + p, c)
  BY <1>2, <1>4, <1>5, <1>6, ChksumIs
<1>8. UpperLayerChksum(adr, z) = Htons(c)
  BY <1>2, <1>4, <1>7 DEF UpperLayerChksum, HeaderChksum
<1>9. PICK v \in Word : v = Most - Htons(c) /\ Htons(v) = Most - c
  <2>1. Most - c \in Word /\ Htons(Most - c) = Most - Htons(c)
    BY HtonsRest
  <2>2. Htons(Htons(Most - c)) = Most - c
    BY <2>1, HtonsIs
  <2> QED
    BY <2>1, <2>2, HtonsIs
<1>10. PICK w \in Word : w = IF dgr /\ v = 0 THEN Most ELSE v
  BY HtonsEnds
<1>11. hdrs = <<w % Base, w \div Base>>
  BY <1>3, <1>8, <1>9, <1>10 DEF SentChksum, Most
<1>12. PICK l \in Byte, h \in Byte : /\ l = w % Base /\ h = w \div Base
                                       /\ Htons(w) = l * Base + h /\ w = h * Base + l
  BY HalvesOf DEF Htons
<1>13. PICK y \in Word : y = Htons(w)
  BY HtonsIs
<1>14. a \in Int /\ c \in Int /\ y \in Int /\ Most \in Int
  BY WordIsNat, OnesIs
<1>15. Same(y + c, 0)
  <2>1. CASE dgr /\ v = 0
    <3>1. y = Most /\ c = Most
      <4>1. Htons(v) = 0
        BY <2>1, HtonsEnds
      <4> QED
        BY <1>9, <1>10, <1>13, <1>14, <2>1, <4>1, HtonsEnds
    <3>2. Same(0 + Most, 0) /\ 0 + Most = Most
      BY <1>14, SameIs
    <3>3. Same(Most + Most, 0 + 0)
      BY <1>14, <3>2, SameAdds
    <3> QED
      BY <3>1, <3>3
  <2>2. CASE ~(dgr /\ v = 0)
    <3>1. y + c = Most
      BY <1>9, <1>10, <1>13, <1>14, <2>2
    <3>2. Same(0 + Most, 0) /\ 0 + Most = Most
      BY <1>14, SameIs
    <3> QED
      BY <3>1, <3>2
  <2> QED
    BY <2>1, <2>2
<1>16. PICK s : s = hdrs \o rest
  OBVIOUS
<1>17. s \in Seq(Byte) /\ Len(s) + 1 = n
  <2>1. hdrs = <<l, h>>
    BY <1>11, <1>12
  <2>2. hdrs \in Seq(Byte) /\ Len(hdrs) = 2
    BY <2>1
  <2>3. hdrs \o rest \in Seq(Byte) /\ Len(hdrs \o rest) = Len(hdrs) + Len(rest)
    BY <2>2, ConcatProperties
  <2>4. Len(rest) \in Nat
    OBVIOUS
  <2>5. (2 + Len(rest)) + 1 = Len(rest) + 3
    BY <2>4
  <2> QED
    BY <1>1, <1>16, <2>2, <2>3, <2>5
<1>18. PlainSum(s) = y + p
  <2>1. hdrs = <<l, h>>
    BY <1>11, <1>12
  <2>2. PlainSum(<<l, h>> \o rest) = (l * Base + h) + PlainSum(rest)
    BY PlainPrefixed
  <2> QED
    BY <1>6, <1>12, <1>13, <1>16, <2>1, <2>2
<1>19. Same(a + PlainSum(s), 0)
  <2>1. Same(y, y)
    BY <1>14, SameIs
  <2>2. PICK i \in Int, k \in Int : i = a + p /\ k = y + i
    BY <1>14
  <2>3. Same(y + i, y + c)
    BY <1>7, <1>14, <2>1, <2>2, SameAdds
  <2>4. y + c \in Int
    BY <1>14
  <2>5. Same(k, 0)
    BY <1>15, <2>2, <2>3, <2>4, SameFollows
  <2>6. a + PlainSum(s) = k
    BY <1>14, <1>18, <2>2
  <2> QED
    BY <2>5, <2>6
<1>20. HeaderChksum(a, s) = Most
  BY <1>17, <1>19, HeaderOnes
<1>21. UpperLayerChksum(adr, s) = Most
  BY <1>2, <1>17, <1>20 DEF UpperLayerChksum
<1>22. ASSUME dgr PROVE hdrs # <<0, 0>>
  <2>1. w # 0
    BY <1>10, <1>22, OnesIs
  <2>2. l = 0 /\ h = 0 => w = 0
    BY <1>12, Bases
  <2> QED
    BY <1>11, <1>12, <2>1, <2>2
<1> QED
  BY <1>16, <1>21, <1>22

(* Nothing more is needed than that the four bytes and the data hold bytes. *)
ArithInv == /\ nxt \in Quads
            /\ total = Value(nxt)
            /\ data \in Seq(Byte)
            /\ Len(data) <= MaxData

(* Everything the run says of the checksum, for data of any bytes.         *)
LEMMA ChecksumHolds ==
    ASSUME data \in Seq(Byte), Len(data) <= MaxData
    PROVE  ChecksumIsOnesComplementSum
<1>1. PICK m \in Nat \ {0} : m = Most /\ Base * Base - 1 = m /\ MaxData + 1 <= m
  <2>1. MaxData + 1 < Base * Base /\ MaxData \in Nat
    BY ArithAssumption DEF ArithAssumption
  <2> QED
    BY <2>1, OnesIs DEF Most
<1>2. PICK d \in Seq(Byte) : d = data /\ Len(d) <= MaxData
  OBVIOUS
<1>3. PICK s \in Word : s = Chksum(0, d)
  BY DataSum
<1>4. (PlainSum(d) - s) % m = 0 /\ (s = 0 <=> PlainSum(d) = 0)
  <2>1. PlainSum(d) \in Int /\ s \in Int /\ Same(PlainSum(d), s)
    BY <1>3, DataSum, WordIsNat
  <2> QED
    BY <1>1, <1>3, <2>1, SameDivides, DataSum
<1>5. Len(d) % 2 = 0 => HeaderChksum(0, d \o <<(m - s) \div Base, (m - s) % Base>>) = m
  BY <1>1, <1>3, OwnChecksum
<1>6. ASSUME NEW i \in DOMAIN d, NEW h \in 1 .. d[i], i % 2 = 1
      PROVE  (m - Htons(Chksum(0, [d EXCEPT ![i] = @ - h])) - AdjustedChksum(m - UipChksum(d), h)) % m = 0
  <2>1. i \in 1 .. Len(d)
    OBVIOUS
  <2>2. PICK e : e = [d EXCEPT ![i] = @ - h]
    OBVIOUS
  <2>3. PICK w : w = Most - Htons(Chksum(0, d))
    OBVIOUS
  <2>4. (Most - Htons(Chksum(0, e)) - AdjustedChksum(w, h)) % Most = 0
    BY <1>6, <2>1, <2>2, <2>3, AdjustedRight
  <2>5. w = m - UipChksum(d)
    BY <1>1, <2>3 DEF UipChksum
  <2> QED
    BY <1>1, <2>2, <2>4, <2>5
<1>7. ASSUME Len(d) >= 2, NEW dgr \in BOOLEAN
      PROVE  LET adr == SubSeq(d, 1, 2)  rest == SubSeq(d, 3, Len(d))
                 hdrs == SentChksum(adr, rest, dgr)
             IN  UpperLayerChksum(adr, hdrs \o rest) = m /\ (dgr => hdrs # <<0, 0>>)
  <2>1. PICK adr \in Seq(Byte), rest \in Seq(Byte) :
           adr = SubSeq(d, 1, 2) /\ rest = SubSeq(d, 3, Len(d)) /\ Len(rest) = Len(d) - 2
    <3>1. SubSeq(d, 1, 2) \in Seq(Byte)
      BY <1>7, SubSeqProperties
    <3>2. SubSeq(d, 3, Len(d)) \in Seq(Byte) /\ Len(SubSeq(d, 3, Len(d))) = Len(d) - 2
      <4>1. PICK k \in Nat : k = Len(d) /\ k >= 2
        BY <1>7
      <4>2. 3 \in 1 .. k + 1 /\ k \in 3 - 1 .. k
        BY <4>1
      <4>3. SubSeq(d, 3, k) \in Seq(Byte)
        BY <4>1, <4>2, SubSeqProperties
      <4>4. Len(SubSeq(d, 3, k)) = (IF 3 <= k THEN k - 3 + 1 ELSE 0)
        BY <4>1, <4>2, SubSeqProperties
      <4> QED
        BY <4>1, <4>3, <4>4
    <3> QED
      BY <3>1, <3>2
  <2>2. Len(rest) + 3 <= Most
    BY <1>1, <1>2, <2>1, ArithAssumption DEF ArithAssumption
  <2>3. PICK hdrs : hdrs = SentChksum(adr, rest, dgr)
    OBVIOUS
  <2>4. UpperLayerChksum(adr, hdrs \o rest) = Most /\ (dgr => hdrs # <<0, 0>>)
    BY <2>2, <2>3, SentAccepted
  <2> QED
    BY <1>1, <2>1, <2>3, <2>4
<1> QED
  BY <1>1, <1>2, <1>3, <1>4, <1>5, <1>6, <1>7 DEF ChecksumIsOnesComplementSum

\* uip_add32, the increments of iss, chksum with the pseudo header of
\* upper_layer_chksum, and the adjustments of the ECHO type and the TTL compute what 32-bit and
\* one's complement arithmetic would, for bytes of every size and data of every length that
\* a word can hold.
THEOREM ArithWorks == ArithSpec => []ArithIsRight
<1>1. ArithInit => ArithInv
  <2>1. SUFFICES ASSUME ArithInit PROVE ArithInv
    OBVIOUS
  <2>2. nxt \in Quads
    BY <2>1, Bases DEF ArithInit, Quads
  <2>3. Value(nxt) = 0
    <3>1. nxt[1] = 0 /\ nxt[2] = 0 /\ nxt[3] = 0 /\ nxt[4] = 0
      BY <2>1 DEF ArithInit
    <3>2. PICK b \in Nat : b = Base
      BY Bases
    <3>3. ((0 * b + 0) * b + 0) * b + 0 = 0
      OBVIOUS
    <3> QED
      BY <3>1, <3>2, <3>3 DEF Value
  <2> QED
    BY <2>1, <2>2, <2>3, ArithAssumption DEF ArithInit, ArithInv, ArithAssumption
<1>2. ArithInv /\ [ArithNext]_arithVars => ArithInv'
  <2>1. SUFFICES ASSUME ArithInv, [ArithNext]_arithVars PROVE ArithInv'
    OBVIOUS
  <2>2. nxt \in Quads /\ total = Value(nxt) /\ data \in Seq(Byte) /\ Len(data) <= MaxData
    BY <2>1 DEF ArithInv
  <2>3. CASE TimerIss
    <3>1. PICK r : r = Increment(nxt)
      OBVIOUS
    <3>2. AddsTo(nxt, 1, r)
      BY <2>2, <3>1, Incremented
    <3>3. r \in Quads /\ Value(r) = (Value(nxt) + 1) % (Base * Base * Base * Base)
      BY <2>2, <3>2, SumKept DEF AddsTo
    <3>4. nxt' = r /\ total' = Value(r) /\ data' = data
      BY <2>2, <2>3, <3>1, <3>3 DEF TimerIss
    <3> QED
      BY <2>2, <3>3, <3>4 DEF ArithInv, Value
  <2>4. ASSUME NEW n \in Word, UipAddRcvNxt(n) PROVE ArithInv'
    <3>1. PICK r : r = UipAdd32(nxt, n)
      OBVIOUS
    <3>2. AddsTo(nxt, n, r)
      BY <2>2, <3>1, Add32
    <3>3. r \in Quads /\ Value(r) = (Value(nxt) + n) % (Base * Base * Base * Base)
      BY <2>2, <3>2, SumKept, WordIsNat DEF AddsTo
    <3>4. nxt' = r /\ total' = Value(r) /\ data' = data
      BY <2>2, <2>4, <3>1, <3>3 DEF UipAddRcvNxt
    <3> QED
      BY <2>2, <3>3, <3>4 DEF ArithInv, Value
  <2>5. ASSUME NEW b \in Byte, MoreData(b) PROVE ArithInv'
    <3>1. data' \in Seq(Byte) /\ Len(data') <= MaxData
      BY <2>2, <2>5, ArithAssumption DEF MoreData, ArithAssumption
    <3>2. nxt' = nxt /\ total' = total
      BY <2>5 DEF MoreData
    <3> QED
      BY <2>2, <3>1, <3>2 DEF ArithInv, Value
  <2>6. CASE UNCHANGED arithVars
    BY <2>2, <2>6 DEF arithVars, ArithInv, Value
  <2> QED
    BY <2>1, <2>3, <2>4, <2>5, <2>6 DEF ArithNext
<1>3. ArithInv => ArithIsRight
  <2>1. SUFFICES ASSUME ArithInv PROVE ArithIsRight
    OBVIOUS
  <2>2. SequenceNumberIsSum
    BY <2>1 DEF ArithInv, SequenceNumberIsSum, Value
  <2>3. ChecksumIsOnesComplementSum
    BY <2>1, ChecksumHolds DEF ArithInv
  <2> QED
    BY <2>2, <2>3 DEF ArithIsRight
<1> QED
  BY <1>1, <1>2, <1>3, PTL DEF ArithSpec
=============================================================================
